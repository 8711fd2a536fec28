SPECIFICATION Spec
CONSTANTS
  Hilos <- DosHilos
  Prioridades <- SoloIguales
  Algoritmos = {"FIFO"}
  Syscalls = {"IO", "THREAD_CREATE"}
  RtasDump = {1}
  QuantumHolgado = FALSE
  MaxPosts = 2
  MaxInterrupciones = 1
PROPERTIES
  HiloEncontrado
\* the system stops for real: programs end, or an error leaves a process waiting
CHECK_DEADLOCK FALSE
