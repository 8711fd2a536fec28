SPECIFICATION SpecJusta
CONSTANTS
  Hilos <- DosHilos
  Prioridades <- SoloIguales
  Algoritmos = {"FIFO"}
  Syscalls = {"ERROR_SEGFAULT", "ERROR_EXC"}
  RtasDump = {1}
  QuantumHolgado = FALSE
  MaxPosts = 2
  MaxInterrupciones = 1
PROPERTIES
  ErrorDesaloja
\* the system stops for real: programs end, or an error leaves a process waiting
CHECK_DEADLOCK FALSE
