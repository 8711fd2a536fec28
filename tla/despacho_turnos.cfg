SPECIFICATION SpecJusta
CONSTANTS
  Hilos <- TresProcesos
  Prioridades <- SoloIguales
  Algoritmos = {"CMN"}
  Syscalls = {"DUMP_MEMORY", "PROCESS_CREATE"}
  RtasDump = {1}
  QuantumHolgado = TRUE
  MaxPosts = 1
  MaxInterrupciones = 1
PROPERTIES
  DespachaAlMejor
  NadieEspera
\* the system stops for real: programs end, or an error leaves a process waiting
CHECK_DEADLOCK FALSE
