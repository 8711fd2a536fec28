INIT InitVarias
NEXT Next
CONSTANTS
  Hilos <- DosHilos
  Prioridades <- Varias
  Algoritmos = {"FIFO", "PRIORIDADES", "CMN"}
  Syscalls = {"IO", "DUMP_MEMORY", "THREAD_CREATE", "THREAD_JOIN", "MUTEX_CREATE", "MUTEX_LOCK", "MUTEX_UNLOCK", "THREAD_EXIT", "PROCESS_EXIT", "ERROR_SEGFAULT", "ERROR_EXC"}
  RtasDump = {0, 1}
  QuantumHolgado = FALSE
  MaxPosts = 2
  MaxInterrupciones = 1
INVARIANTS
  TypeOK
  UnoEnEjecucion
  SinDuplicados
  RespuestaUnica
  CpuEjecutaLoDeExec
  SinDespertarPerdido
PROPERTIES
  DespachaAlMejor
\* the system stops for real: programs end, or an error leaves a process waiting
CHECK_DEADLOCK FALSE
