SPECIFICATION SpecJusta
CONSTANTS
  MaxTid = 1
  Algoritmos = {"FIFO", "PRIORIDADES", "CMN"}
  MaxTickets = 2
  MaxPosts = 2
INVARIANTS
  TypeOK
  UnicoAbrazo
  CadaHiloEnUnLugar
  BusquedaSola
PROPERTIES
  DesalojoAtendido
\* the kernel stops for real: a deadlock, a crash, or nothing to run
CHECK_DEADLOCK FALSE
