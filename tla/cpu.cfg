SPECIFICATION SpecJusta
CONSTANTS
  Hilos <- DosHilos
  Programa <- Programas
  Generales <- AX_BX
  Base <- Bases
  Limite <- Limites
  TamMemoria = 9
  Celda = 4
  BytesPorPalabra = 2
  MaxInterrupciones = 1
INVARIANTS
  TypeOK
  InterrupcionDelCargado
PROPERTIES
  EjecutaProgramas
  SoloFallaElUltimoContexto
  EscrituraAcotada
  HiloDevuelto
\* programs end, and an error or a death leaves the rest waiting
CHECK_DEADLOCK FALSE
