SPECIFICATION SpecJusta
CONSTANTS
  BLOCK_COUNT = 8
  Cantidades = {1, 2, 3}
  MaxDumps = 4
  MaxCaidas = 2
INVARIANTS
  TypeOK
  SinSolapamiento
  HayBase
  DumpDurable
PROPERTIES
  TodoDumpSeResponde
\* the system stops for real when nobody asks for more dumps
CHECK_DEADLOCK FALSE
