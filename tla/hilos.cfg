SPECIFICATION Spec
CONSTANTS
  MaxHilos = 3
  MaxBloqueos = 2
  m1 = m1
  m2 = m2
  Mutexes = {m1, m2}
SYMMETRY Simetria
INVARIANTS
  TypeOK
  MutexExclusivo
  ListaSegunEstado
  TodoBloqueadoEsperaAlgo
CHECK_DEADLOCK FALSE
