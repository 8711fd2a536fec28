SPECIFICATION SpecJusta
CONSTANTS
  TAM_MEMORIA = 6
  PARTICIONES <- Fijas
  Esquemas = {"FIJAS", "DINAMICAS"}
  Busquedas = {"FIRST", "BEST", "WORST"}
  Tamanios = {1, 2, 3}
  MaxProcesos = 5
INVARIANTS
  TypeOK
  Mosaico
  UnaPorProceso
  RechazoJusto
  RestoUnico
  BuenaEleccion
  AdmisionEnOrden
  NadieEsperaConLugar
PROPERTIES
  CumpleLoPrometido
  TodosAdmitidos
\* the system stops for real when every process has ended
CHECK_DEADLOCK FALSE
