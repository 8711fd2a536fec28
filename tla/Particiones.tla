----------------------------- MODULE Particiones -----------------------------
(***************************************************************************)
(* The user memory of memoria: lista_particiones, the search for a         *)
(* partition under the schemes FIJAS and DINAMICAS with FIRST, BEST or     *)
(* WORST, and the grouping of free partitions when a process ends.         *)
(*                                                                         *)
(* The kernel makes one of these requests at a time and waits for its      *)
(* answer, so each request is one action; module LargoPlazo makes them.    *)
(***************************************************************************)
EXTENDS Integers, Sequences, Listas

CONSTANTS
  TAM_MEMORIA,  \* bytes of user memory
  PARTICIONES,  \* sizes of the fixed partitions, in order
  Esquemas,     \* values ESQUEMA may be configured to
  Busquedas,    \* values ALGORITMO_BUSQUEDA may be configured to
  Tamanios      \* sizes processes ask for

ASSUME MemoriaOK ==
  /\ TAM_MEMORIA \in Nat \ {0}
  /\ PARTICIONES \in Seq(Nat \ {0})
  /\ "FIJAS" \in Esquemas => PARTICIONES # <<>>
  /\ Esquemas \subseteq {"FIJAS", "DINAMICAS"}
  /\ Busquedas \subseteq {"FIRST", "BEST", "WORST"}
  /\ Tamanios \subseteq Nat \ {0}

VARIABLES
  esquema,      \* ESQUEMA
  busqueda,     \* ALGORITMO_BUSQUEDA
  particiones,  \* lista_particiones
  procesos      \* lista_procesos: base and limite of each process, by pid

memoriaVars == <<esquema, busqueda, particiones, procesos>>

Marco(b, t, l, p) == [base |-> b, tamanio |-> t, libre |-> l, pid |-> p]

\* A marco that never had an owner, and the pid of a grouped one (NULL).
SinPid == -1
Nulo   == 0

\* Where the i-th fixed partition begins: the sizes before it, added up.
BaseFija[i \in 1..Len(PARTICIONES)] ==
  IF i = 1 THEN 0 ELSE BaseFija[i - 1] + PARTICIONES[i - 1]

\* iniciar_memoria.
MemoriaInit ==
  /\ esquema \in Esquemas
  /\ busqueda \in Busquedas
  /\ particiones =
       IF esquema = "FIJAS"
       THEN [i \in 1..Len(PARTICIONES) |-> Marco(BaseFija[i], PARTICIONES[i], TRUE, SinPid)]
       ELSE <<Marco(0, TAM_MEMORIA, TRUE, SinPid)>>
  /\ procesos = <<>>

\* Mutant: any free partition will do.
CabeSinTamanio(t) == \E i \in 1..Len(particiones) : particiones[i].libre

\* hay_espacio_libre.
Cabe(t) ==
  \E i \in 1..Len(particiones) : particiones[i].libre /\ particiones[i].tamanio >= t

\* Mutant: the comparison of _min_space the other way round.
MinSpaceAlReves(i, j, t) ==
  IF particiones[i].tamanio < t \/ ~particiones[i].libre THEN j
  ELSE IF particiones[j].tamanio < t \/ ~particiones[j].libre THEN i
  ELSE IF particiones[i].tamanio >= particiones[j].tamanio THEN i ELSE j

\* _min_space and _max_space, on positions; the second one looks at no size.
MinSpace(i, j, t) ==
  IF particiones[i].tamanio < t \/ ~particiones[i].libre THEN j
  ELSE IF particiones[j].tamanio < t \/ ~particiones[j].libre THEN i
  ELSE IF particiones[i].tamanio <= particiones[j].tamanio THEN i ELSE j

MaxSpace(i, j) ==
  IF ~particiones[i].libre THEN j
  ELSE IF ~particiones[j].libre THEN i
  ELSE IF particiones[i].tamanio >= particiones[j].tamanio THEN i ELSE j

\* list_get_minimum and list_get_maximum fold the list from its head.
Minimo(t) ==
  LET hasta[i \in 1..Len(particiones)] == IF i = 1 THEN 1 ELSE MinSpace(hasta[i - 1], i, t)
  IN  hasta[Len(particiones)]

Maximo ==
  LET hasta[i \in 1..Len(particiones)] == IF i = 1 THEN 1 ELSE MaxSpace(hasta[i - 1], i)
  IN  hasta[Len(particiones)]

\* k is the partition asignar_memoria_al_proceso settles on.
Elegida(k, t) ==
  CASE busqueda = "FIRST" ->
         /\ particiones[k].libre /\ particiones[k].tamanio >= t
         /\ \A j \in 1..(k - 1) : ~(particiones[j].libre /\ particiones[j].tamanio >= t)
    [] busqueda = "BEST"  -> k = Minimo(t)
    [] busqueda = "WORST" -> k = Maximo

\* FIJAS gives the whole partition; its limit is that of the partition.
TomarFija(k, p) ==
  LET m == particiones[k]
  IN  /\ particiones' = [particiones EXCEPT ![k] = [@ EXCEPT !.libre = FALSE, !.pid = p]]
      /\ procesos' = [q \in DOMAIN procesos \cup {p} |->
                        IF q = p THEN [base |-> m.base, limite |-> m.base + m.tamanio - 1]
                        ELSE procesos[q]]

\* Mutants: the rest keeps its base; the limit is one byte past the end.
RestoSinMover(k, p, t) ==
  LET m == particiones[k]
  IN  /\ particiones' = Insertar([particiones EXCEPT ![k].tamanio = @ - t], k,
                                 Marco(m.base, t, FALSE, p))
      /\ procesos' = [q \in DOMAIN procesos \cup {p} |->
                        IF q = p THEN [base |-> m.base, limite |-> m.base + t - 1]
                        ELSE procesos[q]]

LimitePasado(k, p, t) ==
  LET m     == particiones[k]
      resto == [m EXCEPT !.tamanio = @ - t, !.base = @ + t]
  IN  /\ particiones' =
           Insertar([particiones EXCEPT ![k] = resto], k, Marco(m.base, t, FALSE, p))
      /\ procesos' = [q \in DOMAIN procesos \cup {p} |->
                        IF q = p THEN [base |-> m.base, limite |-> m.base + t]
                        ELSE procesos[q]]

\* DINAMICAS puts a partition of the size asked before what is left of the free
\* one, even if nothing is left.  The loop of BEST goes on, and splits again
\* any free partition that begins where the rest begins (see RestoUnico).
TomarDinamica(k, p, t) ==
  LET m     == particiones[k]
      resto == [m EXCEPT !.tamanio = @ - t, !.base = @ + t]
  IN  /\ particiones' =
           Insertar([particiones EXCEPT ![k] = resto], k, Marco(m.base, t, FALSE, p))
      /\ procesos' = [q \in DOMAIN procesos \cup {p} |->
                        IF q = p THEN [base |-> m.base, limite |-> m.base + t - 1]
                        ELSE procesos[q]]

\* INICIALIZAR_ESTRUCTURAS_KM answered 1, or 0.
InicializarEstructuras(p, t) ==
  /\ Cabe(t)
  /\ \E k \in 1..Len(particiones) :
       /\ Elegida(k, t)
       /\ IF esquema = "FIJAS" THEN TomarFija(k, p) ELSE TomarDinamica(k, p, t)
  /\ UNCHANGED <<esquema, busqueda>>

RechazarEstructuras(t) == ~Cabe(t) /\ UNCHANGED memoriaVars

\* Mutant: the last partition with that pid.
EsLaUltimaDe(i, p) ==
  /\ particiones[i].pid = p
  /\ \A j \in (i + 1)..Len(particiones) : particiones[j].pid # p

\* The first partition with that pid, free or not, as both schemes look for it.
EsLaDe(i, p) ==
  /\ particiones[i].pid = p
  /\ \A j \in 1..(i - 1) : particiones[j].pid # p

\* Mutants: the partition is grouped with the previous one only, or the next.
AgruparAnterior(l, i) ==
  IF i > 1 /\ l[i - 1].libre
  THEN Reemplazar(l, i - 1, i,
                  Marco(l[i - 1].base, l[i - 1].tamanio + l[i].tamanio, TRUE, Nulo))
  ELSE l

AgruparSiguiente(l, i) ==
  IF i < Len(l) /\ l[i + 1].libre
  THEN Reemplazar(l, i, i + 1, Marco(l[i].base, l[i].tamanio + l[i + 1].tamanio, TRUE, Nulo))
  ELSE l

\* agrupar_espacios_libres(i): one partition with its free neighbours.
Agrupar(l, i) ==
  LET a == IF i > 1 /\ l[i - 1].libre THEN i - 1 ELSE i
      b == IF i < Len(l) /\ l[i + 1].libre THEN i + 1 ELSE i
      t == (IF a < i THEN l[a].tamanio ELSE 0) + l[i].tamanio
             + (IF b > i THEN l[b].tamanio ELSE 0)
  IN  IF a = b THEN l ELSE Reemplazar(l, a, b, Marco(l[a].base, t, TRUE, Nulo))

\* FINALIZAR_ESTRUCTURAS_KM: finalizar_estructuras and eliminar_proceso.  A free
\* partition keeps the pid it had.
FinalizarEstructuras(p) ==
  /\ p \in DOMAIN procesos
  /\ \E i \in 1..Len(particiones) :
       /\ EsLaDe(i, p)
       /\ LET libre == [particiones EXCEPT ![i] = [@ EXCEPT !.libre = TRUE]]
          IN  particiones' = IF esquema = "DINAMICAS" THEN Agrupar(libre, i) ELSE libre
  /\ procesos' = [q \in DOMAIN procesos \ {p} |-> procesos[q]]
  /\ UNCHANGED <<esquema, busqueda>>

-----------------------------------------------------------------------------
(* Properties *)

TipoMemoria ==
  /\ esquema \in Esquemas /\ busqueda \in Busquedas
  /\ particiones \in Seq([base : Nat, tamanio : Nat, libre : BOOLEAN, pid : Int])
  /\ \A p \in DOMAIN procesos : procesos[p] \in [base : Nat, limite : Nat]

\* The partitions tile the memory: each begins where the one before it ends,
\* and none is lost or counted twice by the splits and the groupings.
Mosaico ==
  /\ \A i \in 1..(Len(particiones) - 1) :
       particiones[i + 1].base = particiones[i].base + particiones[i].tamanio
  /\ particiones[1].base = 0
  /\ esquema = "DINAMICAS" =>
       LET u == particiones[Len(particiones)] IN u.base + u.tamanio = TAM_MEMORIA

\* Every process of lista_procesos has exactly one occupied partition and
\* every occupied partition is some process's: what finalizar_estructuras
\* frees by its pid, through pids that free partitions keep, is never
\* somebody else's and nothing stays occupied for ever.
UnaPorProceso ==
  LET Ocupadas == {i \in 1..Len(particiones) : ~particiones[i].libre}
  IN  /\ \A i \in Ocupadas :
           /\ particiones[i].pid \in DOMAIN procesos
           /\ procesos[particiones[i].pid].base = particiones[i].base
           /\ procesos[particiones[i].pid].limite
                = particiones[i].base + particiones[i].tamanio - 1
      /\ \A p \in DOMAIN procesos : \E i \in Ocupadas : particiones[i].pid = p
      /\ \A i, j \in Ocupadas : particiones[i].pid = particiones[j].pid => i = j

\* DINAMICAS turns a process away only if no run of free bytes is long enough:
\* the groupings leave no hole split in two, whatever the order in which the
\* neighbours ended.
RechazoJusto ==
  esquema = "DINAMICAS" =>
    \A t \in Tamanios :
      (\E b \in 0..(TAM_MEMORIA - t) : \A p \in DOMAIN procesos :
         procesos[p].limite < b \/ b + t <= procesos[p].base) => Cabe(t)

\* No two free partitions begin at the same byte, nor at the first byte after
\* another: the loop of BEST, which has no break, splits one partition only.
RestoUnico ==
  esquema = "DINAMICAS" =>
    \A i, j \in 1..Len(particiones) :
      /\ i < j /\ particiones[i].libre /\ particiones[j].libre =>
           particiones[i].base + particiones[i].tamanio < particiones[j].base

\* BEST takes a smallest partition of those where the process fits and WORST a
\* largest one, and the process does fit, though _max_space looks at no size.
BuenaEleccion ==
  \A t \in Tamanios, k \in 1..Len(particiones) :
    Cabe(t) /\ Elegida(k, t) =>
      /\ particiones[k].libre /\ particiones[k].tamanio >= t
      /\ \A j \in 1..Len(particiones) :
           particiones[j].libre /\ particiones[j].tamanio >= t =>
             /\ busqueda = "BEST"  => particiones[k].tamanio <= particiones[j].tamanio
             /\ busqueda = "WORST" => particiones[k].tamanio >= particiones[j].tamanio
=============================================================================
