------------------------------ MODULE LargoPlazo ------------------------------
(***************************************************************************)
(* Admission of processes: lista_new, plp() and finalizar_proceso() of the *)
(* kernel over the memory of module Particiones.                           *)
(*                                                                         *)
(* attend_kernel_cpu_dispatch is the only thread that creates or ends a    *)
(* process once main has made the initial one, and it waits for memoria's  *)
(* answer each time, so handlers do not interleave; a handler's turns of   *)
(* the plp loop are steps of their own.                                    *)
(***************************************************************************)
EXTENDS Particiones, FiniteSets

CONSTANT MaxProcesos   \* bound: processes ever created

ASSUME MaxProcesosOK == MaxProcesos \in Nat \ {0}

VARIABLES
  lista_new,          \* [pid, size] of the processes not admitted yet
  lista_ready,        \* pids of the admitted processes
  lista_exit,         \* pids of the finished ones
  identificador_PID,  \* next pid
  hay_pcb             \* plp's loop is running, in some handler

kernelVars == <<lista_new, lista_ready, lista_exit, identificador_PID, hay_pcb>>
vars == <<memoriaVars, kernelVars>>

Pids == 0..(MaxProcesos - 1)

\* crear_proceso_inicial: main makes the first process and calls plp.
Init ==
  /\ MemoriaInit
  /\ \E t \in Tamanios : lista_new = <<[pid |-> 0, size |-> t]>>
  /\ lista_ready = {} /\ lista_exit = {}
  /\ identificador_PID = 1
  /\ hay_pcb = TRUE

\* process_create_sys, asked by a running process.
ProcessCreate(t) ==
  /\ ~hay_pcb /\ lista_ready # {}
  /\ identificador_PID < MaxProcesos
  /\ lista_new' = Append(lista_new, [pid |-> identificador_PID, size |-> t])
  /\ identificador_PID' = identificador_PID + 1
  /\ hay_pcb' = TRUE
  /\ UNCHANGED <<memoriaVars, lista_ready, lista_exit>>

\* Mutant: the last process of lista_new is asked for first.
PlpAdmiteAlUltimo ==
  /\ hay_pcb /\ lista_new # <<>>
  /\ LET pcb == lista_new[Len(lista_new)]
     IN  /\ InicializarEstructuras(pcb.pid, pcb.size)
         /\ lista_ready' = lista_ready \cup {pcb.pid}
  /\ lista_new' = SubSeq(lista_new, 1, Len(lista_new) - 1)
  /\ hay_pcb' = (lista_new' # <<>>)
  /\ UNCHANGED <<lista_exit, identificador_PID>>

\* A turn of plp's loop: the head of lista_new, and only it, is asked for.
PlpAdmite ==
  /\ hay_pcb /\ lista_new # <<>>
  /\ LET pcb == Head(lista_new)
     IN  /\ InicializarEstructuras(pcb.pid, pcb.size)
         /\ lista_ready' = lista_ready \cup {pcb.pid}
  /\ lista_new' = Tail(lista_new)
  /\ hay_pcb' = (Tail(lista_new) # <<>>)
  /\ UNCHANGED <<lista_exit, identificador_PID>>

\* Mutant: a process there is no room for is dropped.
PlpDescarta ==
  /\ hay_pcb /\ lista_new # <<>>
  /\ RechazarEstructuras(Head(lista_new).size)
  /\ hay_pcb' = FALSE
  /\ lista_new' = Tail(lista_new)
  /\ UNCHANGED <<lista_ready, lista_exit, identificador_PID>>

PlpNoAdmite ==
  /\ hay_pcb
  /\ IF lista_new # <<>> THEN RechazarEstructuras(Head(lista_new).size)
                         ELSE UNCHANGED memoriaVars
  /\ hay_pcb' = FALSE
  /\ UNCHANGED <<lista_new, lista_ready, lista_exit, identificador_PID>>

\* Mutant: finalizar_proceso without its call to plp.
FinalizarSinPlp(p) ==
  /\ ~hay_pcb /\ p \in lista_ready
  /\ FinalizarEstructuras(p)
  /\ lista_ready' = lista_ready \ {p}
  /\ lista_exit' = lista_exit \cup {p}
  /\ UNCHANGED <<lista_new, identificador_PID, hay_pcb>>

\* finalizar_proceso, reached from process_exit_sys: memoria frees the process
\* before plp looks at lista_new again.
FinalizarProceso(p) ==
  /\ ~hay_pcb /\ p \in lista_ready
  /\ FinalizarEstructuras(p)
  /\ lista_ready' = lista_ready \ {p}
  /\ lista_exit' = lista_exit \cup {p}
  /\ hay_pcb' = TRUE
  /\ UNCHANGED <<lista_new, identificador_PID>>

Plp == PlpAdmite \/ PlpNoAdmite

Next ==
  \/ \E t \in Tamanios : ProcessCreate(t)
  \/ Plp
  \/ \E p \in Pids : FinalizarProceso(p)

Spec == Init /\ [][Next]_vars

\* plp's loop goes on and every program ends in the end.
SpecJusta ==
  Spec /\ WF_vars(Plp) /\ \A p \in Pids : WF_vars(FinalizarProceso(p))

-----------------------------------------------------------------------------
(* Properties *)

EnNew == {lista_new[i].pid : i \in 1..Len(lista_new)}

\* The types, and a process is in exactly one of the kernel's lists.
TypeOK ==
  /\ TipoMemoria
  /\ lista_new \in Seq([pid : Pids, size : Tamanios])
  /\ lista_ready \subseteq Pids /\ lista_exit \subseteq Pids
  /\ identificador_PID \in 1..MaxProcesos
  /\ hay_pcb \in BOOLEAN

\* The kernel and memoria agree on who is admitted, and processes are admitted
\* in the order they were created: no small one overtakes a big one that waits.
AdmisionEnOrden ==
  /\ DOMAIN procesos = lista_ready
  /\ \A p \in EnNew, q \in lista_ready \cup lista_exit : q < p
  /\ EnNew \cup lista_ready \cup lista_exit = 0..(identificador_PID - 1)
  /\ \A i, j \in 1..Len(lista_new) : i < j => lista_new[i].pid < lista_new[j].pid

\* Between handlers the first process of lista_new waits only because memoria
\* has no place for it: no end of process forgets to run plp.
NadieEsperaConLugar == ~hay_pcb /\ lista_new # <<>> => ~Cabe(Head(lista_new).size)

\* If every size fits the memory and every program ends, every process created
\* is admitted: FIFO admission starves nobody.
TodosAdmitidos == \A p \in Pids : p \in EnNew ~> p \in lista_ready

\* memoria keeps the promise of MemoriaDeUsuario, seen through base and limite,
\* which is what the MMU checks addresses against.
Abstracta ==
  INSTANCE MemoriaDeUsuario WITH
    Bytes  <- 0..(TAM_MEMORIA - 1),
    Libre  <- SinPid,
    duenio <- [x \in 0..(TAM_MEMORIA - 1) |->
                 IF \E p \in DOMAIN procesos : procesos[p].base <= x /\ x <= procesos[p].limite
                 THEN CHOOSE p \in DOMAIN procesos :
                        procesos[p].base <= x /\ x <= procesos[p].limite
                 ELSE SinPid]

CumpleLoPrometido == Abstracta!Spec
=============================================================================
