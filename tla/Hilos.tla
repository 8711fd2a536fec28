--------------------------------- MODULE Hilos ---------------------------------
(***************************************************************************)
(* The threads of one process: the lists of the kernel they are in, the    *)
(* user mutexes and THREAD_JOIN, and how a thread ends.                    *)
(*                                                                         *)
(* Despacho leaves open whether a lock or a join blocks; here the lists    *)
(* behind that choice decide.  A handler of attend_kernel_cpu_dispatch is  *)
(* one action: the thread that asks is the one in EXEC until its handler   *)
(* answers (CpuEjecutaLoDeExec in Despacho).  The end of an IO runs in a   *)
(* thread of its own and falls between two handlers, or during one: then   *)
(* their searches overlap, a TCB may end in any list, and the module stops *)
(* following the kernel (BusquedasCruzadas; Cerrojos goes on).  The order  *)
(* of lista_ready_thread is Despacho's matter: any thread in it may be     *)
(* next, so the lists are kept as how many times each thread is in them.   *)
(***************************************************************************)
EXTENDS Naturals, Sequences, FiniteSets, Listas

CONSTANTS
  MaxHilos,     \* threads the program may create, the main one included
  Mutexes,      \* names the program uses
  MaxBloqueos   \* bound: entries of one thread in lista_blocked_thread

ASSUME HilosConstantes ==
  /\ MaxHilos \in Nat \ {0}
  /\ MaxBloqueos \in Nat \ {0}

Tids == 0..(MaxHilos - 1)

VARIABLES
  sistema,      \* "vivo", "caido" (the kernel read a bad pointer), "memoria"
                \* (memoria ended: it was asked for a context it does not have),
                \* "cruzado" (two searches overlapped)
  en,           \* en[l][h]: how many times h is in the list l
  estado,       \* tcb->estado; "NADA" before create_tcb
  mutexes,      \* pcb->lista_mutex
  esperan,      \* esperan[h]: h's lista_blocked_thread, the threads joined to h
  destruidas,   \* threads whose lista_blocked_thread was destroyed
  io,           \* threads with a syscall_io thread that has not ended
  conContexto,  \* threads memoria has a context for
  perdidos,     \* blocked in a list that had been destroyed
  adentro       \* adentro[m]: threads answered that m is theirs (no variable
                \* of the code: what the programs believe)

vars == <<sistema, en, estado, mutexes, esperan, destruidas, io, conContexto,
          perdidos, adentro>>

ListasDeHilos == {"ready", "exec", "exit", "blocked"}
Existe(h) == estado[h] # "NADA"
Creados   == {h \in Tids : Existe(h)}

Init ==
  /\ sistema = "vivo"
  /\ en = [l \in ListasDeHilos |-> [h \in Tids |-> IF l = "ready" /\ h = 0 THEN 1 ELSE 0]]
  /\ estado = [h \in Tids |-> IF h = 0 THEN "READY" ELSE "NADA"]
  /\ mutexes = [m \in Mutexes |->
       [existe |-> FALSE, libre |-> TRUE, thread |-> 0, bloqueados |-> <<>>]]
  /\ esperan = [h \in Tids |-> {}]
  /\ destruidas = {}
  /\ io = {}
  /\ conContexto = {0}
  /\ perdidos = {}
  /\ adentro = [m \in Mutexes |-> {}]

-----------------------------------------------------------------------------
(* The lists *)

\* Mutant: lista_blocked_thread is searched first.
OrdenBloqueadosPrimero == <<"blocked", "ready", "exec", "exit">>

\* The order in which buscar_y_remover_tcb_por_tid goes through the lists
\* (lista_new_thread is always empty).
OrdenDeBusqueda == <<"ready", "exec", "exit", "blocked">>

\* Mutant: only lista_execute_thread is searched.
SoloEnExec(h) == "exec"

\* The list where h is found: the first of the order that has it.
ListaDe(h) ==
  LET esta(i) == en[OrdenDeBusqueda[i]][h] > 0
  IN  OrdenDeBusqueda[CHOOSE i \in 1..4 : esta(i) /\ \A j \in 1..(i - 1) : ~esta(j)]

\* The lists e after buscar_y_remover_tcb_por_tid(h).
SinHilo(e, h) == [e EXCEPT ![ListaDe(h)][h] = @ - 1]

\* The lists e after each thread of hs is added to l.
ConHilos(e, l, hs) ==
  [e EXCEPT ![l] = [h \in Tids |-> e[l][h] + (IF h \in hs THEN 1 ELSE 0)]]

-----------------------------------------------------------------------------
(* Running *)

Corre(h) == sistema = "vivo" /\ en["exec"][h] > 0

\* pcp takes a thread of lista_ready_thread; the CPU asks memoria for its
\* context, and memoria ends if it has none.
Despachar(h) ==
  /\ sistema = "vivo"
  /\ \A g \in Tids : en["exec"][g] = 0
  /\ en["ready"][h] > 0
  /\ en' = [en EXCEPT !["ready"][h] = @ - 1, !["exec"][h] = @ + 1]
  /\ estado' = [estado EXCEPT ![h] = "EXEC"]
  /\ sistema' = IF h \in conContexto THEN "vivo" ELSE "memoria"
  /\ UNCHANGED <<mutexes, esperan, destruidas, io, conContexto, perdidos, adentro>>

\* DESALOJO_QUAMTUN_CK.
Desalojar(h) ==
  /\ Corre(h)
  /\ en' = ConHilos(SinHilo(en, h), "ready", {h})
  /\ estado' = [estado EXCEPT ![h] = "READY"]
  /\ UNCHANGED <<sistema, mutexes, esperan, destruidas, io, conContexto, perdidos, adentro>>

Caer ==
  /\ sistema' = "caido"
  /\ UNCHANGED <<en, estado, mutexes, esperan, destruidas, io, conContexto, perdidos, adentro>>

\* memoria is asked for a thread it does not have.
CaerMemoria ==
  /\ sistema' = "memoria"
  /\ UNCHANGED <<en, estado, mutexes, esperan, destruidas, io, conContexto, perdidos, adentro>>

\* h leaves its list for lista_blocked_thread.
Bloquear(h) ==
  /\ en["blocked"][h] < MaxBloqueos
  /\ en' = ConHilos(SinHilo(en, h), "blocked", {h})
  /\ estado' = [estado EXCEPT ![h] = "BLOCKED"]

\* Mutant: the threads joined to h are not readied.
FinalizarSinLiberar(h) ==
  /\ en' = ConHilos(SinHilo(en, h), "exit", {h})
  /\ estado' = [estado EXCEPT ![h] = "EXIT"]
  /\ esperan' = [esperan EXCEPT ![h] = {}]
  /\ destruidas' = destruidas \cup {h}
  /\ conContexto' = conContexto \ {h}
  /\ adentro' = [m \in Mutexes |-> adentro[m] \ {h}]

\* finalizar_hilo: memoria drops the context, h goes to lista_exit_thread and
\* liberar_hilos_bloqueados readies whoever is in its list, whatever became of
\* them meanwhile, without taking them out of any other list.
Finalizar(h) ==
  /\ en' = ConHilos(ConHilos(SinHilo(en, h), "exit", {h}), "ready", esperan[h])
  /\ estado' = [g \in Tids |-> IF g \in esperan[h] THEN "READY"
                               ELSE IF g = h THEN "EXIT" ELSE estado[g]]
  /\ esperan' = [esperan EXCEPT ![h] = {}]
  /\ destruidas' = destruidas \cup {h}
  /\ conContexto' = conContexto \ {h}
  /\ adentro' = [m \in Mutexes |-> adentro[m] \ {h}]

-----------------------------------------------------------------------------
(* Mutexes *)

\* mutex_create adds a mutex at the end of the list without looking for one of
\* that name; find_mutex returns the first, so a second one is never used.
MutexCreate(h, m) ==
  /\ Corre(h)
  /\ mutexes' = [mutexes EXCEPT ![m] = [mutexes[m] EXCEPT !.existe = TRUE]]
  /\ UNCHANGED <<sistema, en, estado, esperan, destruidas, io, conContexto, perdidos, adentro>>

MutexLockLibre(h, m) ==
  /\ Corre(h)
  /\ mutexes[m].existe /\ mutexes[m].libre
  /\ mutexes' = [mutexes EXCEPT ![m] = [mutexes[m] EXCEPT !.libre = FALSE, !.thread = h]]
  /\ adentro' = [adentro EXCEPT ![m] = @ \cup {h}]
  /\ UNCHANGED <<sistema, en, estado, esperan, destruidas, io, conContexto, perdidos>>

\* A busy mutex, h's own included.
MutexLockOcupado(h, m) ==
  /\ Corre(h)
  /\ mutexes[m].existe /\ ~mutexes[m].libre
  /\ Bloquear(h)
  /\ LET cola == Append(mutexes[m].bloqueados, h)
     IN  mutexes' = [mutexes EXCEPT ![m] = [mutexes[m] EXCEPT !.bloqueados = cola]]
  /\ UNCHANGED <<sistema, esperan, destruidas, io, conContexto, perdidos, adentro>>

\* A mutex nobody created ends the thread.
MutexLockInexistente(h, m) ==
  /\ Corre(h)
  /\ ~mutexes[m].existe
  /\ Finalizar(h)
  /\ UNCHANGED <<sistema, mutexes, io, perdidos>>

\* Mutant: the owner is not checked.
EntregarSinMirarDuenio(h, m) ==
  /\ Corre(h)
  /\ mutexes[m].existe
  /\ mutexes[m].bloqueados # <<>>
  /\ LET w == Head(mutexes[m].bloqueados)
         cola == Tail(mutexes[m].bloqueados)
     IN  /\ mutexes' =
              [mutexes EXCEPT ![m] = [mutexes[m] EXCEPT !.thread = w, !.bloqueados = cola]]
         /\ en' = ConHilos(en, "ready", {w})
         /\ estado' = [estado EXCEPT ![w] = "READY"]
         /\ adentro' = [adentro EXCEPT ![m] = (@ \ {h}) \cup {w}]
  /\ UNCHANGED <<sistema, esperan, destruidas, io, conContexto, perdidos>>

\* mutex_unlock by its owner: the mutex passes, still busy, to the first
\* waiter, which is readied without leaving lista_blocked_thread.
MutexUnlockEntrega(h, m) ==
  /\ Corre(h)
  /\ mutexes[m].existe /\ mutexes[m].thread = h
  /\ mutexes[m].bloqueados # <<>>
  /\ LET w == Head(mutexes[m].bloqueados)
         cola == Tail(mutexes[m].bloqueados)
     IN  /\ mutexes' =
              [mutexes EXCEPT ![m] = [mutexes[m] EXCEPT !.thread = w, !.bloqueados = cola]]
         /\ en' = ConHilos(en, "ready", {w})
         /\ estado' = [estado EXCEPT ![w] = "READY"]
         /\ adentro' = [adentro EXCEPT ![m] = (@ \ {h}) \cup {w}]
  /\ UNCHANGED <<sistema, esperan, destruidas, io, conContexto, perdidos>>

\* Nobody waits.  A mutex without owner has thread = NULL, which is tid 0.
MutexUnlockLibera(h, m) ==
  /\ Corre(h)
  /\ mutexes[m].existe /\ mutexes[m].thread = h
  /\ mutexes[m].bloqueados = <<>>
  /\ mutexes' = [mutexes EXCEPT ![m] = [mutexes[m] EXCEPT !.thread = 0, !.libre = TRUE]]
  /\ adentro' = [adentro EXCEPT ![m] = @ \ {h}]
  /\ UNCHANGED <<sistema, en, estado, esperan, destruidas, io, conContexto, perdidos>>

\* The name of the mutex is read before the test for NULL.  (An unlock by a
\* thread that is not the owner is answered 1 and changes nothing.)
MutexUnlockInexistente(h, m) == Corre(h) /\ ~mutexes[m].existe /\ Caer

-----------------------------------------------------------------------------
(* THREAD_CREATE, THREAD_JOIN, THREAD_CANCEL, THREAD_EXIT, PROCESS_EXIT, IO *)

\* crear_hilo reads the thread at position tid - 1 of lista_ready_thread for a
\* log line: with fewer threads ready it is NULL.
ThreadCreate(h) ==
  /\ Corre(h)
  /\ Cardinality(Creados) < MaxHilos
  /\ LET nuevo  == Cardinality(Creados)
         listos == Cardinality({g \in Tids : en["ready"][g] > 0}) + 1
     IN  IF listos < nuevo THEN Caer
         ELSE /\ en' = ConHilos(en, "ready", {nuevo})
              /\ estado' = [estado EXCEPT ![nuevo] = "READY"]
              /\ conContexto' = conContexto \cup {nuevo}
              /\ UNCHANGED <<sistema, mutexes, esperan, destruidas, io, perdidos, adentro>>

\* THREAD_JOIN on a live thread, h itself included.
ThreadJoin(h, g) ==
  /\ Corre(h)
  /\ Existe(g) /\ estado[g] # "EXIT" /\ g \notin destruidas
  /\ Bloquear(h)
  /\ esperan' = [esperan EXCEPT ![g] = @ \cup {h}]
  /\ UNCHANGED <<sistema, mutexes, destruidas, io, conContexto, perdidos, adentro>>

\* THREAD_JOIN on a thread that ended and was readied again writes to the list
\* that finalizar_hilo destroyed: the kernel falls or the entry is lost.
ThreadJoinDestruida(h, g) ==
  /\ Corre(h)
  /\ estado[g] # "EXIT" /\ g \in destruidas
  /\ \/ Caer
     \/ /\ Bloquear(h)
        /\ perdidos' = perdidos \cup {h}
        /\ UNCHANGED <<sistema, mutexes, esperan, destruidas, io, conContexto, adentro>>

\* A tid of no thread: thread_join reads through the NULL; thread_cancel gets
\* past the search's uninitialized pointer or not, and then does nothing.
TidInexistente(h, g) == Corre(h) /\ ~Existe(g) /\ Caer

\* thread_cancel ends another thread wherever it is, but takes it out of no
\* mutex or join list, and its IO goes on.  (One already in EXIT: nothing.)
ThreadCancel(h, g) ==
  /\ Corre(h) /\ h # g
  /\ Existe(g) /\ estado[g] # "EXIT"
  /\ IF g \in conContexto
     THEN Finalizar(g) /\ UNCHANGED <<sistema, mutexes, io, perdidos>>
     ELSE CaerMemoria

\* A thread that cancels itself is told to go on, without a context: memoria
\* ends at the next instruction the CPU asks for.
ThreadCancelPropio(h) ==
  /\ Corre(h)
  /\ Finalizar(h)
  /\ sistema' = "memoria"
  /\ UNCHANGED <<mutexes, io, perdidos>>

ThreadExit(h) ==
  /\ Corre(h)
  /\ Finalizar(h)
  /\ UNCHANGED <<sistema, mutexes, io, perdidos>>

\* process_exit_sys: only the main thread's.  Each thread of lista_tid goes to
\* lista_exit_thread; nobody is readied and no IO is stopped.
ProcessExit ==
  /\ Corre(0)
  /\ en' = [l \in ListasDeHilos |-> [h \in Tids |->
              IF ~Existe(h) THEN 0
              ELSE en[l][h] - (IF ListaDe(h) = l THEN 1 ELSE 0)
                            + (IF l = "exit" THEN 1 ELSE 0)]]
  /\ estado' = [h \in Tids |-> IF Existe(h) THEN "EXIT" ELSE "NADA"]
  /\ conContexto' = {}
  /\ adentro' = [m \in Mutexes |-> {}]
  /\ UNCHANGED <<sistema, mutexes, esperan, destruidas, io, perdidos>>

Io(h) ==
  /\ Corre(h)
  /\ Bloquear(h)
  /\ io' = io \cup {h}
  /\ UNCHANGED <<sistema, mutexes, esperan, destruidas, conContexto, perdidos, adentro>>

\* syscall_io readies its thread wherever it finds it, EXIT included.
IoTermina(h) ==
  /\ sistema = "vivo" /\ h \in io
  /\ en' = ConHilos(SinHilo(en, h), "ready", {h})
  /\ estado' = [estado EXCEPT ![h] = "READY"]
  /\ io' = io \ {h}
  /\ UNCHANGED <<sistema, mutexes, esperan, destruidas, conContexto, perdidos, adentro>>

\* The end of an IO searches while a handler or an eviction may be searching
\* too, through the same globals.  mutex_syscall_io keeps two ends of IO apart.
BusquedasCruzadas ==
  /\ io # {} /\ \E h \in Tids : Corre(h)
  /\ sistema' = "cruzado"
  /\ UNCHANGED <<en, estado, mutexes, esperan, destruidas, io, conContexto, perdidos, adentro>>

-----------------------------------------------------------------------------
PasoMutex(h, m) ==
  \/ MutexCreate(h, m)
  \/ MutexLockLibre(h, m) \/ MutexLockOcupado(h, m) \/ MutexLockInexistente(h, m)
  \/ MutexUnlockEntrega(h, m) \/ MutexUnlockLibera(h, m) \/ MutexUnlockInexistente(h, m)

PasoEntreHilos(h, g) ==
  ThreadJoin(h, g) \/ ThreadJoinDestruida(h, g) \/ TidInexistente(h, g) \/ ThreadCancel(h, g)

PasoHilo(h) ==
  \/ Despachar(h) \/ Desalojar(h)
  \/ ThreadCreate(h) \/ ThreadCancelPropio(h) \/ ThreadExit(h)
  \/ Io(h) \/ IoTermina(h)

Next ==
  \/ \E h \in Tids : PasoHilo(h)
  \/ \E h \in Tids, m \in Mutexes : PasoMutex(h, m)
  \/ \E h, g \in Tids : PasoEntreHilos(h, g)
  \/ ProcessExit \/ BusquedasCruzadas

Spec == Init /\ [][Next]_vars

-----------------------------------------------------------------------------
(* Properties *)

TypeOK ==
  /\ sistema \in {"vivo", "caido", "memoria", "cruzado"}
  /\ en \in [ListasDeHilos -> [Tids -> Nat]]
  /\ estado \in [Tids -> {"NADA", "READY", "EXEC", "BLOCKED", "EXIT"}]
  /\ mutexes \in [Mutexes -> [existe : BOOLEAN, libre : BOOLEAN, thread : Tids,
                              bloqueados : Seq(Tids)]]
  /\ esperan \in [Tids -> SUBSET Tids]
  /\ destruidas \subseteq Tids /\ io \subseteq Tids /\ conContexto \subseteq Tids
  /\ perdidos \subseteq Tids
  /\ adentro \in [Mutexes -> SUBSET Tids]

\* A user mutex is held by one thread at a time, whatever interleaving of
\* locks, hand-overs by mutex_unlock, evictions, cancels and exits got there.
MutexExclusivo ==
  \A m \in Mutexes :
    /\ Cardinality(adentro[m]) <= 1
    /\ adentro[m] # {} => ~mutexes[m].libre /\ mutexes[m].thread \in adentro[m]

EnSuLista ==
  \A h \in Tids :
    /\ en["ready"][h] = (IF estado[h] = "READY" THEN 1 ELSE 0)
    /\ en["exec"][h] = (IF estado[h] = "EXEC" THEN 1 ELSE 0)
    /\ estado[h] = "BLOCKED" => en["blocked"][h] > 0
    /\ estado[h] = "EXIT" => en["exit"][h] > 0

\* The entries buscar_y_remover_tcb_por_tid does not remove (a thread readied
\* by mutex_unlock or by liberar_hilos_bloqueados stays in
\* lista_blocked_thread, or in lista_exit_thread) do not make it take a thread
\* out of the wrong list while no other search overlaps it: the state of a tcb
\* names a list it is in, and no thread is in READY and EXEC more often than
\* its state says.
ListaSegunEstado == sistema # "cruzado" => EnSuLista

EsperaPor(h) ==
  {<<"io", g>> : g \in io \cap {h}}
    \cup {<<"mutex", m>> : m \in {n \in Mutexes : EnLista(mutexes[n].bloqueados, h)}}
    \cup {<<"join", g>> : g \in {k \in Tids : estado[k] # "EXIT" /\ h \in esperan[k]}}

\* The owner of m still believes it has m, or has ended.
ConDuenio(m) ==
  /\ ~mutexes[m].libre
  /\ mutexes[m].thread \in adentro[m] \/ mutexes[m].thread \notin conContexto

\* A blocked thread waits for exactly one thing, and that has not happened yet:
\* its IO has not ended, the thread it joined has not ended, or the mutex has
\* an owner.  It does not follow that it will happen: nobody unlocks the mutex
\* of an owner that has ended, or of the blocked thread itself.  Left out is
\* who joined a thread whose list had been destroyed (perdidos).
TodoBloqueadoEsperaAlgo ==
  \A h \in Tids :
    estado[h] = "BLOCKED" /\ h \notin perdidos =>
      /\ Cardinality(EsperaPor(h)) = 1
      /\ \A m \in Mutexes : EnLista(mutexes[m].bloqueados, h) => ConDuenio(m)
=============================================================================
