------------------------------- MODULE Despacho -------------------------------
(***************************************************************************)
(* Short-term scheduling of the kernel and the conversation between the    *)
(* kernel, the CPU and memoria that carries it out.                        *)
(*                                                                         *)
(* Actors (all run concurrently):                                          *)
(*   pcp                        the short-term scheduler thread;           *)
(*   attend_kernel_cpu_dispatch the kernel thread that serves the CPU's    *)
(*                              syscalls, one handler at a time;           *)
(*   attend_kernel_cpu_interrupt the kernel thread of quantum evictions;   *)
(*   _programar_interrupcion_por_quantum, _gestionar_interrupt (CMN);      *)
(*   syscall_io                 one detached kernel thread per IO;         *)
(*   the CPU's main thread and its interrupt thread; memoria.              *)
(*                                                                         *)
(* The four TCP channels between kernel and CPU are FIFO queues.  What a   *)
(* mutex or join decides is left open here (a lock either answers or       *)
(* blocks); module Hilos has the lists behind that choice.                 *)
(*                                                                         *)
(* A search of a TCB is one step, as it is for a search no other overlaps. *)
(* Two that overlap share their globals and may move any TCB: there, and   *)
(* where a timer and pcp wait for each other's mutexes, this module stops  *)
(* following the kernel (BusquedasCruzadas, Abrazo); Cerrojos goes on.     *)
(***************************************************************************)
EXTENDS Naturals, Sequences, FiniteSets, Listas

CONSTANTS
  Hilos,             \* TCBs, named <<pid, tid>>; tid 0 is the main thread
  Prioridades,       \* what the programs may give their threads as priorities
  Algoritmos,        \* values ALGORITMO_PLANIFICACION may be configured to
  Syscalls,          \* what the loaded programs may ask or do wrong
  RtasDump,          \* answers memoria gives to a dump: 1 done, 0 no room
  QuantumHolgado,    \* the quantum outlasts the loading of a context
  MaxPosts,          \* bound: posts outstanding in sem_cpu_disponible
  MaxInterrupciones  \* bound: posts outstanding in sem_enviar_interrupcion

Inicial == <<0, 0>>
Nadie   == <<>>

DeEspera    == {"MUTEX_LOCK", "THREAD_JOIN"}
DeMutex     == {"MUTEX_CREATE", "MUTEX_LOCK", "MUTEX_UNLOCK"}
Errores     == {"ERROR_SEGFAULT", "ERROR_EXC"}
TodasLasOps == DeMutex \cup Errores \cup
               {"THREAD_JOIN", "THREAD_CREATE", "THREAD_EXIT", "PROCESS_CREATE",
                "PROCESS_EXIT", "IO", "DUMP_MEMORY"}

ASSUME ConstantesOK ==
  /\ Hilos \subseteq Nat \X Nat /\ IsFiniteSet(Hilos)
  /\ Inicial \in Hilos
  /\ Prioridades \subseteq [Hilos -> Nat]
  /\ Algoritmos \subseteq {"FIFO", "PRIORIDADES", "CMN"}
  /\ Syscalls \subseteq TodasLasOps
  /\ RtasDump \subseteq {0, 1}
  /\ QuantumHolgado \in BOOLEAN
  /\ MaxPosts \in Nat /\ MaxInterrupciones \in Nat

VARIABLES
  algoritmo,     \* ALGORITMO_PLANIFICACION, fixed by the configuration
  prioridad,     \* tcb->prioridad, what create_tcb will give it; lower is better
  kernel,        \* "vivo", "abortado" by exit(EXIT_FAILURE), "caido" by a NULL,
                 \* "trabado" in a deadlock, "cruzado": two searches overlapped
  listaNew,      \* lista_new: main threads of the processes not admitted yet
  pcbs,          \* pids in lista_ready: admitted, not finished
  ready,         \* lista_ready_thread
  exec,          \* lista_execute_thread
  estado,        \* tcb->estado; "NADA" before create_tcb
  espera,        \* threads held in a user mutex's or a thread's blocked list
  semCpu,        \* sem_cpu_disponible
  pcp,           \* where pcp() is: "espera", "mira", "atiende"
  temporizador,  \* the timers asleep: that of the latest dispatch ("vigente"),
                 \* some of the earlier ones ("viejo")
  semInterr,     \* sem_enviar_interrupcion
  kd,            \* the handler attend_kernel_cpu_dispatch is in the middle of
  io,            \* what the syscall_io thread of each TCB is doing
  dispKC, dispCK,  \* socket_cpu_dispatch, kernel to CPU and back
  intKC, intCK,    \* socket_cpu_interrupt, kernel to CPU and back
  cpuFase,       \* where the CPU's main thread is
  cpuHilo,       \* contexto->proceso_pid, contexto->proceso_tid
  interruptFlag, syscallBloquea, semRetorno,
  procesosMem,   \* memoria's lista_procesos
  hilosMem,      \* the threads memoria has a context for
  altas,         \* CREACION_HILO_KM notices memoria has not served yet
  memoriaViva    \* memoria has not called exit(EXIT_FAILURE)

listasVars == <<listaNew, pcbs, ready, exec, estado, espera>>
planifVars == <<semCpu, pcp, temporizador, semInterr>>
hilosVars  == <<kd, io>>
canalVars  == <<dispKC, dispCK, intKC, intCK>>
cpuVars    == <<cpuFase, cpuHilo, interruptFlag, syscallBloquea, semRetorno>>
memVars    == <<procesosMem, hilosMem, altas, memoriaViva>>
vars == <<algoritmo, prioridad, kernel, listasVars, planifVars, hilosVars, canalVars,
          cpuVars, memVars>>

Fases == {"libre", "contexto", "ejecuta", "retorno", "error"}
Pasos == {"recibe", "finHilo", "saca", "finProceso", "plp", "dump", "avisa", "colgado"}
Estados == {"NADA", "NEW", "READY", "EXEC", "BLOCKED", "EXIT"}

Recibe == [paso |-> "recibe", hilo |-> Inicial, op |-> "IO", i |-> 0]
Fin(v) == [tipo |-> "FIN", rta |-> v]
Quantum(h) == [tipo |-> "QUANTUM", hilo |-> h]
Pedido(h, o) == [op |-> o, hilo |-> h]
Desalojo == [op |-> "DESALOJO_SYSCALL", hilo |-> Inicial]

\* sem_post(&sem_cpu_disponible); the bound delays the poster, pcp drains it.
Postear   == semCpu < MaxPosts /\ semCpu' = semCpu + 1
NoPostear == UNCHANGED semCpu

Creados(p) == {h \in Hilos : h[1] = p /\ estado[h] # "NADA"}
\* create_tcb numbers the threads of a process in the order they are created.
ProximoHilo(p) == <<p, Cardinality(Creados(p))>>
\* asign_pid: pids are given in order.
ProximoProceso == <<Cardinality({h \in Hilos : h[2] = 0 /\ estado[h] # "NADA"}), 0>>

\* crear_proceso_inicial has posted sem_cpu_disponible and memoria admitted
\* the initial process before main starts any other kernel thread.
Init ==
  /\ algoritmo \in Algoritmos /\ prioridad \in Prioridades
  /\ kernel = "vivo"
  /\ listaNew = <<>>
  /\ pcbs = {Inicial[1]}
  /\ ready = <<Inicial>>
  /\ exec = <<>>
  /\ estado = [h \in Hilos |-> IF h = Inicial THEN "READY" ELSE "NADA"]
  /\ espera = {}
  /\ semCpu = 1 /\ pcp = "espera"
  /\ temporizador = {} /\ semInterr = 0
  /\ kd = Recibe
  /\ io = [h \in Hilos |-> "no"]
  /\ dispKC = <<>> /\ dispCK = <<>> /\ intKC = <<>> /\ intCK = <<>>
  /\ cpuFase = "libre" /\ cpuHilo = Inicial
  /\ interruptFlag = FALSE /\ syscallBloquea = FALSE /\ semRetorno = 0
  /\ procesosMem = {Inicial[1]} /\ hilosMem = {Inicial}
  /\ altas = {} /\ memoriaViva = TRUE

-----------------------------------------------------------------------------
(* pcp: the short-term scheduler *)

\* Mutant: pcp does not wait for a post.
PcpNoEspera ==
  /\ kernel = "vivo" /\ pcp = "espera"
  /\ semCpu' = semCpu - 1
  /\ pcp' = "mira"
  /\ UNCHANGED <<algoritmo, prioridad, kernel, listasVars, temporizador, semInterr,
                 hilosVars, canalVars, cpuVars, memVars>>

\* sem_wait(&sem_cpu_disponible).
PcpDespierta ==
  /\ kernel = "vivo" /\ pcp = "espera" /\ semCpu > 0
  /\ semCpu' = semCpu - 1
  /\ pcp' = "mira"
  /\ UNCHANGED <<algoritmo, prioridad, kernel, listasVars, temporizador, semInterr,
                 hilosVars, canalVars, cpuVars, memVars>>

\* pcp looks at lista_ready_thread in a lock section of its own; with nothing
\* ready the post it consumed is spent.
PcpMira ==
  /\ kernel = "vivo" /\ pcp = "mira"
  /\ pcp' = IF ready = <<>> THEN "espera" ELSE "atiende"
  /\ UNCHANGED <<algoritmo, prioridad, kernel, listasVars, semCpu, temporizador, semInterr,
                 hilosVars, canalVars, cpuVars, memVars>>

\* Mutant: list_get where the code has list_remove.
DespacharSinSacar(h, r) ==
  /\ exec' = Append(exec, h)
  /\ estado' = [estado EXCEPT ![h] = "EXEC"]
  /\ dispKC' = Append(dispKC, h)
  /\ UNCHANGED ready

\* Take h to EXEC, leaving r in READY, and send it to the CPU.
Despachar(h, r) ==
  /\ ready' = r
  /\ exec' = Append(exec, h)
  /\ estado' = [estado EXCEPT ![h] = "EXEC"]
  /\ dispKC' = Append(dispKC, h)

NoDespachar == UNCHANGED <<ready, exec, estado, dispKC>>

\* Mutant: lista_execute_thread is not looked at.
AtenderFIFOSinMirarExec ==
  /\ kernel = "vivo" /\ pcp = "atiende" /\ algoritmo = "FIFO"
  /\ pcp' = "espera"
  /\ IF ready # <<>> THEN Despachar(ready[1], SinIndice(ready, 1)) ELSE NoDespachar
  /\ UNCHANGED <<algoritmo, prioridad, kernel, listaNew, pcbs, espera, semCpu, temporizador,
                 semInterr, hilosVars, dispCK, intKC, intCK, cpuVars, memVars>>

AtenderFIFO ==
  /\ kernel = "vivo" /\ pcp = "atiende" /\ algoritmo = "FIFO"
  /\ pcp' = "espera"
  /\ IF exec = <<>> /\ ready # <<>>
     THEN Despachar(ready[1], SinIndice(ready, 1))
     ELSE NoDespachar
  /\ UNCHANGED <<algoritmo, prioridad, kernel, listaNew, pcbs, espera, semCpu, temporizador,
                 semInterr, hilosVars, dispCK, intKC, intCK, cpuVars, memVars>>

\* The timers there are when a new one starts: the tickets they hold are old.
Envejecidos == IF temporizador = {} THEN {} ELSE {"viejo"}

\* _atender_RR sorts lista_ready_thread by priority, dispatches its head and
\* starts a timer with a new ticket, which makes the earlier timers stale.
AtenderRR ==
  /\ kernel = "vivo" /\ pcp = "atiende" /\ algoritmo = "CMN"
  /\ pcp' = "espera"
  /\ IF exec = <<>> /\ ready # <<>>
     THEN \E p \in OrdenesEstables(ready, prioridad) :
            LET ordenada == EnOrden(ready, p)
            IN  /\ Despachar(ordenada[1], SinIndice(ordenada, 1))
                /\ temporizador' = {"vigente"} \cup Envejecidos
     ELSE NoDespachar /\ UNCHANGED temporizador
  /\ UNCHANGED <<algoritmo, prioridad, kernel, listaNew, pcbs, espera, semCpu,
                 semInterr, hilosVars, dispCK, intKC, intCK, cpuVars, memVars>>

\* Mutant: __maxima_prioridad with <, the last one of the best priority.
EsUltimoMaximo(k) ==
  \A j \in 1..Len(ready) :
    \/ prioridad[ready[k]] < prioridad[ready[j]]
    \/ prioridad[ready[k]] = prioridad[ready[j]] /\ k >= j

\* list_get_maximum with __maxima_prioridad: the first one of the best priority.
EsMaximo(k) ==
  \A j \in 1..Len(ready) :
    \/ prioridad[ready[k]] < prioridad[ready[j]]
    \/ prioridad[ready[k]] = prioridad[ready[j]] /\ k <= j

\* _atender_PRIORIDADES takes lista_ready_thread first.  A list emptied since
\* pcp looked gives a NULL that the log line reads; a busy CPU ends the kernel.
AtenderPRIORIDADES ==
  /\ kernel = "vivo" /\ pcp = "atiende" /\ algoritmo = "PRIORIDADES"
  /\ pcp' = "espera"
  /\ \/ /\ ready = <<>>
        /\ kernel' = "caido"
        /\ NoDespachar
     \/ /\ ready # <<>> /\ exec # <<>>
        /\ kernel' = "abortado"
        /\ NoDespachar
     \/ /\ exec = <<>>
        /\ \E k \in 1..Len(ready) :
             EsMaximo(k) /\ Despachar(ready[k], SinIndice(ready, k))
        /\ UNCHANGED kernel
  /\ UNCHANGED <<algoritmo, prioridad, listaNew, pcbs, espera, semCpu, temporizador,
                 semInterr, hilosVars, dispCK, intKC, intCK, cpuVars, memVars>>

-----------------------------------------------------------------------------
(* Quantum: the timer, _gestionar_interrupt and the eviction's answer *)

\* The timer of the latest dispatch asks for an interrupt if something runs.
TemporizadorVence ==
  /\ kernel = "vivo" /\ "vigente" \in temporizador
  /\ semInterr < MaxInterrupciones
  /\ QuantumHolgado => dispKC = <<>> /\ cpuFase # "contexto"
  /\ temporizador' = temporizador \ {"vigente"}
  /\ semInterr' = IF exec # <<>> THEN semInterr + 1 ELSE semInterr
  /\ UNCHANGED <<algoritmo, prioridad, kernel, listasVars, semCpu, pcp, hilosVars, canalVars,
                 cpuVars, memVars>>

\* A timer with a stale ticket does nothing; with this one they are all awake.
TemporizadorViejoVence ==
  /\ kernel = "vivo" /\ "viejo" \in temporizador
  /\ temporizador' = temporizador \ {"viejo"}
  /\ UNCHANGED <<algoritmo, prioridad, kernel, listasVars, semCpu, pcp, semInterr, hilosVars,
                 canalVars, cpuVars, memVars>>

\* A timer, stale or not, takes mutex_ticket and then mutex_lista_exec_thread;
\* _atender_RR holds the second when generar_ticket asks for the first.  One that
\* wakes meanwhile stops pcp for good, and every thread that searches a TCB.
Abrazo ==
  /\ kernel = "vivo" /\ algoritmo = "CMN"
  /\ pcp = "atiende" /\ exec = <<>> /\ ready # <<>>
  /\ temporizador # {}
  /\ kernel' = "trabado"
  /\ UNCHANGED <<algoritmo, prioridad, listasVars, planifVars, hilosVars, canalVars, cpuVars,
                 memVars>>

\* The interrupt goes to whatever is at the head of EXEC by now.
GestionarInterrupt ==
  /\ kernel = "vivo" /\ semInterr > 0
  /\ semInterr' = semInterr - 1
  /\ intKC' = IF exec # <<>> THEN Append(intKC, Quantum(exec[1])) ELSE intKC
  /\ UNCHANGED <<algoritmo, prioridad, kernel, listasVars, semCpu, pcp, temporizador,
                 hilosVars, dispKC, dispCK, intCK, cpuVars, memVars>>

\* Mutant: the evicted thread goes to the head of lista_ready_thread.
DesalojoAlFrente ==
  /\ kernel = "vivo" /\ algoritmo = "CMN" /\ intCK # <<>>
  /\ LET h == Head(intCK)
     IN  /\ exec' = Quitar(exec, h)
         /\ ready' = <<h>> \o Quitar(ready, h)
         /\ estado' = [estado EXCEPT ![h] = "READY"]
  /\ intCK' = Tail(intCK)
  /\ Postear
  /\ UNCHANGED <<algoritmo, prioridad, kernel, listaNew, pcbs, espera, pcp, temporizador,
                 semInterr, hilosVars, dispKC, dispCK, intKC, cpuVars, memVars>>

\* attend_kernel_cpu_interrupt, DESALOJO_QUAMTUN_CK; main starts it under CMN.
AtenderDesalojoQuantum ==
  /\ kernel = "vivo" /\ algoritmo = "CMN" /\ intCK # <<>>
  /\ LET h == Head(intCK)
     IN  /\ exec' = Quitar(exec, h)
         /\ ready' = Append(Quitar(ready, h), h)
         /\ estado' = [estado EXCEPT ![h] = "READY"]
  /\ intCK' = Tail(intCK)
  /\ Postear
  /\ UNCHANGED <<algoritmo, prioridad, kernel, listaNew, pcbs, espera, pcp, temporizador,
                 semInterr, hilosVars, dispKC, dispCK, intKC, cpuVars, memVars>>

-----------------------------------------------------------------------------
(* attend_kernel_cpu_dispatch: the handlers of the CPU's messages *)

\* The handler of a message m starts: the thread is free and m is next.
Atiende(m) ==
  /\ kernel = "vivo" /\ kd.paso = "recibe"
  /\ dispCK # <<>> /\ m = Head(dispCK)
  /\ dispCK' = Tail(dispCK)

\* Mutants: every answer lets the thread go on; the answer is sent twice.
RespondeQueSiga(v)   == intKC' = Append(intKC, Fin(1))
RespondeDosVeces(v)  == intKC' = Append(Append(intKC, Fin(v)), Fin(v))

\* aviso_finalizacion_syscall(v).
Responde(v) == intKC' = Append(intKC, Fin(v))

Sigue(paso, m) == kd' = [paso |-> paso, hilo |-> m.hilo, op |-> m.op, i |-> 0]

\* find_mutex and crear_hilo read the pcb they look for in lista_ready; for a
\* finished process it is NULL (process_exit_sys looks in lista_exit too).
SinPcb(m) == m.hilo[1] \notin pcbs

\* Mutant: the handler of DESALOJO_SYSCALL without its sem_post.
DesalojoSinPost ==
  /\ Atiende(Desalojo)
  /\ UNCHANGED <<algoritmo, prioridad, kernel, listasVars, planifVars, hilosVars, dispKC, intKC,
                 intCK, cpuVars, memVars>>

AtenderDesalojoSyscall ==
  /\ Atiende(Desalojo)
  /\ Postear
  /\ UNCHANGED <<algoritmo, prioridad, kernel, listasVars, pcp, temporizador, semInterr,
                 hilosVars, dispKC, intKC, intCK, cpuVars, memVars>>

\* MUTEX_CREATE, a free MUTEX_LOCK, a THREAD_JOIN on a finished thread, a
\* MUTEX_UNLOCK nobody waits for and a PROCESS_EXIT of another thread than the
\* main one answer 1 and change no list of threads.
AtenderYSeguir(m) ==
  /\ Atiende(m)
  /\ m.op \in DeMutex \cup {"THREAD_JOIN", "PROCESS_EXIT"}
  /\ m.op \in DeMutex => ~SinPcb(m)
  /\ m.op = "PROCESS_EXIT" => m.hilo[2] # 0
  /\ Responde(1)
  /\ UNCHANGED <<algoritmo, prioridad, kernel, listasVars, planifVars, hilosVars, dispKC,
                 intCK, cpuVars, memVars>>

\* The kernel reads a NULL: there is no pcb, no mutex of that name to unlock, or
\* no thread of that tid to join.
AtenderYCaer(m) ==
  /\ Atiende(m)
  /\ \/ m.op \in {"MUTEX_UNLOCK", "THREAD_JOIN"}
     \/ m.op \in DeMutex \cup {"THREAD_CREATE"} /\ SinPcb(m)
  /\ kernel' = "caido"
  /\ UNCHANGED <<algoritmo, prioridad, listasVars, planifVars, hilosVars, dispKC,
                 intKC, intCK, cpuVars, memVars>>

\* A busy MUTEX_LOCK or a THREAD_JOIN on a live thread: the caller leaves its
\* list, is held by the mutex or the thread, and the CPU is told to leave it.
AtenderYBloquear(m) ==
  /\ Atiende(m)
  /\ m.op \in DeEspera
  /\ m.op \in DeMutex => ~SinPcb(m)
  /\ ready' = Quitar(ready, m.hilo)
  /\ exec' = Quitar(exec, m.hilo)
  /\ estado' = [estado EXCEPT ![m.hilo] = "BLOCKED"]
  /\ espera' = espera \cup {m.hilo}
  /\ Responde(0)
  /\ UNCHANGED <<algoritmo, prioridad, kernel, listaNew, pcbs, planifVars, hilosVars, dispKC,
                 intCK, cpuVars, memVars>>

\* mutex_unlock hands the mutex to the first thread held and readies it.
AtenderYDespertar(m) ==
  /\ Atiende(m)
  /\ m.op = "MUTEX_UNLOCK" /\ ~SinPcb(m)
  /\ \E h \in espera :
       /\ h[1] = m.hilo[1] /\ h # m.hilo
       /\ ready' = Append(ready, h)
       /\ estado' = [estado EXCEPT ![h] = "READY"]
       /\ espera' = espera \ {h}
  /\ Responde(1)
  /\ UNCHANGED <<algoritmo, prioridad, kernel, listaNew, pcbs, exec, planifVars, hilosVars,
                 dispKC, intCK, cpuVars, memVars>>

\* agregar_tcb_lista receives its mutex by value and locks the copy.  The copy
\* of a mutex that another thread holds is never unlocked; the copy of a free
\* one excludes nobody.  Threads that lock mutex_lista_ready_thread in their
\* next step, so that the copy may be taken, or the list used, meanwhile:
OtroUsaReady ==
  pcp \in {"mira", "atiende"} \/ intCK # <<>> \/ \E h \in Hilos : io[h] = "duerme"

\* mutex_unlock when that happens: the dispatch thread stays in the lock for
\* ever, or the list loses the thread handed the mutex.
AtenderYDespertarMal(m) ==
  /\ Atiende(m)
  /\ m.op = "MUTEX_UNLOCK" /\ ~SinPcb(m)
  /\ OtroUsaReady
  /\ \E h \in espera :
       /\ h[1] = m.hilo[1] /\ h # m.hilo
       /\ espera' = espera \ {h}
       /\ \/ Sigue("colgado", m) /\ UNCHANGED <<estado, intKC>>
          \/ estado' = [estado EXCEPT ![h] = "READY"] /\ Responde(1) /\ UNCHANGED kd
  /\ UNCHANGED <<algoritmo, prioridad, kernel, listaNew, pcbs, ready, exec, planifVars, io,
                 dispKC, intCK, cpuVars, memVars>>

\* thread_create, crear_hilo: memoria is only notified; the list_get at index
\* tid - 1 of lista_ready_thread gives NULL when the list is that short.
AtenderThreadCreate(m) ==
  /\ Atiende(m)
  /\ m.op = "THREAD_CREATE" /\ ~SinPcb(m)
  /\ LET h == ProximoHilo(m.hilo[1])
     IN  /\ h \in Hilos
         /\ altas' = altas \cup {h}
         /\ ready' = Append(ready, h)
         /\ IF h[2] <= Len(ready')
            THEN /\ estado' = [estado EXCEPT ![h] = "READY"]
                 /\ Responde(1)
                 /\ UNCHANGED kernel
            ELSE /\ kernel' = "caido"
                 /\ estado' = [estado EXCEPT ![h] = "NEW"]
                 /\ UNCHANGED intKC
  /\ UNCHANGED <<algoritmo, prioridad, listaNew, pcbs, exec, espera, planifVars, hilosVars,
                 dispKC, intCK, cpuVars, procesosMem, hilosMem, memoriaViva>>

\* bloquear_hilo_syscall, the answer, and a detached syscall_io thread.
AtenderIO(m) ==
  /\ Atiende(m)
  /\ m.op = "IO"
  /\ ready' = Quitar(ready, m.hilo)
  /\ exec' = Quitar(exec, m.hilo)
  /\ estado' = [estado EXCEPT ![m.hilo] = "BLOCKED"]
  /\ io' = [io EXCEPT ![m.hilo] = "espera"]
  /\ Responde(0)
  /\ UNCHANGED <<algoritmo, prioridad, kernel, listaNew, pcbs, espera, planifVars, kd, dispKC,
                 intCK, cpuVars, memVars>>

\* As IO, but the dispatch thread itself waits for memoria's answer.
AtenderDump(m) ==
  /\ Atiende(m)
  /\ m.op = "DUMP_MEMORY"
  /\ ready' = Quitar(ready, m.hilo)
  /\ exec' = Quitar(exec, m.hilo)
  /\ estado' = [estado EXCEPT ![m.hilo] = "BLOCKED"]
  /\ Responde(0)
  /\ Sigue("dump", m)
  /\ UNCHANGED <<algoritmo, prioridad, kernel, listaNew, pcbs, espera, planifVars, io, dispKC,
                 intCK, cpuVars, memVars>>

\* memoria answers the dump: the thread is unblocked, or its process finished.
DumpRespondido ==
  /\ kernel = "vivo" /\ memoriaViva /\ kd.paso = "dump"
  /\ kd.hilo[1] \in procesosMem
  /\ \/ /\ 1 \in RtasDump
        /\ exec' = Quitar(exec, kd.hilo)
        /\ ready' = Append(Quitar(ready, kd.hilo), kd.hilo)
        /\ estado' = [estado EXCEPT ![kd.hilo] = "READY"]
        /\ kd' = [kd EXCEPT !.paso = "avisa"]
     \/ /\ 0 \in RtasDump
        /\ kd' = [kd EXCEPT !.paso = "saca"]
        /\ UNCHANGED <<exec, ready, estado>>
  /\ UNCHANGED <<algoritmo, prioridad, kernel, listaNew, pcbs, espera, planifVars, io,
                 canalVars, cpuVars, memVars>>

\* Second lock section of desbloquear_hilo_finalizacion_syscall.
DumpAvisa ==
  /\ kernel = "vivo" /\ kd.paso = "avisa"
  /\ IF exec = <<>> THEN Postear ELSE NoPostear
  /\ kd' = Recibe
  /\ UNCHANGED <<algoritmo, prioridad, kernel, listasVars, pcp, temporizador, semInterr, io,
                 canalVars, cpuVars, memVars>>

\* THREAD_EXIT, and MUTEX_LOCK of a mutex nobody created: finalizar_hilo takes
\* the thread out of its list and waits for memoria, which destroys its context.
AtenderThreadExit(m) ==
  /\ Atiende(m)
  /\ m.op \in {"THREAD_EXIT", "MUTEX_LOCK"}
  /\ m.op \in DeMutex => ~SinPcb(m)
  /\ ready' = Quitar(ready, m.hilo)
  /\ exec' = Quitar(exec, m.hilo)
  /\ Sigue("finHilo", m)
  /\ UNCHANGED <<algoritmo, prioridad, kernel, listaNew, pcbs, estado, espera, planifVars, io,
                 dispKC, intKC, intCK, cpuVars, memVars>>

\* ... then readies the threads joined to it and answers the CPU.
HiloFinalizado ==
  /\ kernel = "vivo" /\ memoriaViva /\ kd.paso = "finHilo"
  /\ kd.hilo \in hilosMem
  /\ hilosMem' = hilosMem \ {kd.hilo}
  /\ \E W \in SUBSET {h \in espera : h[1] = kd.hilo[1] /\ h # kd.hilo} :
     \E orden \in [1..Cardinality(W) -> W] :
       /\ \A h \in W : \E i \in DOMAIN orden : orden[i] = h
       /\ ready' = ready \o orden
       /\ espera' = espera \ W
       /\ estado' = [h \in Hilos |-> IF h = kd.hilo THEN "EXIT"
                                     ELSE IF h \in W THEN "READY" ELSE estado[h]]
  /\ kd' = Recibe
  /\ Responde(0)
  /\ UNCHANGED <<algoritmo, prioridad, kernel, listaNew, pcbs, exec, planifVars, io, dispKC,
                 dispCK, intCK, cpuVars, procesosMem, altas, memoriaViva>>

\* ... or stays for ever in the copy of mutex_lista_exit_thread: the end of an
\* IO searches lista_exit_thread before it reaches lista_blocked_thread.
HiloColgado ==
  /\ kernel = "vivo" /\ memoriaViva /\ kd.paso = "finHilo"
  /\ kd.hilo \in hilosMem
  /\ \E h \in Hilos : io[h] = "duerme"
  /\ hilosMem' = hilosMem \ {kd.hilo}
  /\ kd' = [kd EXCEPT !.paso = "colgado"]
  /\ UNCHANGED <<algoritmo, prioridad, kernel, listasVars, planifVars, io, canalVars, cpuVars,
                 procesosMem, altas, memoriaViva>>

\* PROCESS_EXIT of a main thread, and the two errors: process_exit_sys.
AtenderFinDeProceso(m) ==
  /\ Atiende(m)
  /\ m.op \in {"PROCESS_EXIT"} \cup Errores
  /\ m.op = "PROCESS_EXIT" => m.hilo[2] = 0
  /\ Sigue("saca", m)
  /\ UNCHANGED <<algoritmo, prioridad, kernel, listasVars, planifVars, io, dispKC, intKC, intCK,
                 cpuVars, memVars>>

\* One turn of the loop of process_exit_sys over lista_tid: the i-th thread
\* goes from whatever list it is in to lista_exit_thread.
SacarHilo ==
  /\ kernel = "vivo" /\ kd.paso = "saca"
  /\ LET h == <<kd.hilo[1], kd.i>>
     IN  IF h \in Creados(kd.hilo[1])
         THEN /\ ready' = Quitar(ready, h)
              /\ exec' = Quitar(exec, h)
              /\ estado' = [estado EXCEPT ![h] = "EXIT"]
              /\ espera' = espera \ {h}
              /\ kd' = [kd EXCEPT !.i = @ + 1]
         ELSE /\ kd' = [kd EXCEPT !.paso = "finProceso", !.i = 0]
              /\ UNCHANGED <<ready, exec, estado, espera>>
  /\ UNCHANGED <<algoritmo, prioridad, kernel, listaNew, pcbs, planifVars, io, canalVars, cpuVars,
                 memVars>>

\* finalizar_proceso: memoria frees the process, then plp runs.
ProcesoFinalizado ==
  /\ kernel = "vivo" /\ memoriaViva /\ kd.paso = "finProceso"
  /\ kd.hilo[1] \in procesosMem
  /\ pcbs' = pcbs \ {kd.hilo[1]}
  /\ procesosMem' = procesosMem \ {kd.hilo[1]}
  /\ hilosMem' = {h \in hilosMem : h[1] # kd.hilo[1]}
  /\ kd' = [kd EXCEPT !.paso = "plp"]
  /\ UNCHANGED <<algoritmo, prioridad, kernel, listaNew, ready, exec, estado, espera, planifVars,
                 io, canalVars, cpuVars, altas, memoriaViva>>

\* PROCESS_CREATE: create_pcb, lista_new, plp.
AtenderProcessCreate(m) ==
  /\ Atiende(m)
  /\ m.op = "PROCESS_CREATE"
  /\ ProximoProceso \in Hilos
  /\ listaNew' = Append(listaNew, ProximoProceso)
  /\ estado' = [estado EXCEPT ![ProximoProceso] = "NEW"]
  /\ Sigue("plp", m)
  /\ UNCHANGED <<algoritmo, prioridad, kernel, pcbs, ready, exec, espera, planifVars, io, dispKC,
                 intKC, intCK, cpuVars, memVars>>

\* What is left of the handler of kd.op once plp returns.
TerminaHandler ==
  /\ kd' = Recibe
  /\ intKC' = IF kd.op = "PROCESS_CREATE" THEN Append(intKC, Fin(1))
              ELSE IF kd.op = "PROCESS_EXIT" THEN Append(intKC, Fin(0)) ELSE intKC
  /\ IF kd.op = "ERROR_SEGFAULT" THEN Postear ELSE NoPostear

\* One turn of plp's loop: memoria admits the process at the head of lista_new.
PlpAdmite ==
  /\ kernel = "vivo" /\ memoriaViva /\ kd.paso = "plp" /\ listaNew # <<>>
  /\ LET h == Head(listaNew)
     IN  /\ ready' = Append(ready, h)
         /\ estado' = [estado EXCEPT ![h] = "READY"]
         /\ pcbs' = pcbs \cup {h[1]}
         /\ procesosMem' = procesosMem \cup {h[1]}
         /\ hilosMem' = hilosMem \cup {h}
  /\ listaNew' = Tail(listaNew)
  /\ IF Tail(listaNew) = <<>> THEN TerminaHandler ELSE UNCHANGED <<kd, intKC, semCpu>>
  /\ UNCHANGED <<algoritmo, prioridad, kernel, exec, espera, pcp, temporizador, semInterr, io,
                 dispKC, dispCK, intCK, cpuVars, altas, memoriaViva>>

\* plp stops: nothing is waiting, or memoria has no room for the first one.
PlpTermina ==
  /\ kernel = "vivo" /\ kd.paso = "plp"
  /\ listaNew # <<>> => memoriaViva
  /\ TerminaHandler
  /\ UNCHANGED <<algoritmo, prioridad, kernel, listasVars, pcp, temporizador, semInterr, io,
                 dispKC, dispCK, intCK, cpuVars, memVars>>

AtenderMensaje(m) ==
  \/ AtenderYSeguir(m) \/ AtenderYCaer(m) \/ AtenderYBloquear(m)
  \/ AtenderYDespertar(m) \/ AtenderYDespertarMal(m) \/ AtenderThreadCreate(m) \/ AtenderIO(m)
  \/ AtenderDump(m) \/ AtenderThreadExit(m) \/ AtenderFinDeProceso(m)
  \/ AtenderProcessCreate(m)

Mensajes == [op : TodasLasOps, hilo : Hilos]

PasoDispatch ==
  \/ AtenderDesalojoSyscall
  \/ \E m \in Mensajes : AtenderMensaje(m)
  \/ DumpRespondido \/ DumpAvisa \/ HiloFinalizado \/ HiloColgado \/ SacarHilo
  \/ ProcesoFinalizado \/ PlpAdmite \/ PlpTermina

-----------------------------------------------------------------------------
(* syscall_io, one detached thread per request, under mutex_syscall_io *)

IoToma(h) ==
  /\ kernel = "vivo" /\ io[h] = "espera"
  /\ \A g \in Hilos : io[g] \notin {"duerme", "avisa"}
  /\ io' = [io EXCEPT ![h] = "duerme"]
  /\ UNCHANGED <<algoritmo, prioridad, kernel, listasVars, planifVars, kd, canalVars, cpuVars,
                 memVars>>

\* desbloquear_hilo_finalizacion_syscall takes the thread from whatever list it
\* is in, lista_exit_thread included, to READY ...
IoTermina(h) ==
  /\ kernel = "vivo" /\ io[h] = "duerme"
  /\ exec' = Quitar(exec, h)
  /\ ready' = Append(Quitar(ready, h), h)
  /\ estado' = [estado EXCEPT ![h] = "READY"]
  /\ io' = [io EXCEPT ![h] = "avisa"]
  /\ UNCHANGED <<algoritmo, prioridad, kernel, listaNew, pcbs, espera, planifVars, kd, canalVars,
                 cpuVars, memVars>>

\* ... and, in another lock section, posts if nothing runs.
IoAvisa(h) ==
  /\ kernel = "vivo" /\ io[h] = "avisa"
  /\ IF exec = <<>> THEN Postear ELSE NoPostear
  /\ io' = [io EXCEPT ![h] = "no"]
  /\ UNCHANGED <<algoritmo, prioridad, kernel, listasVars, pcp, temporizador, semInterr, kd,
                 canalVars, cpuVars, memVars>>

-----------------------------------------------------------------------------
(* Searches of a TCB that overlap *)

\* The messages whose handler starts with a search.
ConBusqueda == {"MUTEX_LOCK", "MUTEX_UNLOCK", "THREAD_JOIN", "THREAD_EXIT", "IO", "DUMP_MEMORY"}

BuscaDispatch ==
  \/ kd.paso = "recibe" /\ dispCK # <<>> /\ Head(dispCK).op \in ConBusqueda
  \/ kd.paso = "dump" /\ memoriaViva /\ kd.hilo[1] \in procesosMem
  \/ kd.paso = "saca" /\ <<kd.hilo[1], kd.i>> \in Creados(kd.hilo[1])

BuscaInterrupt == algoritmo = "CMN" /\ intCK # <<>>
BuscaIo        == \E h \in Hilos : io[h] = "duerme"

\* buscar_tcb_por_tid and buscar_y_remover_tcb_por_tid leave what they look for
\* in two globals and then go through five lists, each under its own mutex.  One
\* that starts before another has ended changes what that one is looking for:
\* it may find the other's TCB, an entry left behind in lista_blocked_thread, or
\* none.  From there on any thread may be in any list.
BusquedasCruzadas ==
  /\ kernel = "vivo"
  /\ \/ BuscaDispatch /\ (BuscaInterrupt \/ BuscaIo)
     \/ BuscaInterrupt /\ BuscaIo
  /\ kernel' = "cruzado"
  /\ UNCHANGED <<algoritmo, prioridad, listasVars, planifVars, hilosVars, canalVars, cpuVars,
                 memVars>>

-----------------------------------------------------------------------------
(* The CPU's main thread *)

\* atender_proceso_del_kernel, init_contexto: the context is asked to memoria.
CpuRecibe ==
  /\ cpuFase = "libre" /\ dispKC # <<>>
  /\ cpuHilo' = Head(dispKC)
  /\ dispKC' = Tail(dispKC)
  /\ cpuFase' = "contexto"
  /\ UNCHANGED <<algoritmo, prioridad, kernel, listasVars, planifVars, hilosVars, dispCK, intKC,
                 intCK, interruptFlag, syscallBloquea, semRetorno, memVars>>

CpuContexto ==
  /\ cpuFase = "contexto" /\ memoriaViva /\ cpuHilo \in hilosMem
  /\ cpuFase' = "ejecuta"
  /\ UNCHANGED <<algoritmo, prioridad, kernel, listasVars, planifVars, hilosVars, canalVars, cpuHilo,
                 interruptFlag, syscallBloquea, semRetorno, memVars>>

\* manejo_desalojo, the branch of the interrupt, and delete_contexto.
DesalojarPorQuantum ==
  /\ intCK' = Append(intCK, cpuHilo)
  /\ cpuFase' = "libre"
  /\ interruptFlag' = FALSE /\ syscallBloquea' = FALSE

\* An instruction that is no syscall, then check_interrupt.
CpuInstruccion ==
  /\ cpuFase = "ejecuta" /\ memoriaViva /\ cpuHilo \in hilosMem
  /\ interruptFlag
  /\ DesalojarPorQuantum
  /\ UNCHANGED <<algoritmo, prioridad, kernel, listasVars, planifVars, hilosVars, dispKC, dispCK,
                 intKC, cpuHilo, semRetorno, memVars>>

\* The program's bound: no more threads or processes than Hilos has.
Permitida(o) ==
  /\ o \in Syscalls
  /\ o = "THREAD_CREATE" => ProximoHilo(cpuHilo[1]) \in Hilos
  /\ o = "PROCESS_CREATE" => ProximoProceso \in Hilos

\* envios_desalojo: the context goes to memoria, the syscall to the kernel, and
\* the CPU waits for the answer.
CpuSyscall(o) ==
  /\ cpuFase = "ejecuta" /\ memoriaViva /\ cpuHilo \in hilosMem
  /\ o \notin Errores /\ Permitida(o)
  /\ dispCK' = Append(dispCK, Pedido(cpuHilo, o))
  /\ cpuFase' = "retorno"
  /\ UNCHANGED <<algoritmo, prioridad, kernel, listasVars, planifVars, hilosVars, dispKC, intKC,
                 intCK, cpuHilo, interruptFlag, syscallBloquea, semRetorno, memVars>>

\* mmu or detectar_registro fail: desalojar is set.  A pending interrupt wins
\* in manejo_desalojo and hides the error; otherwise envios_desalojo reports it
\* and waits for a sem_retorno_syscalls that the kernel's handlers never post.
CpuError(o) ==
  /\ cpuFase = "ejecuta" /\ memoriaViva /\ cpuHilo \in hilosMem
  /\ o \in Errores /\ Permitida(o)
  /\ IF interruptFlag
     THEN DesalojarPorQuantum /\ UNCHANGED dispCK
     ELSE /\ dispCK' = Append(dispCK, Pedido(cpuHilo, o))
          /\ cpuFase' = "error"
          /\ UNCHANGED <<intCK, interruptFlag, syscallBloquea>>
  /\ UNCHANGED <<algoritmo, prioridad, kernel, listasVars, planifVars, hilosVars, dispKC, intKC,
                 cpuHilo, semRetorno, memVars>>

\* envios_desalojo returns: a blocking answer evicts with DESALOJO_SYSCALL, an
\* interrupt seen by check_interrupt evicts by quantum, else the thread goes on.
CpuRetorna ==
  /\ cpuFase \in {"retorno", "error"} /\ semRetorno > 0
  /\ semRetorno' = semRetorno - 1
  /\ \/ /\ syscallBloquea
        /\ dispCK' = Append(dispCK, Desalojo)
        /\ cpuFase' = "libre"
        /\ interruptFlag' = FALSE /\ syscallBloquea' = FALSE
        /\ UNCHANGED intCK
     \/ /\ ~syscallBloquea /\ interruptFlag
        /\ DesalojarPorQuantum
        /\ UNCHANGED dispCK
     \/ /\ ~syscallBloquea /\ ~interruptFlag
        /\ cpuFase' = "ejecuta"
        /\ UNCHANGED <<dispCK, intCK, interruptFlag, syscallBloquea>>
  /\ UNCHANGED <<algoritmo, prioridad, kernel, listasVars, planifVars, hilosVars, dispKC, intKC,
                 cpuHilo, memVars>>

-----------------------------------------------------------------------------
(* The CPU's interrupt thread *)

\* atender_respuesta_syscall.
CpuRespuesta ==
  /\ intKC # <<>> /\ Head(intKC).tipo = "FIN"
  /\ syscallBloquea' = (Head(intKC).rta = 0)
  /\ semRetorno' = semRetorno + 1
  /\ intKC' = Tail(intKC)
  /\ UNCHANGED <<algoritmo, prioridad, kernel, listasVars, planifVars, hilosVars, dispKC, dispCK,
                 intCK, cpuFase, cpuHilo, interruptFlag, memVars>>

\* interrupt_manager: only for the thread whose context is loaded.  Between two
\* threads contexto is freed memory, whose first bytes no longer name a thread.
CpuInterrupcion ==
  /\ intKC # <<>> /\ Head(intKC).tipo = "QUANTUM"
  /\ interruptFlag' = (interruptFlag \/ (cpuFase # "libre" /\ Head(intKC).hilo = cpuHilo))
  /\ intKC' = Tail(intKC)
  /\ UNCHANGED <<algoritmo, prioridad, kernel, listasVars, planifVars, hilosVars, dispKC, dispCK,
                 intCK, cpuFase, cpuHilo, syscallBloquea, semRetorno, memVars>>

-----------------------------------------------------------------------------
(* memoria *)

\* creacion_hilo, in a thread of its own: nobody waits for it.
MemoriaCreaHilo(h) ==
  /\ memoriaViva /\ h \in altas /\ h[1] \in procesosMem
  /\ altas' = altas \ {h}
  /\ hilosMem' = hilosMem \cup {h}
  /\ UNCHANGED <<algoritmo, prioridad, kernel, listasVars, planifVars, hilosVars, canalVars, cpuVars,
                 procesosMem, memoriaViva>>

\* search_process_for and search_thread_for end memoria when what they are
\* asked for is not there.
MemoriaNoEncuentra ==
  /\ memoriaViva
  /\ \/ cpuFase \in {"contexto", "ejecuta"} /\ cpuHilo \notin hilosMem
     \/ \E h \in altas : h[1] \notin procesosMem
     \/ kernel = "vivo" /\ kd.paso = "finHilo" /\ kd.hilo \notin hilosMem
     \/ kernel = "vivo" /\ kd.paso \in {"finProceso", "dump"} /\ kd.hilo[1] \notin procesosMem
  /\ memoriaViva' = FALSE
  /\ UNCHANGED <<algoritmo, prioridad, kernel, listasVars, planifVars, hilosVars, canalVars, cpuVars,
                 procesosMem, hilosMem, altas>>

-----------------------------------------------------------------------------
PasoPcp == PcpDespierta \/ PcpMira \/ AtenderFIFO \/ AtenderRR \/ AtenderPRIORIDADES
PasoIo(h) == IoToma(h) \/ IoTermina(h) \/ IoAvisa(h)
PasoCpu == CpuRecibe \/ CpuContexto \/ CpuInstruccion \/ CpuRetorna
CpuAvisos == CpuRespuesta \/ CpuInterrupcion

Next ==
  \/ PasoPcp
  \/ TemporizadorVence \/ GestionarInterrupt \/ AtenderDesalojoQuantum
  \/ TemporizadorViejoVence \/ Abrazo \/ BusquedasCruzadas
  \/ PasoDispatch
  \/ \E h \in Hilos : PasoIo(h)
  \/ PasoCpu
  \/ \E o \in Syscalls : CpuSyscall(o) \/ CpuError(o)
  \/ CpuAvisos
  \/ \E h \in Hilos : MemoriaCreaHilo(h)
  \/ MemoriaNoEncuentra

Spec == Init /\ [][Next]_vars

\* Every thread of the kernel, of the CPU and of memoria that can take a step
\* takes one in the end.  Programs may compute for ever without a syscall.
Justicia ==
  /\ WF_vars(PasoPcp)
  /\ WF_vars(TemporizadorVence) /\ WF_vars(GestionarInterrupt)
  /\ WF_vars(AtenderDesalojoQuantum)
  /\ WF_vars(PasoDispatch)
  /\ \A h \in Hilos : WF_vars(IoTermina(h)) /\ WF_vars(IoAvisa(h))
  /\ WF_vars(PasoCpu)
  /\ WF_vars(CpuAvisos)

SpecJusta == Spec /\ Justicia

-----------------------------------------------------------------------------
(* Properties *)

TipoListas ==
  /\ listaNew \in Seq(Hilos) /\ ready \in Seq(Hilos) /\ exec \in Seq(Hilos)
  /\ pcbs \subseteq Nat
  /\ estado \in [Hilos -> Estados]
  /\ espera \subseteq Hilos

TipoKernel ==
  /\ algoritmo \in Algoritmos /\ prioridad \in Prioridades
  /\ kernel \in {"vivo", "abortado", "caido", "trabado", "cruzado"}
  /\ semCpu \in Nat /\ pcp \in {"espera", "mira", "atiende"}
  /\ temporizador \subseteq {"vigente", "viejo"} /\ semInterr \in Nat
  /\ kd \in [paso : Pasos, hilo : Hilos, op : TodasLasOps, i : Nat]
  /\ io \in [Hilos -> {"no", "espera", "duerme", "avisa"}]

Avisos == [tipo : {"FIN"}, rta : {0, 1}] \cup [tipo : {"QUANTUM"}, hilo : Hilos]

TipoCanales ==
  /\ dispKC \in Seq(Hilos) /\ dispCK \in Seq(Mensajes \cup {Desalojo})
  /\ intKC \in Seq(Avisos) /\ intCK \in Seq(Hilos)

TipoCpu ==
  /\ cpuFase \in Fases /\ cpuHilo \in Hilos
  /\ interruptFlag \in BOOLEAN /\ syscallBloquea \in BOOLEAN /\ semRetorno \in Nat

TipoMemoria ==
  /\ procesosMem \subseteq Nat /\ hilosMem \subseteq Hilos /\ altas \subseteq Hilos
  /\ memoriaViva \in BOOLEAN

\* Every variable stays within its type, for every handler's early return and
\* every list operation the scheduler's threads make.
TypeOK == TipoListas /\ TipoKernel /\ TipoCanales /\ TipoCpu /\ TipoMemoria

\* Never two threads in lista_execute_thread, whatever extra posts
\* sem_cpu_disponible received: the check under mutex_lista_exec_thread in
\* _atender_FIFO, _atender_RR and _atender_PRIORIDADES absorbs them.
UnoEnEjecucion == Len(exec) <= 1

\* The thread, or its process, has ended or is being taken apart.
Terminando(h) ==
  \/ estado[h] = "EXIT" \/ h[1] \notin pcbs
  \/ kd.paso \in {"saca", "finProceso"} /\ kd.hilo[1] = h[1]

\* Until two searches overlap, what the CPU has loaded is what the kernel has in
\* EXEC: no handler takes a thread out of EXEC behind the back of the CPU that
\* runs it, but the one that takes apart its process after a spare post let pcp
\* dispatch it.
CpuEjecutaLoDeExec ==
  kernel # "cruzado" /\ cpuFase \in {"contexto", "ejecuta"} =>
    exec = <<cpuHilo>> \/ Terminando(cpuHilo)

\* Until two searches overlap, no thread is twice in READY, nor in READY and
\* EXEC, though four kernel threads move TCBs between the lists.  (A search that
\* another crosses can take a thread that runs out of EXEC and into READY.)
SinDuplicados ==
  kernel # "cruzado" =>
    /\ \A i, j \in 1..Len(ready) : ready[i] = ready[j] => i = j
    /\ \A i \in 1..Len(ready) : ~EnLista(exec, ready[i])

\* Something on its way that will make pcp look at the lists again.
PostEnCamino ==
  \/ semCpu > 0 \/ pcp # "espera"
  \/ intCK # <<>>
  \/ EnLista(dispCK, Desalojo)
  \/ kd.paso \notin {"recibe", "colgado"}
  \/ \E h \in Hilos : io[h] = "avisa"
  \/ EnLista(intKC, Fin(0))
  \/ cpuFase = "retorno" /\ semRetorno > 0 /\ syscallBloquea

\* No lost wakeup: with the CPU unassigned and a thread ready, some post of
\* sem_cpu_disponible is there or coming.  The posts come from five places
\* (DESALOJO_SYSCALL, the quantum eviction, the end of an IO or a dump, the
\* initial process) and pcp throws a post away when it finds EXEC busy or
\* READY empty.  (Unless the CPU waits for an answer for ever, because the
\* dispatch thread hung in a copied mutex or never answers an error, or has a
\* thread of a process taken apart under it by a dump that failed: memoria ends
\* at that thread's next instruction.)
SinDespertarPerdido ==
  /\ kernel = "vivo" /\ memoriaViva /\ kd.paso # "colgado" /\ cpuFase # "error"
  /\ cpuFase = "libre" \/ cpuHilo[1] \in pcbs
  /\ exec = <<>> /\ ready # <<>>
  => PostEnCamino

\* Each syscall gets exactly one FINALIZACION_SYSCALL_KC, and never while the
\* CPU is not waiting for it: a second one would release the next syscall
\* before the kernel has served it.
RespuestaUnica ==
  LET fines == {i \in 1..Len(intKC) : intKC[i].tipo = "FIN"}
  IN  /\ Cardinality(fines) + semRetorno <= 1
      /\ fines # {} \/ semRetorno > 0 => cpuFase = "retorno"

\* A thread leaves READY for EXEC only if no ready thread has a better
\* priority (PRIORIDADES, CMN) and, among equals, none arrived before it;
\* the order must survive the sort of _atender_RR and the appends of the
\* unblocking threads.
DespachaAlMejor ==
  [][\A i, j \in 1..Len(ready) :
       exec = <<>> /\ exec' = <<ready[j]>> /\ i # j =>
         /\ algoritmo # "FIFO" => prioridad[ready[j]] <= prioridad[ready[i]]
         /\ algoritmo = "FIFO" \/ prioridad[ready[j]] = prioridad[ready[i]] => j < i]_vars

\* Under CMN with one priority, round robin lets every ready thread run, unless
\* the kernel stops: in the deadlock of a timer with pcp, or because two searches
\* overlapped and its lists are no longer what they should be.
NadieEspera ==
  \A h \in Hilos : EnLista(ready, h) ~> EnLista(exec, h) \/ kernel \in {"trabado", "cruzado"}

-----------------------------------------------------------------------------
(* What the code says of itself and does not keep *)

\* _atender_PRIORIDADES treats a busy CPU as an error that ends the kernel: it
\* should not happen that pcp is woken while a thread runs.
NoAborta == kernel # "abortado"

\* search_thread_for: the CPU never asks for the context of a thread of a live
\* process that memoria does not know; memoria ends when it does.
HiloEncontrado ==
  [][memoriaViva /\ ~memoriaViva' /\ cpuFase = "contexto" /\ cpuHilo[1] \in procesosMem =>
       cpuHilo \in hilosMem]_vars

\* A program's error evicts its thread from the CPU ("desalojar por error"),
\* which is then free for the next one.
ErrorDesaloja == cpuFase = "error" ~> cpuFase = "libre"
=============================================================================
