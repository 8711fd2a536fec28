------------------------------- MODULE Cerrojos -------------------------------
(***************************************************************************)
(* The threads of the kernel at the granularity of their mutexes.          *)
(*                                                                         *)
(* Despacho makes each handler a few steps and each search of a TCB one.   *)
(* Here a step is one lock section, and a thread that takes a second mutex *)
(* while it holds one stops in between:                                    *)
(*   pcp          FIFO and CMN take mutex_lista_exec_thread, then          *)
(*                mutex_lista_ready_thread, then (generar_ticket)          *)
(*                mutex_ticket; PRIORIDADES takes ready, then exec;        *)
(*   timer        _programar_interrupcion_por_quantum, one per dispatch of *)
(*                CMN: mutex_ticket, then mutex_lista_exec_thread;         *)
(*   gestor       _gestionar_interrupt;                                    *)
(*   dispatch     attend_kernel_cpu_dispatch: IO and THREAD_CREATE;        *)
(*   interrupt    attend_kernel_cpu_interrupt: the quantum evictions;      *)
(*   io           the syscall_io thread that owns mutex_syscall_io.        *)
(* The last three search TCBs with buscar_y_remover_tcb_por_tid, which     *)
(* leaves what it looks for in two globals.  There is one process, so      *)
(* un_pid_buscar_tcb is always its pid and a TCB is named by its tid.      *)
(* Which ready TCB pcp prefers is Despacho's subject: any of them here.    *)
(***************************************************************************)
EXTENDS Naturals, Sequences, Listas

CONSTANTS
  MaxTid,      \* the process creates the threads 0..MaxTid
  Algoritmos,  \* values ALGORITMO_PLANIFICACION may be configured to
  MaxTickets,  \* bound: dispatches with a ticket (FIFO, CMN)
  MaxPosts     \* bound: posts of sem_cpu_disponible that pcp lets pile up (PRIORIDADES)

ASSUME ConstantesOK ==
  /\ MaxTid \in Nat /\ MaxTickets \in Nat /\ MaxPosts \in Nat
  /\ Algoritmos \subseteq {"FIFO", "PRIORIDADES", "CMN"}

Hilos       == 0..MaxTid
Estados     == {"new", "ready", "exec", "exit", "blocked"}
Buscadores  == {"dispatch", "interrupt", "io"}
Actores     == {"pcp", "timer", "gestor"} \cup Buscadores
Mutexes     == Estados \cup {"ticket"}   \* one per list, and mutex_ticket
Ejecuta(t)  == [fase |-> "ejecuta", tid |-> t]
Syscalls    == [op : {"IO", "THREAD_CREATE", "DESALOJO_SYSCALL"}, tid : Hilos]

VARIABLES
  algoritmo,  \* ALGORITMO_PLANIFICACION
  kernel,     \* "vivo", "abortado" by exit(EXIT_FAILURE), "caido" by a NULL
  lista,      \* lista_new_thread, lista_ready_thread, ...
  dueno,      \* who holds each mutex between two steps; "nadie" if free
  proxTid,    \* un_pcb->identificador_TID
  semCpu,     \* sem_cpu_disponible
  pcp,        \* where pcp is
  varTicket,  \* var_ticket
  ticket,     \* tcb->ticket
  timer,      \* where the timer started by the dispatch with ticket k is
  turno,      \* its un_tcb and its ticket_referencia
  semInterr,  \* sem_enviar_interrupcion
  gestor,     \* _gestionar_interrupt has left its sem_wait
  fase,       \* where the handler of each Buscador is
  paso,       \* the list its search is at
  busca,      \* what it handles: the tid it was given and the TCB it found
  tidABuscar, \* un_tid_a_buscar, global
  cruce,      \* two searches have overlapped, for the properties only
  dormidos,   \* threads of syscall_io that wait for mutex_syscall_io
  cpu,        \* the CPU: free, running a thread or waiting for its answer
  dispKC, intKC, dispCK, intCK   \* the channels between the kernel and the CPU

pcpVars   == <<semCpu, pcp>>
ticketVars == <<varTicket, ticket, timer, turno>>
interrVars == <<semInterr, gestor>>
buscaVars == <<fase, paso, busca, tidABuscar, cruce, dormidos>>
cpuVars   == <<cpu, dispKC, intKC, dispCK, intCK>>
vars == <<algoritmo, kernel, lista, dueno, proxTid, pcpVars, ticketVars,
          interrVars, buscaVars, cpuVars>>

Libre(m)      == dueno[m] = "nadie"
Toma(m, a)    == dueno' = [dueno EXCEPT ![m] = a]
Suelta(m)     == dueno' = [dueno EXCEPT ![m] = "nadie"]
PcpEn(f)      == pcp' = f
En(b, f)      == fase' = [fase EXCEPT ![b] = f]
EnReposo      == [op |-> "IO", tid |-> 0, tcb |-> 0]
CpuLibre      == [fase |-> "libre", tid |-> 0]

\* The initial process is admitted and posted before the other threads start.
Init ==
  /\ algoritmo \in Algoritmos
  /\ kernel = "vivo"
  /\ lista = [e \in Estados |-> IF e = "ready" THEN <<0>> ELSE <<>>]
  /\ dueno = [m \in Mutexes |-> "nadie"]
  /\ proxTid = 1
  /\ semCpu = 1 /\ pcp = "espera"
  /\ varTicket = 0 /\ ticket = [t \in Hilos |-> 0]
  /\ timer = [k \in 1..MaxTickets |-> "no"]
  /\ turno = [k \in 1..MaxTickets |-> [tid |-> 0, ref |-> 0]]
  /\ semInterr = 0 /\ gestor = FALSE
  /\ fase = [b \in Buscadores |-> "libre"] /\ paso = [b \in Buscadores |-> 1]
  /\ busca = [b \in Buscadores |-> EnReposo]
  /\ tidABuscar = 0 /\ cruce = FALSE /\ dormidos = {}
  /\ cpu = CpuLibre
  /\ dispKC = <<>> /\ intKC = <<>> /\ dispCK = <<>> /\ intCK = <<>>

-----------------------------------------------------------------------------
(* pcp *)

\* Mutant: pcp does not wait for a post.
PcpNoEspera ==
  /\ pcp = "espera"
  /\ algoritmo = "PRIORIDADES" => semCpu <= MaxPosts
  /\ semCpu' = semCpu - 1
  /\ PcpEn("mira")
  /\ UNCHANGED <<lista, dueno, ticketVars, dispKC, kernel>>

\* sem_wait(&sem_cpu_disponible).
PcpDespierta ==
  /\ pcp = "espera" /\ semCpu > 0
  /\ algoritmo = "PRIORIDADES" => semCpu <= MaxPosts
  /\ semCpu' = semCpu - 1
  /\ PcpEn("mira")
  /\ UNCHANGED <<lista, dueno, ticketVars, dispKC, kernel>>

\* Mutant: mutex_lista_ready_thread is not unlocked after the look.
PcpMiraSinSoltar ==
  /\ pcp = "mira" /\ Libre("ready")
  /\ Toma("ready", "pcp")
  /\ PcpEn(IF lista["ready"] = <<>> THEN "espera"
           ELSE IF algoritmo = "PRIORIDADES" THEN "pideReady" ELSE "pideExec")
  /\ UNCHANGED <<lista, semCpu, ticketVars, dispKC, kernel>>

\* pcp looks at lista_ready_thread before it goes for the mutexes it needs.
PcpMira ==
  /\ pcp = "mira" /\ Libre("ready")
  /\ PcpEn(IF lista["ready"] = <<>> THEN "espera"
           ELSE IF algoritmo = "PRIORIDADES" THEN "pideReady" ELSE "pideExec")
  /\ UNCHANGED <<lista, dueno, semCpu, ticketVars, dispKC, kernel>>

\* Mutant: the early return of a busy EXEC keeps the mutex.
PcpTomaExecSinSoltar ==
  /\ pcp = "pideExec" /\ Libre("exec")
  /\ lista["exec"] = <<>> => varTicket < MaxTickets
  /\ Toma("exec", "pcp")
  /\ PcpEn(IF lista["exec"] = <<>> THEN "conExec" ELSE "espera")
  /\ UNCHANGED <<lista, semCpu, ticketVars, dispKC, kernel>>

\* _atender_FIFO, _atender_RR: mutex_lista_exec_thread stays taken only if
\* lista_execute_thread is empty.
PcpTomaExec ==
  /\ pcp = "pideExec" /\ Libre("exec")
  /\ lista["exec"] = <<>> => varTicket < MaxTickets
  /\ IF lista["exec"] = <<>> THEN Toma("exec", "pcp") /\ PcpEn("conExec")
                             ELSE UNCHANGED dueno /\ PcpEn("espera")
  /\ UNCHANGED <<lista, semCpu, ticketVars, dispKC, kernel>>

\* The section of mutex_lista_ready_thread inside, and list_add to EXEC.
PcpSaca ==
  /\ pcp = "conExec" /\ Libre("ready")
  /\ \/ /\ lista["ready"] = <<>>
        /\ Suelta("exec") /\ PcpEn("espera") /\ UNCHANGED lista
     \/ \E k \in 1..Len(lista["ready"]) :
          /\ lista' = [lista EXCEPT !["ready"] = SinIndice(@, k),
                                    !["exec"] = Append(@, lista["ready"][k])]
          /\ PcpEn("pideTicket")
          /\ UNCHANGED dueno
  /\ UNCHANGED <<semCpu, ticketVars, dispKC, kernel>>

\* list_add was to the empty lista_execute_thread, whose mutex pcp still holds:
\* generar_ticket, the dispatch and, for CMN, the timer, which is given the TCB
\* and not the ticket.
PcpDespacha ==
  /\ pcp = "pideTicket" /\ Libre("ticket")
  /\ varTicket' = varTicket + 1
  /\ LET t == lista["exec"][1]
     IN  /\ ticket' = [ticket EXCEPT ![t] = varTicket + 1]
         /\ dispKC' = Append(dispKC, t)
         /\ IF algoritmo = "CMN"
            THEN /\ timer' = [timer EXCEPT ![varTicket + 1] = "nace"]
                 /\ turno' = [turno EXCEPT ![varTicket + 1] = [tid |-> t, ref |-> 0]]
            ELSE UNCHANGED <<timer, turno>>
  /\ Suelta("exec") /\ PcpEn("espera")
  /\ UNCHANGED <<lista, semCpu, kernel>>

\* _atender_PRIORIDADES takes ready first and reads the TCB it chose.
PcpTomaReady ==
  /\ pcp = "pideReady" /\ Libre("ready")
  /\ IF lista["ready"] = <<>>
     THEN kernel' = "caido" /\ UNCHANGED <<dueno, pcp>>
     ELSE Toma("ready", "pcp") /\ PcpEn("conReady") /\ UNCHANGED kernel
  /\ UNCHANGED <<lista, semCpu, ticketVars, dispKC>>

PcpDespachaPorPrioridad ==
  /\ pcp = "conReady" /\ Libre("exec")
  /\ IF lista["exec"] = <<>>
     THEN /\ \E k \in 1..Len(lista["ready"]) :
               /\ lista' = [lista EXCEPT !["ready"] = SinIndice(@, k),
                                         !["exec"] = Append(@, lista["ready"][k])]
               /\ dispKC' = Append(dispKC, lista["ready"][k])
          /\ Suelta("ready") /\ PcpEn("espera")
          /\ UNCHANGED kernel
     ELSE kernel' = "abortado" /\ UNCHANGED <<lista, dispKC, dueno, pcp>>
  /\ UNCHANGED <<semCpu, ticketVars>>

Pcp ==
  /\ kernel = "vivo"
  /\ \/ PcpDespierta \/ PcpMira \/ PcpTomaExec \/ PcpSaca \/ PcpDespacha
     \/ PcpTomaReady \/ PcpDespachaPorPrioridad
  /\ UNCHANGED <<algoritmo, proxTid, interrVars, buscaVars, cpu, intKC, dispCK, intCK>>

-----------------------------------------------------------------------------
(* The timers of CMN and _gestionar_interrupt *)

\* The detached thread starts when it likes: only then does it read the ticket.
LeerTicket(k) ==
  /\ timer[k] = "nace"
  /\ timer' = [timer EXCEPT ![k] = "duerme"]
  /\ turno' = [turno EXCEPT ![k].ref = ticket[turno[k].tid]]
  /\ UNCHANGED <<dueno, semInterr>>

TimerDespierta(k) ==
  /\ timer[k] = "duerme" /\ Libre("ticket")
  /\ Toma("ticket", "timer")
  /\ timer' = [timer EXCEPT ![k] = "pideExec"]
  /\ UNCHANGED <<turno, semInterr>>

\* if(ticket_referencia == var_ticket && !list_is_empty(lista_execute_thread))
Vence(k) == turno[k].ref = varTicket /\ lista["exec"] # <<>>

TimerVence(k) ==
  /\ timer[k] = "pideExec" /\ Libre("exec")
  /\ semInterr' = IF Vence(k) THEN semInterr + 1 ELSE semInterr
  /\ Suelta("ticket")
  /\ timer' = [timer EXCEPT ![k] = "fin"]
  /\ turno' = [turno EXCEPT ![k] = [tid |-> 0, ref |-> 0]]

Timer(k) ==
  /\ kernel = "vivo"
  /\ LeerTicket(k) \/ TimerDespierta(k) \/ TimerVence(k)
  /\ UNCHANGED <<algoritmo, kernel, lista, proxTid, pcpVars, varTicket, ticket, gestor,
                 buscaVars, cpuVars>>

GestorDespierta ==
  /\ ~gestor /\ semInterr > 0
  /\ gestor' = TRUE /\ semInterr' = semInterr - 1
  /\ UNCHANGED intKC

\* The interrupt goes to the head of lista_execute_thread, if any.
GestorEnvia ==
  /\ gestor /\ Libre("exec")
  /\ gestor' = FALSE
  /\ intKC' = IF lista["exec"] = <<>> THEN intKC ELSE Append(intKC, lista["exec"][1])
  /\ UNCHANGED semInterr

Gestor ==
  /\ kernel = "vivo"
  /\ GestorDespierta \/ GestorEnvia
  /\ UNCHANGED <<algoritmo, kernel, lista, dueno, proxTid, pcpVars, ticketVars,
                 buscaVars, cpu, dispKC, dispCK, intCK>>

-----------------------------------------------------------------------------
(* buscar_y_remover_tcb_por_tid *)

Recorrido == <<"new", "ready", "exec", "exit", "blocked">>
Buscando(b) == fase[b] \in {"busca", "saca"}

\* The call writes the global, whatever search may be using it.
Llamar(b, o, t) ==
  /\ tidABuscar' = t
  /\ En(b, "busca")
  /\ paso' = [paso EXCEPT ![b] = 1]
  /\ busca' = [busca EXCEPT ![b] = [op |-> o, tid |-> t, tcb |-> 0]]
  /\ cruce' = (cruce \/ \E c \in Buscadores \ {b} : Buscando(c))

\* list_any_satisfy under the mutex of the next list.  When no list has it the
\* search gives NULL, which each of its callers reads.
Mirar(b) ==
  /\ fase[b] = "busca"
  /\ LET m == Recorrido[paso[b]]
     IN  /\ Libre(m)
         /\ \/ /\ EnLista(lista[m], tidABuscar)
               /\ Toma(m, b) /\ En(b, "saca") /\ UNCHANGED <<paso, kernel>>
            \/ /\ ~EnLista(lista[m], tidABuscar) /\ paso[b] < Len(Recorrido)
               /\ paso' = [paso EXCEPT ![b] = @ + 1]
               /\ UNCHANGED <<dueno, fase, kernel>>
            \/ /\ ~EnLista(lista[m], tidABuscar) /\ paso[b] = Len(Recorrido)
               /\ En(b, "nulo") /\ kernel' = "caido" /\ UNCHANGED <<dueno, paso>>
  /\ UNCHANGED <<lista, busca, tidABuscar, cruce>>

\* Mutant: the TCB is found and not removed.
SacarSinQuitar(b) ==
  /\ fase[b] = "saca"
  /\ LET m == Recorrido[paso[b]]
     IN  IF EnLista(lista[m], tidABuscar)
         THEN /\ En(b, "mano") /\ busca' = [busca EXCEPT ![b].tcb = tidABuscar]
              /\ Suelta(m) /\ UNCHANGED <<lista, kernel>>
         ELSE /\ En(b, "nulo") /\ kernel' = "caido"
              /\ UNCHANGED <<lista, dueno, busca>>
  /\ UNCHANGED <<paso, tidABuscar, cruce>>

\* list_find asks the global again; a NULL is read by the log line.
Sacar(b) ==
  /\ fase[b] = "saca"
  /\ LET m == Recorrido[paso[b]]
     IN  IF EnLista(lista[m], tidABuscar)
         THEN /\ lista' = [lista EXCEPT ![m] = Quitar(@, tidABuscar)]
              /\ En(b, "mano") /\ busca' = [busca EXCEPT ![b].tcb = tidABuscar]
              /\ Suelta(m) /\ UNCHANGED kernel
         ELSE /\ En(b, "nulo") /\ kernel' = "caido"
              /\ UNCHANGED <<lista, dueno, busca>>
  /\ UNCHANGED <<paso, tidABuscar, cruce>>

Buscar(b) ==
  /\ Mirar(b) \/ Sacar(b)
  /\ UNCHANGED <<proxTid, semCpu, dormidos, cpuVars>>

\* The TCB at hand is added to the list e, in a section of its own.
Agregar(b, e) ==
  /\ fase[b] = "mano" /\ Libre(e)
  /\ lista' = [lista EXCEPT ![e] = Append(@, busca[b].tcb)]
  /\ En(b, "cierra")
  /\ UNCHANGED <<kernel, dueno, proxTid, paso, busca, tidABuscar, cruce, semCpu, dormidos, cpuVars>>

-----------------------------------------------------------------------------
(* The handlers that search *)

\* attend_kernel_cpu_dispatch takes its next message.
Recibe(o) ==
  /\ fase["dispatch"] = "libre"
  /\ dispCK # <<>> /\ Head(dispCK).op = o
  /\ dispCK' = Tail(dispCK)
  /\ UNCHANGED <<kernel, lista, dueno, proxTid, cpu, dispKC, intKC, intCK>>

DispatchDesalojoSyscall ==
  /\ Recibe("DESALOJO_SYSCALL")
  /\ semCpu' = semCpu + 1
  /\ UNCHANGED buscaVars

\* Mutant: exec_in_detach(syscall_io) before bloquear_hilo_syscall.
DispatchIoAlReves ==
  /\ Recibe("IO")
  /\ Llamar("dispatch", "IO", Head(dispCK).tid)
  /\ dormidos' = dormidos \cup {Head(dispCK).tid}
  /\ UNCHANGED semCpu

\* bloquear_hilo_syscall starts with a search.
DispatchIo ==
  /\ Recibe("IO")
  /\ Llamar("dispatch", "IO", Head(dispCK).tid)
  /\ UNCHANGED <<semCpu, dormidos>>

\* crear_hilo does not search: the TCB is new.
DispatchThreadCreate ==
  /\ Recibe("THREAD_CREATE")
  /\ En("dispatch", "mano")
  /\ busca' = [busca EXCEPT !["dispatch"] =
                [EnReposo EXCEPT !.op = "THREAD_CREATE", !.tcb = proxTid]]
  /\ UNCHANGED <<paso, tidABuscar, cruce, dormidos, semCpu>>

\* crear_hilo: list_get(lista_ready_thread, tid - 1) must find an element.
DispatchCrea ==
  /\ busca["dispatch"].op = "THREAD_CREATE" /\ fase["dispatch"] = "mano"
  /\ Libre("ready")
  /\ lista' = [lista EXCEPT !["ready"] = Append(@, proxTid)]
  /\ proxTid' = proxTid + 1
  /\ kernel' = IF Len(lista'["ready"]) < proxTid THEN "caido" ELSE kernel
  /\ En("dispatch", "cierra")
  /\ UNCHANGED <<dueno, paso, busca, tidABuscar, cruce, semCpu, dormidos, cpuVars>>

DispatchBloquea == busca["dispatch"].op = "IO" /\ Agregar("dispatch", "blocked")

\* aviso_finalizacion_syscall, which the CPU waits for, then for IO the thread
\* of syscall_io.
DispatchAvisa ==
  /\ fase["dispatch"] = "cierra"
  /\ IF busca["dispatch"].op = "IO"
     THEN /\ cpu' = [cpu EXCEPT !.fase = "bloqueada"]
          /\ dormidos' = dormidos \cup {busca["dispatch"].tid}
     ELSE cpu' = [cpu EXCEPT !.fase = "ejecuta"] /\ UNCHANGED dormidos
  /\ En("dispatch", "libre") /\ busca' = [busca EXCEPT !["dispatch"] = EnReposo]
  /\ UNCHANGED <<kernel, lista, dueno, proxTid, paso, tidABuscar, cruce, semCpu, dispKC, intKC,
                 dispCK, intCK>>

Dispatch ==
  \/ DispatchDesalojoSyscall \/ DispatchIo \/ DispatchThreadCreate
  \/ Buscar("dispatch") \/ DispatchCrea \/ DispatchBloquea \/ DispatchAvisa

\* attend_kernel_cpu_interrupt.
InterruptRecibe ==
  /\ fase["interrupt"] = "libre" /\ intCK # <<>>
  /\ intCK' = Tail(intCK)
  /\ Llamar("interrupt", "DESALOJO_QUANTUM", Head(intCK))
  /\ UNCHANGED <<kernel, lista, dueno, proxTid, semCpu, dormidos, cpu, dispKC, intKC, dispCK>>

InterruptPostea ==
  /\ fase["interrupt"] = "cierra"
  /\ semCpu' = semCpu + 1
  /\ En("interrupt", "libre") /\ busca' = [busca EXCEPT !["interrupt"] = EnReposo]
  /\ UNCHANGED <<kernel, lista, dueno, proxTid, paso, tidABuscar, cruce, dormidos, cpuVars>>

Interrupt == InterruptRecibe \/ Buscar("interrupt") \/ Agregar("interrupt", "ready")
             \/ InterruptPostea

\* syscall_io: mutex_syscall_io, the sleep and
\* desbloquear_hilo_finalizacion_syscall, which posts if EXEC is empty.
IoDespierta(t) ==
  /\ fase["io"] = "libre" /\ t \in dormidos
  /\ dormidos' = dormidos \ {t}
  /\ Llamar("io", "IO", t)
  /\ UNCHANGED <<kernel, lista, dueno, proxTid, semCpu, cpuVars>>

IoPostea ==
  /\ fase["io"] = "cierra" /\ Libre("exec")
  /\ semCpu' = IF lista["exec"] = <<>> THEN semCpu + 1 ELSE semCpu
  /\ En("io", "libre") /\ busca' = [busca EXCEPT !["io"] = EnReposo]
  /\ UNCHANGED <<kernel, lista, dueno, proxTid, paso, tidABuscar, cruce, dormidos, cpuVars>>

Io == (\E t \in Hilos : IoDespierta(t)) \/ Buscar("io") \/ Agregar("io", "ready") \/ IoPostea

Manejador(A) ==
  /\ kernel = "vivo"
  /\ A
  /\ UNCHANGED <<algoritmo, pcp, ticketVars, interrVars>>

-----------------------------------------------------------------------------
(* The CPU, as the kernel sees it *)

CpuCarga ==
  /\ cpu.fase = "libre" /\ dispKC # <<>>
  /\ cpu' = Ejecuta(Head(dispKC)) /\ dispKC' = Tail(dispKC)
  /\ UNCHANGED <<intKC, dispCK, intCK>>

CpuPide(o) ==
  /\ cpu.fase = "ejecuta"
  /\ o = "THREAD_CREATE" => proxTid <= MaxTid
  /\ cpu' = [cpu EXCEPT !.fase = "pide"]
  /\ dispCK' = Append(dispCK, [op |-> o, tid |-> cpu.tid])
  /\ UNCHANGED <<dispKC, intKC, intCK>>

\* After a syscall that blocks: delete_contexto and DESALOJO_SYSCALL.
CpuDeja ==
  /\ cpu.fase = "bloqueada"
  /\ cpu' = CpuLibre
  /\ dispCK' = Append(dispCK, [op |-> "DESALOJO_SYSCALL", tid |-> cpu.tid])
  /\ UNCHANGED <<dispKC, intKC, intCK>>

\* interrupt_manager drops an interrupt that is not for the thread it runs.
CpuInterrumpe ==
  /\ intKC # <<>>
  /\ intKC' = Tail(intKC)
  /\ IF cpu = Ejecuta(Head(intKC))
     THEN cpu' = CpuLibre /\ intCK' = Append(intCK, Head(intKC))
     ELSE UNCHANGED <<cpu, intCK>>
  /\ UNCHANGED <<dispKC, dispCK>>

\* With the kernel gone its sockets close and the CPU's loops end.
Cpu ==
  /\ kernel = "vivo"
  /\ CpuCarga \/ (\E o \in {"IO", "THREAD_CREATE"} : CpuPide(o)) \/ CpuDeja \/ CpuInterrumpe
  /\ UNCHANGED <<algoritmo, kernel, lista, dueno, proxTid, pcpVars, ticketVars, interrVars,
                 buscaVars>>

Next ==
  \/ Pcp \/ (\E k \in 1..MaxTickets : Timer(k)) \/ Gestor
  \/ Manejador(Dispatch) \/ Manejador(Interrupt) \/ Manejador(Io)
  \/ Cpu

Spec == Init /\ [][Next]_vars

\* Every kernel thread that can run does, and none waits for ever for a free
\* mutex.  Nothing is asked of the programs the CPU runs.
Justicia ==
  /\ WF_vars(Pcp) /\ WF_vars(Gestor)
  /\ \A k \in 1..MaxTickets : WF_vars(Timer(k))
  /\ WF_vars(Manejador(Dispatch)) /\ WF_vars(Manejador(Interrupt)) /\ WF_vars(Manejador(Io))

SpecJusta == Spec /\ Justicia

-----------------------------------------------------------------------------
(* Properties *)

TypeOK ==
  /\ algoritmo \in Algoritmos /\ kernel \in {"vivo", "abortado", "caido"}
  /\ lista \in [Estados -> Seq(Hilos)]
  /\ dueno \in [Mutexes -> Actores \cup {"nadie"}]
  /\ proxTid \in 1..(MaxTid + 1) /\ tidABuscar \in Hilos /\ dormidos \subseteq Hilos
  /\ pcp \in {"espera", "mira", "pideExec", "conExec", "pideTicket", "pideReady", "conReady"}
  /\ semCpu \in Nat /\ semInterr \in Nat /\ gestor \in BOOLEAN
  /\ varTicket \in 0..MaxTickets /\ ticket \in [Hilos -> 0..MaxTickets]
  /\ timer \in [1..MaxTickets -> {"no", "nace", "duerme", "pideExec", "fin"}]
  /\ turno \in [1..MaxTickets -> [tid : Hilos, ref : 0..MaxTickets]]
  /\ fase \in [Buscadores -> {"libre", "busca", "saca", "mano", "cierra", "nulo"}]
  /\ busca \in [Buscadores -> [op : {"IO", "THREAD_CREATE", "DESALOJO_QUANTUM"}, tid : Hilos,
                               tcb : Hilos]]
  /\ paso \in [Buscadores -> 1..Len(Recorrido)]
  /\ cruce \in BOOLEAN
  /\ cpu \in [fase : {"libre", "ejecuta", "pide", "bloqueada"}, tid : Hilos]
  /\ dispKC \in Seq(Hilos) /\ intKC \in Seq(Hilos) /\ intCK \in Seq(Hilos)
  /\ dispCK \in Seq(Syscalls)

\* The thread a of the kernel is about to lock m.
Pide(a, m) ==
  \/ a = "pcp" /\ m = "ready" /\ pcp \in {"mira", "conExec", "pideReady"}
  \/ a = "pcp" /\ m = "exec" /\ pcp \in {"pideExec", "conReady"}
  \/ a = "pcp" /\ m = "ticket" /\ pcp = "pideTicket"
  \/ a = "timer" /\ m = "exec" /\ dueno["ticket"] = "timer"
  \/ a = "gestor" /\ m = "exec" /\ gestor
  \/ a = "io" /\ m = "exec" /\ fase[a] = "cierra"
  \/ a \in Buscadores /\ fase[a] = "busca" /\ m = Recorrido[paso[a]]
  \/ /\ a \in Buscadores /\ fase[a] = "mano"
     /\ m = IF a = "dispatch" /\ busca[a].op = "IO" THEN "blocked" ELSE "ready"

\* A set of threads each of which waits for a mutex that one of them holds.
Abrazo(S) == S # {} /\ \A a \in S : \E m \in Mutexes : Pide(a, m) /\ dueno[m] \in S

\* The mutexes are taken in different orders (exec and ready by FIFO and CMN,
\* ready and exec by PRIORIDADES, ticket and exec by the timer, exec and ticket
\* by _atender_RR): the last two, under CMN, make the only deadlock there is.
UnicoAbrazo ==
  \A S \in SUBSET Actores :
    Abrazo(S) => algoritmo = "CMN" /\ {"pcp", "timer"} \subseteq S /\ pcp = "pideTicket"

Lugares(t) == UNION {{<<e, i>> : i \in {j \in 1..Len(lista[e]) : lista[e][j] = t}} : e \in Estados}
Manos(t) == {b \in Buscadores : fase[b] = "mano" /\ busca[b].tcb = t}

\* Each TCB is in one list, once, or in the hands of the one handler that is
\* moving it, though a search may take the TCB another one was looking for.
CadaHiloEnUnLugar ==
  \A t \in 0..(proxTid - 1) :
    \/ Manos(t) = {} /\ \E p \in Lugares(t) : Lugares(t) = {p}
    \/ Lugares(t) = {} /\ \E b \in Buscadores : Manos(t) = {b}

\* A search goes wrong only after two have overlapped and written the same
\* global: as long as none have, each gives the TCB its caller named, in
\* whatever list the other threads of the kernel have put it by then.
BusquedaSola ==
  ~cruce =>
    \A b \in Buscadores : busca[b].op # "THREAD_CREATE" =>
      /\ fase[b] # "nulo"
      /\ fase[b] \in {"mano", "cierra"} => busca[b].tcb = busca[b].tid

\* Every eviction the CPU reports ends with its thread in READY and a post,
\* through six lock sections, unless the kernel has ended or is in the deadlock
\* of UnicoAbrazo.
DesalojoPendiente == intCK # <<>> \/ fase["interrupt"] # "libre"
DesalojoAtendido ==
  DesalojoPendiente ~> ~DesalojoPendiente \/ kernel # "vivo" \/ Abrazo({"pcp", "timer"})

-----------------------------------------------------------------------------
(* What a comment says and the code does not keep *)

\* _programar_interrupcion_por_quantum: a thread that left the CPU and came
\* back has a new ticket, and the timer of its earlier turn does not evict it.
InterrumpeAlSuyo ==
  [][\A k \in 1..MaxTickets :
       timer[k] = "pideExec" /\ timer'[k] = "fin" /\ semInterr' > semInterr =>
         varTicket = k]_vars
=============================================================================
