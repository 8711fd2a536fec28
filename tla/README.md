# Formal models of tp-2024-2c-cdec-Operativos

The repository is a distributed operating-systems exercise in C: four processes
(**kernel**, **cpu**, **memoria**, **filesystem**) that talk through TCP sockets and
share the library `utils`. This directory holds TLA+ modules translated from that code,
TLC configurations that check them on small instances, and TLAPS proofs of the results
that hold for every value of the constants. Names of variables and actions follow the
C names where TLA+ allows it.

## 1. Inventory

| Part | State | Operations | Threads |
|---|---|---|---|
| Kernel, short term (`planificador_corto_plazo.c`, `kernel_cpu_interrupt.c`) | `lista_ready_thread`, `lista_execute_thread`, `sem_cpu_disponible`, tickets, `sem_enviar_interrupcion` | `pcp`, `_atender_FIFO/RR/PRIORIDADES`, quantum timer, `_gestionar_interrupt`, eviction handler | `pcp`, one timer per dispatch, two interrupt threads |
| Kernel, syscalls (`kernel_cpu_dispatch.c`, `syscalls.c`, `pcb.c`) | all lists of TCBs, mutexes of a process, threads joined to a thread | one handler per syscall | `attend_kernel_cpu_dispatch`, one `syscall_io` per IO |
| Kernel, long term (`planificador_largo_plazo.c`) | `lista_new`, `lista_ready`, `lista_exit` | `plp`, `finalizar_proceso`, `crear_hilo`, `finalizar_hilo` | inside the syscall handlers |
| CPU (`execute_cicle.c`, `cpu_kernel_*.c`, `mmu.c`) | context, `desalojar`, `interruptFlag`, `syscall_bloquea`, `sem_retorno_syscalls` | cycle, syscalls, errors, evictions | main, interrupt thread, memoria thread |
| Memoria (`memoria_kernel.c`, `memoria_cpu.c`) | `lista_procesos`, `lista_particiones`, contexts, `espacio_usuario`, the global `search_pid_value` | admit, end, create and end thread, dump; contexts, instructions, reads and writes for the CPU | one thread per kernel request, one for the CPU |
| Filesystem (`filesystem_memoria.c`, `manejo_archivos.c`) | bitmap in memory and on disk, metadata, blocks | `attend_dump_memory` | one thread per request |

How they interact: the kernel sends threads to run over `socket_cpu_dispatch` and quantum
interrupts and syscall answers over `socket_cpu_interrupt`; the CPU sends syscalls over the
first and quantum evictions over the second; memoria is asked by the kernel with one
connection per request, answered except for `CREACION_HILO_KM`, and by the CPU for contexts
and instructions; memoria asks the filesystem for dumps.

What is hard here: eight or more kernel threads move the same TCBs between lists with a
lock per list and handlers made of several lock sections; semaphore posts come from five
places; timers outlive the dispatch that started them; searches in the kernel and in memoria
leave what they look for in globals every thread writes; answers and interrupts share a
socket, and the CPU's interrupt thread writes what its main thread allocates and frees; one
request to memoria is not acknowledged; partitions are split, freed by pid and
grouped in any order; the filesystem may die between the writes of a dump.
`PROJECT.json` lists each hazard at its line.

What makes each part correct: one thread in EXEC, the CPU in step with it, no TCB in two
lists, no lost wakeup, one answer per syscall, the dispatch order of each algorithm
(short term); no deadlock, no TCB lost when lock sections interleave (kernel threads);
each program runs as on a machine of its own, interrupts hit the thread they name, a thread
sent to the CPU comes back (CPU and memoria's contexts); FIFO admission, nobody waiting while there is room (long term); partitions
that tile the memory and belong to one live process each, no refusal while a hole is long
enough (memoria); blocks owned by one file across deaths, answered dumps durable
(filesystem).

## 2. Modules

| Module | Models |
|---|---|
| `Listas` | the list operations of the commons the kernel uses; `Listas_proofs` has their lemmas |
| `Despacho` | short-term scheduling, the syscall handlers, the CPU's two threads, the four channels, what memoria knows of processes and threads |
| `Despacho_proofs` | types, one thread in EXEC, one answer per syscall, no TCB in two lists and the CPU in step with EXEC until two searches overlap, the order of the dispatches, no lost wakeup of `pcp`, for every instance |
| `Hilos` | the threads of one process: user mutexes, joins, cancels and the lists behind them |
| `Hilos_proofs` | mutual exclusion of the user mutexes, lists that agree with the states until two searches overlap, the one thing each blocked thread waits for, for every instance |
| `Cerrojos` | the kernel threads one lock section at a time: the order of the mutexes, tickets and every timer, searches through shared globals |
| `Cerrojos_proofs` | the only deadlock of the kernel's mutexes, the one place of each TCB, the searches nobody crosses, for every instance |
| `Buffers` | the layout of `t_buffer` and of a packet on a stream (`utils`) |
| `Buffers_proofs` | what is added and sent is what is received and extracted |
| `CicloCpu` | the CPU instruction by instruction and what memoria serves it (EXTENDS `Buffers`) |
| `MaquinaDeHilos` | abstract: each thread runs its program on registers of its own and one shared memory |
| `CicloCpu_proofs` | the safety of interrupts, the types of the CPU, memoria and their channels, the reach of the writes, the end of memoria, for every instance |
| `Particiones` | the user memory: search, split, free, group |
| `LargoPlazo` | `lista_new`, `plp` and `finalizar_proceso` over `Particiones` (EXTENDS it) |
| `LargoPlazo_proofs` | every invariant of the partitions and of the admission, and the refinement of `MemoriaDeUsuario`, for every instance |
| `MemoriaDeUsuario` | abstract: each byte has an owner; a process gets a free run and gives it back |
| `DumpFS` | `attend_dump_memory` step by step, with deaths of the process |
| `DumpFS_proofs` | every invariant of the disk, for every instance |
| `MCDespacho`, `MCHilos`, `MCCerrojos`, `MCCicloCpu`, `MCLargoPlazo` | constants of the small instances |

**Despacho.** One action per lock section of each kernel thread, so that the steps of two
threads interleave where the code lets them: `pcp` is `PcpDespierta` (the `sem_wait`),
`PcpMira` (the look at READY under its own lock) and one of the three `Atender...`; a
handler of `attend_kernel_cpu_dispatch` is one action while it holds its place and several
(`kd.paso`) where it waits for memoria or walks a list; `desbloquear_hilo_finalizacion_syscall`
is two (`IoTermina`/`IoAvisa`, `DumpRespondido`/`DumpAvisa`) because it moves the thread in
one section and tests EXEC in another. The CPU is a phase: idle, waiting for the context,
executing, waiting for the answer of a syscall (`retorno`) or of an error (`error`). The
process that reads a NULL is `kernel = "caido"`, the one that calls `exit` is `"abortado"`
or `memoriaViva = FALSE`.

Two things happen inside the handlers, between lock sections, that would make the rest of
the run meaningless, and there `Despacho` stops following the kernel instead of hiding them.
A search of a TCB (`pcb.c:389-530`) leaves what it looks for in globals and walks five lists
in five lock sections: `BusquedasCruzadas` is enabled whenever two of the threads that search
(the dispatch thread, the eviction handler, the end of an IO) are about to, and makes
`kernel = "cruzado"`. One search may then find the TCB of the other, one left behind in
`lista_blocked_thread`, or none, and a thread that runs may leave EXEC or enter READY; so
`SinDuplicados` and `CpuEjecutaLoDeExec` promise nothing after it. The timers are kept as
"the one of the latest dispatch" and "some earlier ones", which hold a stale ticket and do
nothing, except in the race of `Cerrojos`; but any of them takes `mutex_ticket` and then EXEC
while `_atender_RR` holds EXEC and asks for `mutex_ticket`: `Abrazo` makes
`kernel = "trabado"`. `Cerrojos` goes on where these two actions stop.

`agregar_tcb_lista` locks a copy of the mutex it
receives by value: `AtenderYDespertarMal` and `HiloColgado` are the dispatch thread that
waits in the copy for ever and the list entry that is lost, when another thread is about to
use the list. Left open on purpose: whether a lock or a join
blocks, and whom an unlock or an exit wakes (any waiting thread of the process), which
covers every outcome of the lists of waiters.

**Hilos.** What `Despacho` leaves open, for one process. A handler is one action, because
its caller stays in EXEC until it answers; the interleaving is that of evictions, dispatches
and IO ends with the handlers. The end of an IO searches in a thread of its own: it falls between two
handlers, or overlaps the search of one, and then (`BusquedasCruzadas`, `sistema = "cruzado"`) the module
stops, as `Despacho` does. A list is the number of times each thread is in it, so that
the entries the code forgets to remove are visible: `mutex_unlock` and
`liberar_hilos_bloqueados` ready a thread that is still in `lista_blocked_thread`, a
cancelled thread stays in the list of the mutex or thread it waits for. `SinHilo` is
`buscar_y_remover_tcb_por_tid` with its order of search. Three
variables only record history: `adentro`, the threads that were answered that a mutex is
theirs; `destruidas`, the threads whose list of waiters was destroyed; `perdidos`, those that
blocked in such a list. The dump, the
creation notice in flight, the copied mutexes, the other processes and the semaphores stay in `Despacho`.

**Cerrojos.** The same kernel threads under a finer grain, for one process: a step is one
lock section, and a thread that takes a second mutex while it holds one stops in between
(`dueno` says who holds each). `pcp` takes EXEC, READY and, in `generar_ticket`,
`mutex_ticket`; the timer takes `mutex_ticket` and then EXEC; PRIORIDADES takes READY and
then EXEC. Every dispatch under CMN has its timer, which reads its ticket when it starts
running, not when it is made. The three threads that search TCBs (`dispatch`, `interrupt`,
`io`) walk the lists one lock section at a time, looking for whatever `un_tid_a_buscar`
holds by then; `cruce` records that two searches overlapped. IO, THREAD_CREATE and the
quantum eviction are the handlers that search; which thread of READY is preferred is left
open, since `Despacho` says it.

**CicloCpu.** The three threads of the CPU and the two of memoria that touch a context. The
dispatch thread is the phase `fase`, from `init_contexto` to `delete_contexto`; the memoria
thread fills the context and posts the semaphores the first one waits in; the interrupt
thread checks the names of an interrupt in one step and writes `contexto_interrupt` and the
flag in another, because no mutex keeps the context from being freed or made in between
(`cruzada` records that it was). Writing the name and raising the flag are one step: a main
thread that reads between the two does what it would do before the first or after the second.
memoria serves a request in two steps, since `search_process_for` leaves the pid in a global
first; a dump request in another thread writes that global too (`cruce`). The searches
of the kernel's other requests would cross in the same way; the dump stands for them.
`dispCK` is the stream of cells of the socket, so that the empty buffer of
DESALOJO_SYSCALL, which its handler does not read, is taken for the next op code, a MENSAJE.
The kernel is any scheduler: it sends a ready thread when EXEC is empty, may interrupt it at
any moment, and blocks or not a lock. The CPU process dies, all its threads with it, by the
NULL name of an interrupt that `strcmp` reads (`fase = "caida"`) or by the NULL that
`detectar_registro` gives for a register that does not exist (`"nulo"`): SUM and SUB with one such
operand, LOG, the address of READ_MEM and WRITE_MEM, the data of a WRITE_MEM, and that of a
READ_MEM when the word read is not zero. SET, JNZ and a SUM or SUB with two of them report the
error and evict. Of the syscalls, a lock, a dump and the two exits are there: the others
go through the same `envios_desalojo` with more arguments.

**MaquinaDeHilos.** What a program's author expects: a step runs the next instruction of any
thread on its own registers. `CicloCpu` refines it with `pc` and `reg` taken from the CPU
while the thread is loaded, from the socket while its context is on the way to memoria, and
from memoria otherwise. After two searches have crossed it promises nothing (`sano`).

**Particiones / LargoPlazo.** Requests from the kernel are served one at a time (the
dispatch thread waits for each answer), so a request is one action. `plp` takes one action
per turn of its loop.

**DumpFS.** One action per write that reaches the disk. `Caer` forgets what is only in
memory (`bitmap`, the request in course), `Levantar` is `cargar_bitmap`. Block contents are
file and part numbers; index blocks carry the set of blocks they point at.

Operators commented "Mutant" are plausible faults that each property must notice; they are
used nowhere in the specifications.

## 3. Runs

| Run | Shows |
|---|---|
| `despacho_completo` | `TypeOK`, `UnoEnEjecucion`, `SinDuplicados`, `RespuestaUnica`, `CpuEjecutaLoDeExec`, `SinDespertarPerdido`, `DespachaAlMejor`: every error and every syscall but THREAD_CANCEL under the three algorithms, and the races that end a process (0.95 million states) |
| `despacho_turnos` | `NadieEspera`, `DespachaAlMejor`: round robin among equal priorities takes them in order of arrival and starves nobody, unless a timer and `pcp` deadlock or two searches overlap |
| `hilos` | `MutexExclusivo`, `ListaSegunEstado`, `TodoBloqueadoEsperaAlgo`: mutual exclusion, lists that agree with the states in spite of the stale entries until two searches overlap, and exactly one thing, not yet done, that each blocked thread waits for (0.72 million states) |
| `cerrojos` | `UnicoAbrazo` (the only deadlock is `pcp` with a quantum timer), `CadaHiloEnUnLugar` (no TCB lost or in two lists even when searches cross), `BusquedaSola` (a search nobody crosses finds its own TCB), `DesalojoAtendido` (each eviction ends with its thread in READY) |
| `cpu` | `EjecutaProgramas` (refinement of `MaquinaDeHilos`), `InterrupcionDelCargado`, `SoloFallaElUltimoContexto`, `EscrituraAcotada`, `HiloDevuelto` |
| `admision` | the invariants of the partitions and the admission, the refinement of `MemoriaDeUsuario`, and `TodosAdmitidos` |
| `dump` | the invariants of the disk and `TodoDumpSeResponde` |
| `aborto_prioridades`, `hilo_sin_contexto`, `quantum_ajeno`, `error_sin_respuesta`, `indice_incompleto` | counterexamples to what a comment or an error path of the code says (see Findings) |

Bounds. Two threads of a process are enough for each race of `Despacho`, since they are
between one running and one waking thread; `DespachaAlMejor` compares two candidates that arrive in
either order, with equal priorities and with different ones (under CMN, whose timers make most of the states,
`despacho_completo` has the different ones and `despacho_turnos` the equal ones); `NadieEspera` has three
processes, so that a thread can be passed over by two others. `MaxPosts = 2` allows the double post that PRIORIDADES does not
survive; a third post in a row needs a third waking thread. `MaxInterrupciones = 1` holds
back a timer until `_gestionar_interrupt` served the previous one. The memory of 6 bytes
with sizes 1 to 3 and five processes reaches every case of grouping (none, left, right,
both) with a process still waiting. Eight blocks, four dumps of one to three blocks and two
deaths fill the disk and leak blocks. In `hilos` three threads and two mutexes give an owner,
a waiter and a third that cancels or joins either, and the cycles of two mutexes;
`MaxBloqueos = 2` lets one stale entry of a thread stay in `lista_blocked_thread` next to a
live one. The names of the mutexes are the only symmetric values: threads are told apart by tid.
In `cerrojos` two threads and two tickets (`MaxTickets`) give a timer of an earlier dispatch next to
one of a later; `MaxPosts = 2` as above. In `cpu` there are two threads of two
processes: `<<0,0>>` only ends; `<<1,1>>`, whose main thread has ended already, runs 15 instructions that
write and read the word after its partition, lock, dump, leave the partition, survive an
error that an interrupt hides, jump and name registers that do not exist, the last one as the data of a
READ_MEM of a zero. The programs of the run name none where its NULL is read, since the rest of the program
would be out of reach; the same run with such an instruction (a LOG, a READ_MEM, a WRITE_MEM, a SUM, each in its turn)
in place of the LOG before the last one has the same results. A byte
has 4 values and a word 2 bytes, so sums wrap and a word spans cells; one quantum
interrupt at a time is in the socket.
Deadlock is not checked because the systems stop for real (programs end).

Fairness. `SpecJusta` of `Despacho` has weak fairness for each kernel and CPU thread that
runs a loop without waiting on a program (pcp, timers, interrupt threads, handlers, IO,
CPU); a program's choice of syscall gets none. It assumes that these threads run, not that
they meet no other: a timer that deadlocks with `pcp` and two searches that overlap are
steps the kernel may always take, and `NadieEspera` ends there. So round robin
starves nobody only as long as neither happens, which the code does nothing to ensure. `NadieEspera` also needs a quantum longer
than the load of a context (`QuantumHolgado`): an interrupt that overtakes the
dispatch message, which comes by the other socket, and is looked at before `init_contexto`
wrote the thread's names is dropped by `interrupt_manager` and never sent again. The shipped QUANTUM values (25 to 875 ms)
against RETARDO_RESPUESTA (50 to 200 ms) make both cases possible; without the assumption the
property fails. `Cerrojos` has weak fairness
for each kernel thread and asks nothing of the CPU. `CicloCpu` asks less than fairness of each thread: of
all that takes messages and runs instructions together, and of the interrupt thread apart, for
what has arrived stays until it is taken. `LargoPlazo` assumes that programs end; `DumpFS` that the filesystem's
thread runs while the process lives.

## 4. Findings

1. `aborto_prioridades`: two posts for one idle CPU make PRIORIDADES end the kernel.
2. `hilo_sin_contexto`: a new thread may run before memoria knows it, which ends memoria; a
   thread of a process that is being taken apart may be dispatched with the same end.
3. `quantum_ajeno`: a timer that starts late reads the ticket of a later dispatch of the same
   TCB and evicts that one.
4. `error_sin_respuesta`: after a program's error the CPU waits for ever.
5. `indice_incompleto`: the index block holds only its first pointer.

Other behaviour the models show and no text of the repository speaks of, so that it is
part of the models and of the wording of the properties: two searches that cross may take
each other's TCB (`BusquedaSola`, `sano`); the last context of a thread that has ended may
reach memoria after the kernel's request and end it (`SoloFallaElUltimoContexto`); an
interrupt that comes with an error hides it, and the program goes on; the bound of the
mmu lets a word start in the byte after the partition (`EscrituraAcotada`); an interrupt
checked before `delete_contexto` and marked after it reaches the next thread
(`~cruzada` in `InterrupcionDelCargado`).

## 5. Proofs

Each theorem holds for every value of the constants that satisfies the named assumption of
its module (`ConstantesOK`, `HilosConstantes`, ..., which TLC evaluates in every run); the
one that needs more says so in its statement. Every inductive invariant below was checked
by TLC before it was proved.

`Listas_proofs` has what the other proofs share: what a removal, an append and a fold of a
list keep, and that a nonempty set of naturals has a least element. That last lemma is what
stands for induction here: a property of every prefix of a list is proved by the least
prefix that lacks it, with no induction theorem of the library.

`Despacho_proofs`, for any finite set of threads, priorities, algorithms and programs:

* `TiposCorrectos` (`TypeOK`) and `UnSoloHiloEnEjecucion` (`UnoEnEjecucion`), inductive
  together: EXEC grows only in `Despachar`, which every algorithm reaches with EXEC empty.
* `RespuestaUnicaSiempre` (`RespuestaUnica`). The answer of a syscall is posted by five
  kernel threads and consumed by two of the CPU, so the invariant (`Conversacion`) says that
  the request in the dispatch socket, the handler at work, the answer in the interrupt socket and
  the semaphore already posted exclude each other, and which phase of the CPU goes with each.
* `SinDuplicadosSiempre`, `CpuYExecDeAcuerdo` (`SinDuplicados`, `CpuEjecutaLoDeExec`), both until
  two searches overlap. That no
  list repeats a thread is not inductive: an append is safe only if the thread is in no other
  list and in nobody's hands. `CadaUnoEnSuLugar` says that a thread that can still run is in one of eight places
  (three lists, the IO thread, the notices under way...), whose the syscall in course is, that
  threads are created in order, and how EXEC and the CPU differ while a message is between them.
* `DespachosJustos` (`[][DespachaAlMejor]_vars`): the head of the sorted READY is the best
  of the set, because `EnOrden` permutes and the sort is stable.
* `PcpNoPierdePosts` (`SinDespertarPerdido`). With the CPU idle and EXEC empty, whoever readied a
  thread has posted or is about to (`AlguienPostea`): `desbloquear_hilo...` looks at EXEC only after it has
  filled READY, and whoever empties EXEC posts after it has done so or has a message of the CPU under way. The
  handler of a dump is the only one that runs while the CPU may be idle already; `DumpAnuncia` says
  that an eviction is then still to be read. With the CPU busy, the thread it has is in EXEC,
  is told to leave or is being taken apart (`CadaUnoEnSuLugar`).

`Hilos_proofs`, for any number of threads and mutexes:

* `ExclusionMutua` (`MutexExclusivo`). The invariant adds that a free mutex has no waiters:
  the code lets tid 0 unlock a free mutex as its owner (NULL is 0), and with a waiter left there
  that unlock would hand the mutex to it without closing it.
* `TiposDeLosHilos`, `CadaEstadoEnSuLista`, `BloqueadosConUnaEspera` (`TypeOK`,
  `ListaSegunEstado`, `TodoBloqueadoEsperaAlgo`). The stale entries of `lista_blocked_thread` make
  the lists alone say little; `Espera` says that a blocked thread has one reason only, which waiters no
  list repeats, which threads have a context to return to and that tids are given in order. A mutex
  somebody waits for has an owner that was told it has it, or one that has ended (`ConDuenio`).
  Neither says that the wait ends: nobody unlocks the mutex of an owner that has ended, nor one that
  the waiting thread itself owns.

`Cerrojos_proofs`, for any number of threads, tickets and posts:

* `UnSoloAbrazo` (`UnicoAbrazo`). The invariant says what each kernel thread holds from where it is
  (`DuenosSegunFase`), so that of the pairs of threads that hold one mutex and ask for another only
  `pcp` in `generar_ticket` and a timer remain.
* `TiposDeLosCerrojos` (`TypeOK`): `pcp` always has a thread to dispatch and a ticket for it.
* `UnLugarPorHilo` (`CadaHiloEnUnLugar`): `Lugar` says that each TCB is in one list, once, or in
  the hand of one handler, whatever the searches have found; it holds after searches have
  crossed too, since a search that takes the wrong TCB still takes it under the mutex of its list.
* `BusquedasAcertadas` (`BusquedaSola`). While no search has crossed, who may search is decided far
  from the search: the TCB in EXEC gives a turn to one of `pcp`, the dispatch socket, the CPU, the
  eviction socket and the eviction handler (`UnTurno`), and only the holder can
  ask for it to be found; a sleeper of an IO is in BLOCKED until its own search (`Durmiendo`).

`CicloCpu_proofs`, for any programs, registers and threads:

* `InterrupcionSegura` (`InterrupcionDelCargado`). The invariant, all of it while `~cruzada`: a
  raised flag has its name written and a thread loaded, the thread `interrupt_manager` has let
  through (`mano`) is the loaded one, an idle CPU has no thread, and `strcmp` has read no NULL.
* `TiposDeLaCpu` (`TypeOK`) and `EscriturasAcotadas` (`EscrituraAcotada`), for programs that do
  not write BASE or LIMITE (`RespetanLaParticion`; the code would let them, and then any address
  would pass the mmu). Both come from `InvDeLaCpu`, whose parts need each other. `Conversa`: of
  the CPU's question in its channel to memoria, the answer in the other channel and the post of
  the semaphore there is at most one, and it is what the phase waits for; saved contexts may be
  ahead of the question. `ConversaKernel`: `dispCK` is at most two cells of a DESALOJO_SYSCALL
  that nobody has read whole, then the request of the syscall in course, so that a handler reads
  the thread the CPU has and its answer is the only one on the way. `Busqueda`: until two
  searches cross the global holds the pid of who is served. `ParticionCargada`: hence the BASE
  and LIMITE that arrive are those of the thread's process, and the address asked for is in its
  partition or the word after it; after a crossing they are still those of some process, so that
  memoria never reads or writes out of its array.
* `UltimoContexto` (`SoloFallaElUltimoContexto`), for programs that end in an exit that ends
  their thread, jump only to their instructions and compute neither PC nor the registers of
  the partition (`ProgramasQueTerminan`; the program of any other may run off its end, and
  memoria ends then; `MCCicloCpu` asks TLC whether the programs of the run are such). `ExecInv`
  follows the thread that is loaded: until the kernel tells it to leave it is the one in EXEC, so
  that it has not ended and memoria has it; a context saved by a quantum's end reaches memoria
  before the next thread is executed. `PcInv` follows each program counter through the registers, the
  two channels and memoria: it points inside its program except for a thread that is at its
  THREAD_EXIT or past it, and the instruction that is executed is the one there. So memoria never lacks
  the thread of a request for a context or an instruction, nor the instruction; what it may lack is
  the thread of a context that arrives late.

`LargoPlazo_proofs`, for any memory, sizes, schemes, searches and number of processes:

* `MosaicoSiempre`, `UnaParticionPorProceso`, `UnSoloResto`, `RechazosJustos`,
  `EleccionesBuenas` (the invariants of `Particiones`). They need each other: the first partition whose pid is that
  of a process is its own only because a free partition keeps an old pid (`PidsViejos`, with pid 0, that
  of a memory never used, apart in `PrimeraDelCero`); grouping looks at the two neighbours only, which
  is enough because no two free partitions were adjacent before (`SinVecinasLibres`); a refusal is just because then a
  run of free bytes is within one partition. The folds of `list_get_minimum` and
  `list_get_maximum` start at the first partition even if it is taken; the lemma follows the chosen index along
  the fold.
* `TiposDelLargoPlazo`, `AdmisionesEnOrden`, `NadieEspera` (`TypeOK`, `AdmisionEnOrden`,
  `NadieEsperaConLugar`).
* `MemoriaCumple`: every step maps to a step of `MemoriaDeUsuario` or to a stutter. It assumes
  `FijasCaben`, that the fixed partitions do not exceed `TAM_MEMORIA`: in every shipped par_fijas
  configuration they fill it, and `iniciar_memoria` does not look. `MemoriaOK` likewise asks for at least one
  partition under FIJAS.

`DumpFS_proofs`, for any number of blocks, dumps and deaths: `TiposDelDisco`,
`BloquesDeUnSoloArchivo`, `SiempreHayBase`, `DumpsDurables` (`TypeOK`, `SinSolapamiento`,
`HayBase`, `DumpDurable`). Nothing in the code says that the taken blocks are a prefix of
the disk, and everything rests on it: the search for a run may start anywhere, but files are never deleted and
the bits on disk, in memory and those of a request stopped by a death all grow from the same end.
`InvDump` says which writes the request has done at each of its steps.

`Buffers_proofs` proves that fields of any length are extracted as they were added, that a
packet at the head of a stream is received whole and nothing after it is touched, unless its buffer is
empty (the `recv` of no bytes gives 0, and `recv_buffer` takes that for the end and exits the process), and that `Campos` and
`Campo`, which `CicloCpu` uses for a whole buffer, are what the calls one by one compute.

Only model-checked: the refinement
and `HiloDevuelto` of `CicloCpu`; the liveness of each system, which is out of the
prover's reach with ENABLED and fairness. What a recursive definition computes for every input is proved only where
the least-element lemma serves (the folds of `Particiones`).

Three threads, more than a run can afford, showed one state that the first form of `SinDespertarPerdido` forgot: a spare post puts
on the CPU a thread whose process a failed dump then takes apart, and the syscall it had asked
for never posts. memoria ends at that thread's next instruction, and the property now says so.

## 6. Not modelled

Configuration, opening sockets and their loss (channels are FIFO queues; `Buffers` has the
layout of what they carry), logging, the diagnostics of `choclo`, reading pseudocode files
(`Programa` and the syscalls of `Despacho` stand for them), the arguments of the syscalls
other than those of `CicloCpu`, I/O errors of the filesystem, and the hand-run test programs.

What could still be proved: the refinement of `MaquinaDeHilos` by `CicloCpu`.
