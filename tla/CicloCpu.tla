------------------------------- MODULE CicloCpu -------------------------------
(***************************************************************************)
(* The CPU, instruction by instruction, and what memoria serves it:        *)
(* contexts, instructions and words of the user memory.                    *)
(*                                                                         *)
(* Actors:                                                                 *)
(*   the CPU's dispatch thread (fase): init_contexto, the instruction      *)
(*     cycle, manejo_desalojo, delete_contexto;                            *)
(*   its memoria thread, which fills the context and posts the semaphores  *)
(*     the first one waits in;                                             *)
(*   its interrupt thread: interrupt_manager and the answers of syscalls;  *)
(*   memoria's thread for the CPU, and one that serves a dump request;     *)
(*   the kernel, as far as the CPU can tell: it sends threads, answers     *)
(*     syscalls and interrupts whoever it has in EXEC.  Which thread, when *)
(*     and whether a lock blocks are Despacho's and Hilos' business: any   *)
(*     choice here.                                                        *)
(* Programs are a few instructions; words and bytes are small.             *)
(***************************************************************************)
EXTENDS Naturals, Sequences, FiniteSets, Buffers

CONSTANTS
  Hilos,            \* <<pid, tid>> of the threads, all of them created
  Programa,         \* the instructions of each: records [op, a, b, n]
  Generales,        \* the general registers in use, in the order of t_contexto
  Base, Limite,     \* partition of each process
  TamMemoria,       \* bytes of espacio_usuario
  Celda,            \* values of a byte
  BytesPorPalabra,  \* sizeof(uint32_t)
  MaxInterrupciones \* bound: quantum interrupts in socket_cpu_interrupt

\* What the i-th byte of a word is multiplied by; a word is less than Palabra.
Peso[i \in 1..(BytesPorPalabra + 1)] == IF i = 1 THEN 1 ELSE Celda * Peso[i - 1]
Palabra == Peso[BytesPorPalabra + 1]
Nadie   == <<>>
Pids    == {h[1] : h \in Hilos}
DelProceso(p) == {h \in Hilos : h[1] = p}
NombresGenerales == {Generales[i] : i \in 1..Len(Generales)}
Nombres == NombresGenerales \cup {"PC", "BASE", "LIMITE"}
Direcciones == 0..(TamMemoria - 1)

ASSUME CicloConstantes ==
  /\ Hilos \subseteq Nat \X Nat
  /\ Programa \in [Hilos -> Seq([op : STRING, a : STRING, b : STRING, n : 0..(Palabra - 1)])]
  /\ Generales \in Seq(STRING)
  /\ \A i, j \in 1..Len(Generales) : Generales[i] = Generales[j] => i = j
  /\ NombresGenerales \cap {"PC", "BASE", "LIMITE"} = {}
  /\ Base \in [Pids -> Nat] /\ Limite \in [Pids -> Nat]
  /\ Celda \in Nat \ {0, 1} /\ BytesPorPalabra \in Nat \ {0}
  /\ \A p \in Pids : Base[p] <= Limite[p] /\ Limite[p] + BytesPorPalabra < TamMemoria
  /\ TamMemoria \in Nat /\ TamMemoria < Palabra
  /\ MaxInterrupciones \in Nat

\* Positions in op_code of the messages on socket_cpu_dispatch; MENSAJE is 0.
Codigos == <<"MENSAJE", "DESALOJO_SYSCALL", "DUMP_MEMORY", "ERROR", "MUTEX_LOCK", "PROCESS_EXIT",
             "THREAD_EXIT">>
Codigo(o) == (CHOOSE k \in 1..Len(Codigos) : Codigos[k] = o) - 1

VARIABLES
  fase,       \* where the CPU's dispatch thread is; it ends the CPU in
              \* "nulo" by the NULL of an unknown register, in "caida" by that of a name
  hilo,       \* contexto->proceso_pid and _tid; Nadie once freed
  contexto,   \* its registers
  instr,      \* instruccion_actual
  valorLectura, desalojar, motivo, syscallBloquea,
  sem,        \* the semaphores the dispatch thread waits in
  interruptFlag,
  nombre,     \* contexto_interrupt->interrupt_name is not NULL
  deQuien,    \* contexto_interrupt->interrupt_pid and _tid
  mano,       \* the thread interrupt_manager has let through
  cruzada,    \* the contexto, or the one before, went under interrupt_manager; for properties
  cm, mc,     \* socket_memoria, both ways
  dispKC, intKC, dispCK, intCK,   \* the sockets of the kernel
  exec, listos, bloqueados, terminados,   \* the kernel's lists, as sets
  dump,       \* the dump request the kernel waits for
  ctx,        \* memoria: the saved registers of each thread
  espacio,    \* memoria: espacio_usuario
  vivos,      \* memoria: the threads it has
  servicio,   \* memoria: its thread for the CPU is between the two halves of a search
  pidBuscado, \* memoria: search_pid_value, global
  memoriaViva,
  cruce       \* two searches of memoria have overlapped; for properties

cpuVars  == <<fase, hilo, contexto, instr, valorLectura, desalojar, motivo, syscallBloquea, sem>>
intVars  == <<interruptFlag, nombre, deQuien, mano, cruzada>>
kernVars == <<exec, listos, bloqueados, terminados>>
memVars  == <<dump, ctx, espacio, vivos, servicio, pidBuscado, memoriaViva, cruce>>
vars == <<cpuVars, intVars, cm, mc, dispKC, intKC, dispCK, intCK, kernVars, memVars>>

EnCero == [r \in Nombres |-> 0]
SinInstr == [op |-> "NADA", a |-> "", b |-> "", n |-> 0]

\* main and init_sem; crear_tid gives a new thread registers in zero.
Init ==
  /\ fase = "libre" /\ hilo = Nadie /\ contexto = EnCero /\ instr = SinInstr
  /\ valorLectura = 0 /\ desalojar = FALSE /\ motivo = "MENSAJE" /\ syscallBloquea = FALSE
  /\ sem = [s \in {"contexto", "fetch", "lectura", "escritura", "retorno"} |-> 0]
  /\ interruptFlag = FALSE /\ nombre = FALSE /\ deQuien = Nadie
  /\ mano = Nadie /\ cruzada = FALSE
  /\ cm = <<>> /\ mc = <<>>
  /\ dispKC = <<>> /\ intKC = <<>> /\ dispCK = <<>> /\ intCK = <<>>
  /\ exec = Nadie /\ listos = Hilos /\ bloqueados = {} /\ terminados = {}
  /\ dump = [paso |-> "no", hilo |-> Nadie]
  /\ ctx = [h \in Hilos |-> [r \in NombresGenerales \cup {"PC"} |-> 0]]
  /\ espacio = [x \in Direcciones |-> 0]
  /\ vivos = Hilos /\ servicio = FALSE /\ pidBuscado = 0
  /\ memoriaViva = TRUE /\ cruce = FALSE

Mensaje(o, b) == [op |-> o, buffer |-> b]
HiloDe(b)     == <<Campo(b, 1), Campo(b, 2)>>
Wait(s) == sem[s] > 0 /\ sem' = [sem EXCEPT ![s] = @ - 1]
Post(s) == sem' = [sem EXCEPT ![s] = @ + 1]
APedir(o, vs) == cm' = Append(cm, Mensaje(o, Campos(hilo \o vs)))
AlKernel(o, vs) == dispCK' = dispCK \o Serializar(Codigo(o), Campos(vs))

-----------------------------------------------------------------------------
(* Loading a context *)

\* init_contexto, as far as the names of the thread ...
Recibir ==
  /\ fase = "libre" /\ dispKC # <<>>
  /\ dispKC' = Tail(dispKC)
  /\ hilo' = HiloDe(Head(dispKC).buffer)
  /\ cruzada' = (cruzada \/ mano # Nadie)
  /\ fase' = "nace"
  /\ UNCHANGED <<contexto, instr, valorLectura, desalojar, motivo, syscallBloquea, sem,
                 interruptFlag, nombre, deQuien, mano, cm, mc, intKC, dispCK, intCK, kernVars,
                 memVars>>

\* ... the empty interrupt and the request to memoria ...
PedirContexto ==
  /\ fase = "nace"
  /\ nombre' = FALSE /\ deQuien' = Nadie
  /\ cruzada' = (cruzada \/ mano # Nadie \/ nombre)
  /\ APedir("PEDIDO_CONTEXTO_CM", <<>>)
  /\ fase' = "contexto"
  /\ UNCHANGED <<hilo, contexto, instr, valorLectura, desalojar, motivo, syscallBloquea, sem,
                 interruptFlag, mano, mc, dispKC, intKC, dispCK, intCK, kernVars, memVars>>

\* fetch asks for the instruction before it waits for it.
Fetch == APedir("PEDIDO_INSTRUCCION", <<contexto["PC"]>>) /\ fase' = "fetch"

\* ... and the wait, after which the cycle begins.
ContextoListo ==
  /\ fase = "contexto" /\ Wait("contexto")
  /\ Fetch
  /\ UNCHANGED <<hilo, contexto, instr, valorLectura, desalojar, motivo, syscallBloquea, intVars,
                 mc, dispKC, intKC, dispCK, intCK, kernVars, memVars>>

-----------------------------------------------------------------------------
(* The instruction cycle *)

\* decode_instruction posts what execute_instruction waits for: one step.
Ejecuta(op) == fase = "fetch" /\ Wait("fetch") /\ instr.op = op

Conocido(r)   == r \in Nombres   \* detectar_registro does not give NULL
MasPC(n)      == [contexto EXCEPT !["PC"] = (@ + n) % Palabra]
Errar(m)      == desalojar' = TRUE /\ motivo' = m
SinErrar      == UNCHANGED <<desalojar, motivo>>
Quieto        == UNCHANGED <<hilo, instr, valorLectura, syscallBloquea, intVars, mc, dispKC,
                             intKC, intCK, kernVars, memVars>>

EjecutarSet ==
  /\ Ejecuta("SET")
  /\ IF Conocido(instr.a)
     THEN contexto' = [MasPC(1) EXCEPT ![instr.a] = instr.n] /\ SinErrar
     ELSE contexto' = MasPC(1) /\ Errar("ERROR_EXC")
  /\ fase' = "chequea"
  /\ Quieto /\ UNCHANGED <<cm, dispCK>>

Mas(x, y)   == (x + y) % Palabra
Menos(x, y) == (Palabra + x - y) % Palabra
Operar(op, x, y) == IF op = "SUM" THEN Mas(x, y) ELSE Menos(x, y)

\* SUM and SUB: an unknown register in both operands is an error, in one of
\* them the read of a NULL.
EjecutarSuma(op) ==
  /\ Ejecuta(op)
  /\ contexto' = IF {instr.a, instr.b} \subseteq Nombres
                 THEN [MasPC(1) EXCEPT ![instr.a] = Operar(op, @, MasPC(1)[instr.b])]
                 ELSE MasPC(1)
  /\ IF {instr.a, instr.b} \subseteq Nombres THEN SinErrar ELSE Errar("ERROR_EXC")
  /\ fase' = IF Conocido(instr.a) # Conocido(instr.b) THEN "nulo" ELSE "chequea"
  /\ Quieto /\ UNCHANGED <<cm, dispCK>>

EjecutarJnz ==
  /\ Ejecuta("JNZ")
  /\ IF Conocido(instr.a)
     THEN /\ contexto' = IF contexto[instr.a] # 0 THEN [contexto EXCEPT !["PC"] = instr.n]
                         ELSE MasPC(1)
          /\ SinErrar
     ELSE UNCHANGED contexto /\ Errar("ERROR_EXC")
  /\ fase' = "chequea"
  /\ Quieto /\ UNCHANGED <<cm, dispCK>>

\* LOG reads whatever detectar_registro gives.
EjecutarLog ==
  /\ Ejecuta("LOG")
  /\ contexto' = MasPC(1)
  /\ IF Conocido(instr.a) THEN fase' = "chequea" /\ SinErrar
                          ELSE fase' = "nulo" /\ Errar("ERROR_EXC")
  /\ Quieto /\ UNCHANGED <<cm, dispCK>>

\* mmu: -1 is the largest word.
Invalida == Palabra - 1
Mmu(c, l) ==
  IF l <= Menos((c["LIMITE"] + 1) % Palabra, c["BASE"]) THEN Mas(c["BASE"], l) ELSE Invalida

\* READ_MEM and WRITE_MEM send the physical address and wait, or fail in mmu.
\* They read the register of the address before they ask mmu, whatever
\* detectar_registro gave, and WRITE_MEM the other one after.
SegunRegistro(r) == IF Conocido(r) THEN SinErrar ELSE Errar("ERROR_EXC")

EjecutarReadMem ==
  /\ Ejecuta("READ_MEM")
  /\ contexto' = MasPC(1)
  /\ LET d == Mmu(contexto', contexto'[instr.b])
     IN  IF ~Conocido(instr.b)
         THEN UNCHANGED cm /\ fase' = "nulo" /\ Errar("ERROR_EXC")
         ELSE IF d # Invalida
         THEN APedir("PEDIDO_LECTURA_CM", <<d>>) /\ fase' = "lee" /\ SegunRegistro(instr.a)
         ELSE UNCHANGED cm /\ fase' = "chequea" /\ Errar("ERROR_SEGFAULT")
  /\ Quieto /\ UNCHANGED dispCK

EjecutarWriteMem ==
  /\ Ejecuta("WRITE_MEM")
  /\ contexto' = MasPC(1)
  /\ LET d == Mmu(contexto', contexto'[instr.a])
     IN  IF ~Conocido(instr.a) \/ (d # Invalida /\ ~Conocido(instr.b))
         THEN UNCHANGED cm /\ fase' = "nulo" /\ Errar("ERROR_EXC")
         ELSE IF d # Invalida
         THEN APedir("PEDIDO_ESCRITURA_CM", <<contexto'[instr.b], d>>) /\ fase' = "escribe"
              /\ SinErrar
         ELSE UNCHANGED cm /\ fase' = "chequea" /\ Errar("ERROR_SEGFAULT")
  /\ Quieto /\ UNCHANGED dispCK

\* if(valor_lectura != NULL), and then the register is written, known or not.
LecturaLista ==
  /\ fase = "lee" /\ Wait("lectura")
  /\ contexto' = IF valorLectura # 0 /\ Conocido(instr.a)
                 THEN [contexto EXCEPT ![instr.a] = valorLectura] ELSE contexto
  /\ fase' = IF valorLectura # 0 /\ ~Conocido(instr.a) THEN "nulo" ELSE "chequea"
  /\ Quieto /\ UNCHANGED <<desalojar, motivo, cm, dispCK>>

EscrituraLista ==
  /\ fase = "escribe" /\ Wait("escritura")
  /\ fase' = "chequea"
  /\ Quieto /\ UNCHANGED <<contexto, desalojar, motivo, cm, dispCK>>

-----------------------------------------------------------------------------
(* Syscalls and evictions *)

\* create_super_pck_desalojo: pid, tid, PC, the general registers, BASE, LIMITE.
Orden == <<"PC">> \o Generales \o <<"BASE", "LIMITE">>
Guardar(o, c) == APedir(o, [i \in 1..Len(Orden) |-> c[Orden[i]]])

\* envios_desalojo: the context to memoria, then the syscall to the kernel.
EnviosDesalojo(om, o, c) == Guardar(om, c) /\ AlKernel(o, hilo)

\* Mutant: PC is advanced after the context has been sent.
GuardarSinAvanzar ==
  /\ \E o \in {"MUTEX_LOCK", "DUMP_MEMORY", "THREAD_EXIT"} :
       /\ Ejecuta(o)
       /\ contexto' = MasPC(1)
       /\ EnviosDesalojo("DESALOJO_INSTRUCCION_CM", o, contexto)
  /\ fase' = "retorno" /\ SinErrar
  /\ Quieto

EjecutarSyscall ==
  /\ \E o \in {"MUTEX_LOCK", "DUMP_MEMORY", "THREAD_EXIT"} :
       /\ Ejecuta(o)
       /\ contexto' = MasPC(1)
       /\ EnviosDesalojo("DESALOJO_INSTRUCCION_CM", o, contexto')
  /\ fase' = "retorno" /\ SinErrar
  /\ Quieto

\* PROCESS_EXIT does not advance PC before: a thread that is not the main one
\* goes on, and then it does.
EjecutarProcessExit ==
  /\ Ejecuta("PROCESS_EXIT")
  /\ EnviosDesalojo("DESALOJO_INSTRUCCION_CM", "PROCESS_EXIT", contexto)
  /\ fase' = "retorno" /\ SinErrar
  /\ Quieto /\ UNCHANGED contexto

\* Mutant: the answer is awaited without taking the post.
RetornarSinTomar ==
  /\ fase = "retorno" /\ sem["retorno"] > 0 /\ UNCHANGED sem
  /\ IF syscallBloquea THEN Errar("DESALOJO_SYSCALL") ELSE SinErrar
  /\ contexto' = IF instr.op = "PROCESS_EXIT" /\ ~syscallBloquea THEN MasPC(1) ELSE contexto
  /\ fase' = "chequea"
  /\ Quieto /\ UNCHANGED <<cm, dispCK>>

Retornar ==
  /\ fase = "retorno" /\ Wait("retorno")
  /\ IF syscallBloquea THEN Errar("DESALOJO_SYSCALL") ELSE SinErrar
  /\ contexto' = IF instr.op = "PROCESS_EXIT" /\ ~syscallBloquea THEN MasPC(1) ELSE contexto
  /\ fase' = "chequea"
  /\ Quieto /\ UNCHANGED <<cm, dispCK>>

\* check_interrupt, and the test of the loop.
CheckInterrupt ==
  /\ fase = "chequea"
  /\ desalojar' = (desalojar \/ interruptFlag)
  /\ IF desalojar' THEN fase' = "desaloja" /\ UNCHANGED cm ELSE Fetch
  /\ UNCHANGED <<hilo, contexto, instr, valorLectura, motivo, syscallBloquea, sem, intVars, mc,
                 dispKC, intKC, dispCK, intCK, kernVars, memVars>>

PorInterrupcion == interruptFlag /\ ~syscallBloquea
Desaloja == fase = "desaloja" /\ desalojar /\ UNCHANGED desalojar

\* manejo_desalojo: the interrupt first, whose name strcmp reads; then syscalls
\* and errors.
DesalojarPorQuantum ==
  /\ Desaloja /\ PorInterrupcion
  /\ IF nombre
     THEN /\ motivo' = "DESALOJO_INTR"
          /\ Guardar("DESALOJO_INTR", contexto)
          /\ intCK' = Append(intCK, Mensaje("DESALOJO_QUANTUM", Campos(hilo)))
          /\ fase' = "borra"
     ELSE fase' = "caida" /\ UNCHANGED <<motivo, cm, intCK>>
  /\ UNCHANGED <<hilo, contexto, instr, valorLectura, syscallBloquea, sem, intVars, mc, dispKC,
                 intKC, dispCK, kernVars, memVars>>

\* The notice has an empty buffer: an op code and a zero.
DesalojarPorSyscall ==
  /\ Desaloja /\ ~PorInterrupcion /\ motivo = "DESALOJO_SYSCALL"
  /\ AlKernel("DESALOJO_SYSCALL", <<>>)
  /\ fase' = "borra"
  /\ Quieto /\ UNCHANGED <<contexto, motivo, sem, cm>>

\* envios_desalojo again: it waits for an answer to the error.
DesalojarPorError ==
  /\ Desaloja /\ ~PorInterrupcion /\ motivo \in {"ERROR_EXC", "ERROR_SEGFAULT"}
  /\ EnviosDesalojo("DESALOJO_ERROR_CM", "ERROR", contexto)
  /\ fase' = "error"
  /\ Quieto /\ UNCHANGED <<contexto, motivo, sem>>

\* Mutant: interruptFlag stays up.
BorrarSinBajarInterrupcion ==
  /\ fase = "borra"
  /\ hilo' = Nadie /\ contexto' = EnCero /\ nombre' = FALSE /\ deQuien' = Nadie
  /\ desalojar' = FALSE /\ syscallBloquea' = FALSE
  /\ cruzada' = (mano # Nadie)
  /\ fase' = "libre"
  /\ UNCHANGED <<interruptFlag, instr, valorLectura, motivo, sem, mano, cm, mc, dispKC, intKC,
                 dispCK, intCK, kernVars, memVars>>

\* delete_contexto; nothing reads the registers it frees.
DeleteContexto ==
  /\ fase = "borra"
  /\ hilo' = Nadie /\ contexto' = EnCero /\ nombre' = FALSE /\ deQuien' = Nadie
  /\ interruptFlag' = FALSE /\ desalojar' = FALSE /\ syscallBloquea' = FALSE
  /\ cruzada' = (mano # Nadie)
  /\ fase' = "libre"
  /\ UNCHANGED <<instr, valorLectura, motivo, sem, mano, cm, mc, dispKC, intKC, dispCK, intCK,
                 kernVars, memVars>>

Ciclo ==
  \/ Recibir \/ PedirContexto \/ ContextoListo
  \/ EjecutarSet \/ EjecutarSuma("SUM") \/ EjecutarSuma("SUB")
  \/ EjecutarJnz \/ EjecutarLog \/ EjecutarReadMem \/ EjecutarWriteMem
  \/ LecturaLista \/ EscrituraLista
  \/ EjecutarSyscall \/ EjecutarProcessExit \/ Retornar \/ CheckInterrupt
  \/ DesalojarPorQuantum \/ DesalojarPorSyscall \/ DesalojarPorError \/ DeleteContexto

-----------------------------------------------------------------------------
(* The CPU's memoria thread: attend_cpu_memoria *)

Viva     == fase \notin {"caida", "nulo"}
Llega(o) == Viva /\ mc # <<>> /\ Head(mc).op = o /\ mc' = Tail(mc)
QuedaCpu == UNCHANGED <<fase, hilo, desalojar, motivo, syscallBloquea, intVars, cm, dispKC,
                        intKC, dispCK, intCK, kernVars, memVars>>

RecvContexto ==
  /\ Llega("RESPUESTA_CONTEXTO_CM")
  /\ contexto' = [r \in Nombres |->
                    Campo(Head(mc).buffer, CHOOSE k \in 1..Len(Orden) : Orden[k] = r)]
  /\ Post("contexto")
  /\ QuedaCpu /\ UNCHANGED <<instr, valorLectura>>

RecvInstruction ==
  /\ Llega("RESPUESTA_INSTRUCCION")
  /\ instr' = Campo(Head(mc).buffer, 1)
  /\ Post("fetch")
  /\ QuedaCpu /\ UNCHANGED <<contexto, valorLectura>>

\* Mutant: the answer to a read posts nothing.
RecvLecturaSinPost ==
  /\ Llega("RTA_PEDIDO_LECTURA_CM")
  /\ valorLectura' = Campo(Head(mc).buffer, 1)
  /\ QuedaCpu /\ UNCHANGED <<contexto, instr, sem>>

RecvLectura ==
  /\ Llega("RTA_PEDIDO_LECTURA_CM")
  /\ valorLectura' = Campo(Head(mc).buffer, 1)
  /\ Post("lectura")
  /\ QuedaCpu /\ UNCHANGED <<contexto, instr>>

\* if (RTA == 1)
RecvEscritura ==
  /\ Llega("RTA_PEDIDO_ESCRITURA_CM") /\ Campo(Head(mc).buffer, 1) = 1
  /\ Post("escritura")
  /\ QuedaCpu /\ UNCHANGED <<contexto, instr, valorLectura>>

\* Nobody waits for this one.
RecvActualizado ==
  /\ Llega("RTA_ACTUALIZAR_CONTEXTO_CM")
  /\ QuedaCpu /\ UNCHANGED <<contexto, instr, valorLectura, sem>>

Respuestas == RecvContexto \/ RecvInstruction \/ RecvLectura \/ RecvEscritura \/ RecvActualizado

-----------------------------------------------------------------------------
(* The CPU's interrupt thread *)

LlegaInt(o) == Viva /\ intKC # <<>> /\ Head(intKC).op = o /\ intKC' = Tail(intKC)
QuedaInt == UNCHANGED <<fase, hilo, contexto, instr, valorLectura, desalojar, motivo, cruzada, cm,
                        mc, dispKC, dispCK, intCK, kernVars, memVars>>

AtenderRespuesta ==
  /\ mano = Nadie /\ LlegaInt("FINALIZACION_SYSCALL")
  /\ syscallBloquea' = (Campo(Head(intKC).buffer, 1) = 0)
  /\ Post("retorno")
  /\ QuedaInt /\ UNCHANGED <<interruptFlag, nombre, deQuien, mano>>

\* interrupt_manager compares the names with those of contexto, under no mutex.
\* A freed contexto begins with what the allocator writes: no thread's names.
InterrupcionMira ==
  /\ mano = Nadie /\ LlegaInt("DESALOJO_POR_QUANTUM")
  /\ LET h == HiloDe(Head(intKC).buffer) IN mano' = IF h = hilo THEN h ELSE Nadie
  /\ QuedaInt /\ UNCHANGED <<interruptFlag, nombre, deQuien, syscallBloquea, sem>>

\* Then it writes the interrupt to the contexto_interrupt of now, if there is one,
\* and raises the flag.
InterrupcionMarca ==
  /\ Viva /\ mano # Nadie /\ mano' = Nadie
  /\ IF hilo # Nadie THEN nombre' = TRUE /\ deQuien' = mano
                     ELSE UNCHANGED <<nombre, deQuien>>
  /\ interruptFlag' = TRUE
  /\ QuedaInt /\ UNCHANGED <<intKC, syscallBloquea, sem>>

Avisos == AtenderRespuesta \/ InterrupcionMira \/ InterrupcionMarca

-----------------------------------------------------------------------------
(* memoria *)

Pedido    == Head(cm)
HiloPedido == HiloDe(Pedido.buffer)
Busca     == Pedido.op \notin {"PEDIDO_LECTURA_CM", "PEDIDO_ESCRITURA_CM"}
QuedaMem  == UNCHANGED <<cpuVars, intVars, dispKC, intKC, dispCK, intCK, kernVars, dump>>
Contesta(o, vs) == mc' = Append(mc, Mensaje(o, Campos(vs))) /\ cm' = Tail(cm)
Mia       == memoriaViva /\ cm # <<>>

\* search_process_for leaves the pid in a global before it takes the mutex.
BuscarProceso ==
  /\ Mia /\ Busca /\ ~servicio
  /\ servicio' = TRUE
  /\ pidBuscado' = HiloPedido[1]
  /\ cruce' = (cruce \/ dump.paso = "busca")
  /\ QuedaMem /\ UNCHANGED <<cm, mc, ctx, espacio, vivos, memoriaViva>>

\* The thread list_find gives: of whatever process the global names by now.
Hallado == <<pidBuscado, HiloPedido[2]>>
Halla(ops) ==
  /\ Mia /\ servicio /\ Pedido.op \in ops /\ Hallado \in vivos
  /\ servicio' = FALSE

\* Mutant: the limit goes before the base.
PedidoContextoAlReves ==
  /\ Halla({"PEDIDO_CONTEXTO_CM"})
  /\ LET c == ctx[Hallado]
     IN  Contesta("RESPUESTA_CONTEXTO_CM",
                  <<c["PC"]>> \o [i \in 1..Len(Generales) |-> c[Generales[i]]]
                    \o <<Limite[pidBuscado], Base[pidBuscado]>>)
  /\ QuedaMem /\ UNCHANGED <<ctx, espacio, vivos, pidBuscado, memoriaViva, cruce>>

PedidoContexto ==
  /\ Halla({"PEDIDO_CONTEXTO_CM"})
  /\ LET c == ctx[Hallado]
     IN  Contesta("RESPUESTA_CONTEXTO_CM",
                  <<c["PC"]>> \o [i \in 1..Len(Generales) |-> c[Generales[i]]]
                    \o <<Base[pidBuscado], Limite[pidBuscado]>>)
  /\ QuedaMem /\ UNCHANGED <<ctx, espacio, vivos, pidBuscado, memoriaViva, cruce>>

\* actualizar_contexto does not read the last two fields.
ActualizarContexto ==
  /\ Halla({"DESALOJO_INTR", "DESALOJO_INSTRUCCION_CM", "DESALOJO_ERROR_CM"})
  /\ ctx' = [ctx EXCEPT ![Hallado] =
              [r \in DOMAIN ctx[Hallado] |->
                 Campo(Pedido.buffer, 2 + CHOOSE k \in 1..Len(Orden) : Orden[k] = r)]]
  /\ Contesta("RTA_ACTUALIZAR_CONTEXTO_CM", <<1>>)
  /\ QuedaMem /\ UNCHANGED <<espacio, vivos, pidBuscado, memoriaViva, cruce>>

PcPedido == Campo(Pedido.buffer, 3)
PedidoInstruccion ==
  /\ Halla({"PEDIDO_INSTRUCCION"}) /\ PcPedido < Len(Programa[Hallado])
  /\ Contesta("RESPUESTA_INSTRUCCION", <<Programa[Hallado][PcPedido + 1]>>)
  /\ QuedaMem /\ UNCHANGED <<ctx, espacio, vivos, pidBuscado, memoriaViva, cruce>>

\* search_process_for, search_thread_for and pedido_instruccion end memoria.
NoEncontrado ==
  /\ Mia /\ servicio
  /\ Hallado \in vivos => Pedido.op = "PEDIDO_INSTRUCCION" /\ PcPedido >= Len(Programa[Hallado])
  /\ memoriaViva' = FALSE
  /\ QuedaMem /\ UNCHANGED <<cm, mc, ctx, espacio, vivos, servicio, pidBuscado, cruce>>

\* memcpy of a word, whose first byte is the lowest.
PalabraEn(e, d) ==
  LET valor[i \in 1..BytesPorPalabra] ==
        IF i = 1 THEN e[d + BytesPorPalabra - 1]
        ELSE Celda * valor[i - 1] + e[d + BytesPorPalabra - i]
  IN  valor[BytesPorPalabra]

ReadFromDir ==
  /\ Mia /\ Pedido.op = "PEDIDO_LECTURA_CM"
  /\ Contesta("RTA_PEDIDO_LECTURA_CM", <<PalabraEn(espacio, Campo(Pedido.buffer, 3))>>)
  /\ QuedaMem /\ UNCHANGED <<ctx, espacio, vivos, servicio, pidBuscado, memoriaViva, cruce>>

ConPalabra(e, d, v) ==
  [x \in Direcciones |->
     IF d <= x /\ x < d + BytesPorPalabra THEN (v \div Peso[x - d + 1]) % Celda ELSE e[x]]

WriteInDir ==
  /\ Mia /\ Pedido.op = "PEDIDO_ESCRITURA_CM"
  /\ espacio' = ConPalabra(espacio, Campo(Pedido.buffer, 4), Campo(Pedido.buffer, 3))
  /\ Contesta("RTA_PEDIDO_ESCRITURA_CM", <<1>>)
  /\ QuedaMem /\ UNCHANGED <<ctx, vivos, servicio, pidBuscado, memoriaViva, cruce>>

\* dumpear_memoria, in a thread of its own, searches through the same global.
QuedaDump == UNCHANGED <<cpuVars, intVars, cm, mc, dispKC, intKC, dispCK, intCK, exec,
                         terminados, ctx, espacio, vivos, servicio>>
DumpBusca ==
  /\ memoriaViva /\ dump.paso = "pedido"
  /\ dump' = [dump EXCEPT !.paso = "busca"]
  /\ pidBuscado' = dump.hilo[1]
  /\ cruce' = (cruce \/ servicio)
  /\ QuedaDump /\ UNCHANGED <<listos, bloqueados, memoriaViva>>

\* Its answer lets the kernel ready the thread.
DumpResponde ==
  /\ memoriaViva /\ dump.paso = "busca"
  /\ memoriaViva' = (DelProceso(pidBuscado) \cap vivos # {})
  /\ dump' = [paso |-> "no", hilo |-> Nadie]
  /\ bloqueados' = bloqueados \ {dump.hilo} /\ listos' = listos \cup {dump.hilo}
  /\ QuedaDump /\ UNCHANGED <<pidBuscado, cruce>>

MemoriaCpu == BuscarProceso \/ PedidoContexto \/ ActualizarContexto \/ PedidoInstruccion
              \/ NoEncontrado \/ ReadFromDir \/ WriteInDir
MemoriaDump == DumpBusca \/ DumpResponde

-----------------------------------------------------------------------------
(* The kernel, as the CPU sees it *)

QuedaKernel == UNCHANGED <<cpuVars, intVars, cm, mc, ctx, espacio, servicio, pidBuscado,
                           memoriaViva, cruce>>

KernelDespacha(h) ==
  /\ exec = Nadie /\ h \in listos
  /\ exec' = h /\ listos' = listos \ {h}
  /\ dispKC' = Append(dispKC, Mensaje("EJECUTAR_HILO", Campos(h)))
  /\ QuedaKernel /\ UNCHANGED <<bloqueados, terminados, intKC, dispCK, intCK, dump, vivos>>

Interrupciones == {i \in 1..Len(intKC) : intKC[i].op = "DESALOJO_POR_QUANTUM"}
KernelInterrumpe ==
  /\ exec # Nadie /\ Cardinality(Interrupciones) < MaxInterrupciones
  /\ intKC' = Append(intKC, Mensaje("DESALOJO_POR_QUANTUM", Campos(exec)))
  /\ QuedaKernel /\ UNCHANGED <<kernVars, dispKC, dispCK, intCK, dump, vivos>>

\* attend_kernel_cpu_dispatch waits inside the handler of a dump.
Recibe(o) == dump.paso = "no" /\ dispCK # <<>> /\ RecvOp(dispCK) = Codigo(o)
RecibeDe(o, h) ==
  /\ Recibe(o) /\ h = HiloDe(RecvBuffer(dispCK))
  /\ dispCK' = TrasBuffer(dispCK)
Contestar(v) == intKC' = Append(intKC, Mensaje("FINALIZACION_SYSCALL", Campos(<<v>>)))
SinExec == exec' = Nadie

\* The handler of DESALOJO_SYSCALL reads no buffer; MENSAJE is ignored.
KernelSinBuffer ==
  /\ Recibe("DESALOJO_SYSCALL") \/ Recibe("MENSAJE")
  /\ dispCK' = TrasOp(dispCK)
  /\ QuedaKernel /\ UNCHANGED <<kernVars, dispKC, intKC, intCK, dump, vivos>>

\* Any syscall that may block: the thread goes on ...
KernelSigue(h) ==
  /\ \/ RecibeDe("MUTEX_LOCK", h)
     \/ RecibeDe("PROCESS_EXIT", h) /\ h[2] # 0
  /\ Contestar(1)
  /\ QuedaKernel /\ UNCHANGED <<kernVars, dispKC, intCK, dump, vivos>>

\* ... or waits.
KernelBloquea(h) ==
  /\ RecibeDe("MUTEX_LOCK", h)
  /\ SinExec /\ bloqueados' = bloqueados \cup {h} /\ Contestar(0)
  /\ QuedaKernel /\ UNCHANGED <<listos, terminados, dispKC, intCK, dump, vivos>>

KernelDesbloquea(h) ==
  /\ h \in bloqueados /\ dump.hilo # h
  /\ bloqueados' = bloqueados \ {h} /\ listos' = listos \cup {h}
  /\ QuedaKernel /\ UNCHANGED <<exec, terminados, dispKC, intKC, dispCK, intCK, dump, vivos>>

KernelDump(h) ==
  /\ RecibeDe("DUMP_MEMORY", h)
  /\ SinExec /\ bloqueados' = bloqueados \cup {h} /\ Contestar(0)
  /\ dump' = [paso |-> "pedido", hilo |-> h]
  /\ QuedaKernel /\ UNCHANGED <<listos, terminados, dispKC, intCK, vivos>>

\* memoria forgets the threads before the kernel answers.
Terminar(S) ==
  /\ SinExec
  /\ terminados' = terminados \cup S /\ vivos' = vivos \ S
  /\ listos' = listos \ S /\ bloqueados' = bloqueados \ S

\* Mutant: the thread that ended is told to go on.
ExitRespondeQueSiga(h) ==
  /\ RecibeDe("THREAD_EXIT", h) /\ Terminar({h}) /\ Contestar(1)
  /\ QuedaKernel /\ UNCHANGED <<dispKC, intCK, dump>>

KernelThreadExit(h) ==
  /\ RecibeDe("THREAD_EXIT", h) /\ Terminar({h}) /\ Contestar(0)
  /\ QuedaKernel /\ UNCHANGED <<dispKC, intCK, dump>>

KernelProcessExit(h) ==
  /\ RecibeDe("PROCESS_EXIT", h) /\ h[2] = 0
  /\ Terminar(DelProceso(h[1])) /\ Contestar(0)
  /\ QuedaKernel /\ UNCHANGED <<dispKC, intCK, dump>>

\* The handlers of the errors answer nothing.
KernelError(h) ==
  /\ RecibeDe("ERROR", h)
  /\ Terminar(DelProceso(h[1]))
  /\ QuedaKernel /\ UNCHANGED <<dispKC, intKC, intCK, dump>>

KernelQuantum ==
  /\ intCK # <<>> /\ intCK' = Tail(intCK)
  /\ SinExec /\ listos' = listos \cup {HiloDe(Head(intCK).buffer)}
  /\ QuedaKernel /\ UNCHANGED <<bloqueados, terminados, dispKC, intKC, dispCK, dump, vivos>>

KernelAtiende ==
  \/ KernelSinBuffer
  \/ \E h \in Hilos : KernelSigue(h) \/ KernelBloquea(h) \/ KernelDump(h)
                      \/ KernelThreadExit(h) \/ KernelProcessExit(h) \/ KernelError(h)

Next ==
  \/ Ciclo \/ Respuestas \/ Avisos
  \/ MemoriaCpu \/ MemoriaDump
  \/ KernelInterrumpe \/ KernelAtiende \/ KernelQuantum
  \/ \E h \in Hilos : KernelDespacha(h) \/ KernelDesbloquea(h)

Spec == Init /\ [][Next]_vars

\* Each thread of the CPU and of memoria, and each receiver of the kernel, takes
\* what has come for it sooner or later; what has come stays until it is taken, so
\* it is enough to ask it of all together, the interrupt thread apart, which the
\* kernel can keep busy.  Which thread is sent to the CPU, and when one is
\* interrupted, is left open.
Atiende == Ciclo \/ Respuestas \/ MemoriaCpu \/ MemoriaDump \/ KernelAtiende \/ KernelQuantum
Justicia == WF_vars(Atiende) /\ WF_vars(Avisos)

SpecJusta == Spec /\ Justicia

-----------------------------------------------------------------------------
(* Properties *)

Fases == {"libre", "nace", "contexto", "fetch", "lee", "escribe", "retorno", "chequea",
          "desaloja", "error", "borra", "caida", "nulo"}

\* Semaphores never hold two posts and the registers never leave a word.
TypeOK ==
  /\ fase \in Fases /\ hilo \in Hilos \cup {Nadie}
  /\ contexto \in [Nombres -> 0..(Palabra - 1)]
  /\ valorLectura \in 0..(Palabra - 1)
  /\ sem \in [{"contexto", "fetch", "lectura", "escritura", "retorno"} -> {0, 1}]
  /\ ctx \in [Hilos -> [NombresGenerales \cup {"PC"} -> 0..(Palabra - 1)]]
  /\ espacio \in [Direcciones -> 0..(Celda - 1)]
  /\ exec \in Hilos \cup {Nadie}
  /\ listos \subseteq Hilos /\ bloqueados \subseteq Hilos /\ terminados \subseteq Hilos

\* What the program of h has done so far: the CPU's registers while h is loaded,
\* else those on their way to memoria, else those memoria keeps.
Cargado(h) == hilo = h /\ fase \notin {"nace", "contexto"}
EnCamino(h) ==
  {i \in 1..Len(cm) : /\ cm[i].op \in {"DESALOJO_INTR", "DESALOJO_INSTRUCCION_CM", "DESALOJO_ERROR_CM"}
                      /\ HiloDe(cm[i].buffer) = h}
Guardado(h) ==
  IF EnCamino(h) = {} THEN ctx[h]
  ELSE LET i == CHOOSE i \in EnCamino(h) : \A j \in EnCamino(h) : j <= i
       IN  [r \in DOMAIN ctx[h] |->
              Campo(cm[i].buffer, 2 + CHOOSE k \in 1..Len(Orden) : Orden[k] = r)]
PcDe(h) == IF ~Cargado(h) THEN Guardado(h)["PC"]
           ELSE IF fase = "lee" THEN contexto["PC"] - 1 ELSE contexto["PC"]
RegDe(h) == [r \in NombresGenerales |-> IF Cargado(h) THEN contexto[r] ELSE Guardado(h)[r]]
EstadoDe(h) ==
  IF h \in terminados THEN "fin"
  ELSE IF hilo # h THEN "corre"
  ELSE IF fase = "retorno" /\ instr.op \in {"THREAD_EXIT", "PROCESS_EXIT"} THEN "sale"
  ELSE IF desalojar /\ motivo \in {"ERROR_EXC", "ERROR_SEGFAULT"} /\ fase # "lee" THEN "falla"
  ELSE "corre"
Escrituras == {i \in 1..Len(cm) : cm[i].op = "PEDIDO_ESCRITURA_CM"}
MemDe ==
  IF Escrituras = {} THEN espacio
  ELSE LET b == cm[CHOOSE i \in Escrituras : TRUE].buffer
       IN  ConPalabra(espacio, Campo(b, 4), Campo(b, 3))

Maquina ==
  INSTANCE MaquinaDeHilos WITH
    Registros <- NombresGenerales,
    pc     <- [h \in Hilos |-> PcDe(h)],
    reg    <- [h \in Hilos |-> RegDe(h)],
    mem    <- MemDe,
    estado <- [h \in Hilos |-> EstadoDe(h)],
    sano   <- ~cruce

\* Each thread runs its own program as if the machine were its own: contexts
\* saved and loaded through two sockets at each syscall and eviction never mix,
\* lose or repeat an instruction of any thread (until two searches cross).
EjecutaProgramas == Maquina!Spec

\* The interrupt flag is up for the thread the interrupt named, with its name
\* written, and strcmp never reads a NULL name, as long as the context has not been
\* freed or made between the check of interrupt_manager and its flag.
InterrupcionDelCargado ==
  ~cruzada =>
    /\ interruptFlag => nombre /\ deQuien = hilo
    /\ fase # "caida"

\* Programs that stay within themselves: they end in an exit that ends the thread,
\* jump only to their instructions and write no register of the partition.
ProgramasQueTerminan ==
  \A h \in Hilos :
    /\ Len(Programa[h]) \in 1..(Palabra - 1)
    /\ \A i \in 1..Len(Programa[h]) :
         LET x == Programa[h][i]
         IN  /\ x.a \notin {"BASE", "LIMITE"}
             /\ x.op = "JNZ" \/ (x.op = "SET" /\ x.a = "PC") => x.n < Len(Programa[h])
             /\ x.op \in {"SUM", "SUB", "READ_MEM"} => x.a # "PC"
             /\ i = Len(Programa[h]) => \/ x.op = "THREAD_EXIT"
                                        \/ x.op = "PROCESS_EXIT" /\ h[2] = 0

\* memoria ends for the CPU's sake only on the last context of a thread that is
\* ending, which travels by another socket than the exit and may arrive later.
SoloFallaElUltimoContexto ==
  [][memoriaViva /\ ~memoriaViva' /\ ~cruce' =>
       /\ cm # <<>> /\ HiloPedido \in terminados
       /\ Pedido.op \in {"DESALOJO_INSTRUCCION_CM", "DESALOJO_ERROR_CM"}]_vars

\* Programs that do not write the registers of their partition: the code would let
\* them, and nothing below about addresses would hold.
RespetanLaParticion ==
  \A h \in Hilos : \A i \in 1..Len(Programa[h]) : Programa[h][i].a \notin {"BASE", "LIMITE"}

\* A write changes no byte before the partition of the process that is loaded
\* nor further than a word after its end: the mmu's bound lets a word start in
\* the byte after the last one.
EscrituraAcotada ==
  [][\A x \in Direcciones :
       espacio'[x] # espacio[x] /\ ~cruce =>
         Base[hilo[1]] <= x /\ x <= Limite[hilo[1]] + BytesPorPalabra]_vars

\* The CPU gives back every thread the kernel sends, by a syscall that blocks or
\* ends it, an error or the end of its quantum, through the eviction of the one
\* before it (programs without endless loops), unless the one before erred, or the
\* CPU or memoria died.
Impedido == fase \in {"error", "caida", "nulo"} \/ ~memoriaViva
HiloDevuelto == \A h \in Hilos : exec = h ~> exec # h \/ Impedido
=============================================================================
