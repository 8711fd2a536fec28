---------------------------- MODULE CicloCpu_proofs ----------------------------
(* The interrupt flag and the thread it is up for, the types of the CPU, memoria and *)
(* their channels, where words are written and what ends memoria, for every instance. *)
EXTENDS CicloCpu, Listas_proofs, Buffers_proofs, TLAPS

\* While nothing has crossed interrupt_manager: the flag is up only with the names
\* and for the thread that is loaded, interrupt_manager holds none but that thread,
\* and there is none in the wait for a dispatch.
InvInterrupcion ==
  /\ ~cruzada /\ interruptFlag => nombre /\ deQuien = hilo /\ hilo # Nadie
  /\ ~cruzada /\ mano # Nadie => mano = hilo
  /\ fase = "libre" => hilo = Nadie
  /\ ~cruzada => fase # "caida"

LEMMA InvInicial == Init => InvInterrupcion
BY DEF Init, InvInterrupcion, Nadie

\* What most actions do not touch.
Ajena == UNCHANGED <<fase, hilo, instr, interruptFlag, nombre, deQuien, mano, cruzada>>
LEMMA InvAjena == InvInterrupcion /\ Ajena => InvInterrupcion'
BY DEF InvInterrupcion, Ajena

\* The cycle of a thread that stays loaded, and whose interrupt keeps its name.
EnCurso ==
  /\ fase' \notin {"libre", "caida"}
  /\ UNCHANGED <<hilo, interruptFlag, nombre, deQuien, mano, cruzada>>
LEMMA InvEnCurso == InvInterrupcion /\ EnCurso => InvInterrupcion'
BY DEF InvInterrupcion, EnCurso

-----------------------------------------------------------------------------
(* The dispatch thread *)

LEMMA RecibirConserva == InvInterrupcion /\ Recibir => InvInterrupcion'
<1> SUFFICES ASSUME InvInterrupcion, Recibir PROVE InvInterrupcion'
  OBVIOUS
<1>1. fase = "libre" /\ fase' = "nace" /\ UNCHANGED <<interruptFlag, mano>>
  BY DEF Recibir
<1>2. ~cruzada' => ~cruzada /\ mano = Nadie
  BY Zenon DEF Recibir
<1>3. ~cruzada' => ~interruptFlag'
  BY <1>1, <1>2 DEF InvInterrupcion
<1>4. QED
  BY <1>1, <1>2, <1>3 DEF InvInterrupcion, Nadie

LEMMA PedirContextoConserva == InvInterrupcion /\ PedirContexto => InvInterrupcion'
<1> SUFFICES ASSUME InvInterrupcion, PedirContexto PROVE InvInterrupcion'
  OBVIOUS
<1>1. fase' = "contexto" /\ UNCHANGED <<interruptFlag, mano>>
  BY DEF PedirContexto
<1>2. ~cruzada' => ~cruzada /\ mano = Nadie /\ ~nombre
  BY Zenon DEF PedirContexto
<1>3. ~cruzada' => ~interruptFlag'
  BY <1>1, <1>2 DEF InvInterrupcion
<1>4. QED
  BY <1>1, <1>2, <1>3 DEF InvInterrupcion, Nadie

LEMMA DeleteContextoConserva == InvInterrupcion /\ DeleteContexto => InvInterrupcion'
BY DEF InvInterrupcion, DeleteContexto

LEMMA ContextoListoEnCurso == ContextoListo => EnCurso
BY DEF ContextoListo, Fetch, EnCurso, intVars

LEMMA EjecutarEnCurso ==
  \/ EjecutarSet \/ EjecutarSuma("SUM") \/ EjecutarSuma("SUB") \/ EjecutarJnz \/ EjecutarLog
  \/ EjecutarReadMem \/ EjecutarWriteMem
  => EnCurso
<1>1. EjecutarSet => EnCurso
  BY DEF EjecutarSet, Ejecuta, Quieto, EnCurso, intVars
<1>2. EjecutarSuma("SUM") \/ EjecutarSuma("SUB") => EnCurso
  BY DEF EjecutarSuma, Ejecuta, Quieto, EnCurso, intVars
<1>3. EjecutarJnz => EnCurso
  BY DEF EjecutarJnz, Ejecuta, Quieto, EnCurso, intVars
<1>4. EjecutarLog => EnCurso
  BY DEF EjecutarLog, Ejecuta, Quieto, EnCurso, intVars
<1>5. EjecutarReadMem => EnCurso
  BY DEF EjecutarReadMem, Ejecuta, Quieto, EnCurso, intVars
<1>6. EjecutarWriteMem => EnCurso
  BY DEF EjecutarWriteMem, Ejecuta, Quieto, EnCurso, intVars
<1>7. QED
  BY <1>1, <1>2, <1>3, <1>4, <1>5, <1>6

LEMMA SyscallEnCurso ==
  \/ LecturaLista \/ EscrituraLista \/ EjecutarSyscall \/ EjecutarProcessExit \/ Retornar
  \/ CheckInterrupt \/ DesalojarPorSyscall \/ DesalojarPorError
  => EnCurso
<1>1. LecturaLista => EnCurso
  BY DEF LecturaLista, Quieto, EnCurso, intVars
<1>2. EscrituraLista => EnCurso
  BY DEF EscrituraLista, Quieto, EnCurso, intVars
<1>3. EjecutarSyscall => EnCurso
  BY DEF EjecutarSyscall, Ejecuta, Quieto, EnCurso, intVars
<1>4. EjecutarProcessExit => EnCurso
  BY DEF EjecutarProcessExit, Ejecuta, Quieto, EnCurso, intVars
<1>5. Retornar => EnCurso
  BY DEF Retornar, Quieto, EnCurso, intVars
<1>6. CheckInterrupt => EnCurso
  BY DEF CheckInterrupt, Fetch, EnCurso, intVars
<1>7. DesalojarPorSyscall => EnCurso
  BY DEF DesalojarPorSyscall, Desaloja, Quieto, EnCurso, intVars
<1>8. DesalojarPorError => EnCurso
  BY DEF DesalojarPorError, Desaloja, Quieto, EnCurso, intVars
<1>9. QED
  BY <1>1, <1>2, <1>3, <1>4, <1>5, <1>6, <1>7, <1>8

\* The flag is up with its name: strcmp reads no NULL.
LEMMA DesalojarPorQuantumConserva ==
  InvInterrupcion /\ DesalojarPorQuantum => InvInterrupcion'
<1> SUFFICES ASSUME InvInterrupcion, DesalojarPorQuantum PROVE InvInterrupcion'
  OBVIOUS
<1>1. /\ interruptFlag /\ fase = "desaloja"
      /\ fase' = IF nombre THEN "borra" ELSE "caida"
      /\ UNCHANGED <<hilo, instr, interruptFlag, nombre, deQuien, mano, cruzada>>
  BY DEF DesalojarPorQuantum, Desaloja, PorInterrupcion, intVars
<1>2. QED
  BY <1>1 DEF InvInterrupcion

LEMMA CicloConserva == InvInterrupcion /\ Ciclo => InvInterrupcion'
<1> SUFFICES ASSUME InvInterrupcion, Ciclo PROVE InvInterrupcion'
  OBVIOUS
<1>1. CASE Recibir \/ PedirContexto \/ DeleteContexto
  BY <1>1, RecibirConserva, PedirContextoConserva, DeleteContextoConserva
<1>2. CASE \/ EjecutarSet \/ EjecutarSuma("SUM") \/ EjecutarSuma("SUB") \/ EjecutarJnz
           \/ EjecutarLog \/ EjecutarReadMem \/ EjecutarWriteMem
  BY <1>2, EjecutarEnCurso, InvEnCurso
<1>3. CASE \/ ContextoListo \/ LecturaLista \/ EscrituraLista \/ EjecutarSyscall
           \/ EjecutarProcessExit \/ Retornar \/ CheckInterrupt \/ DesalojarPorSyscall
           \/ DesalojarPorError
  BY <1>3, ContextoListoEnCurso, SyscallEnCurso, InvEnCurso
<1>4. CASE DesalojarPorQuantum
  BY <1>4, DesalojarPorQuantumConserva
<1>5. QED
  BY <1>1, <1>2, <1>3, <1>4, Zenon DEF Ciclo

-----------------------------------------------------------------------------
(* The other threads of the CPU *)

LEMMA RespuestasConserva == InvInterrupcion /\ Respuestas => InvInterrupcion'
<1> SUFFICES ASSUME InvInterrupcion, Respuestas PROVE InvInterrupcion'
  OBVIOUS
<1>1. /\ fase # "caida"
      /\ UNCHANGED <<fase, hilo, interruptFlag, nombre, deQuien, mano, cruzada>>
  <2>1. CASE RecvContexto
    BY <2>1 DEF RecvContexto, Llega, Viva, QuedaCpu, intVars
  <2>2. CASE RecvInstruction
    BY <2>2 DEF RecvInstruction, Llega, Viva, QuedaCpu, intVars
  <2>3. CASE RecvLectura
    BY <2>3 DEF RecvLectura, Llega, Viva, QuedaCpu, intVars
  <2>4. CASE RecvEscritura
    BY <2>4 DEF RecvEscritura, Llega, Viva, QuedaCpu, intVars
  <2>5. CASE RecvActualizado
    BY <2>5 DEF RecvActualizado, Llega, Viva, QuedaCpu, intVars
  <2>6. QED
    BY <2>1, <2>2, <2>3, <2>4, <2>5 DEF Respuestas
<1>2. QED
  BY <1>1 DEF InvInterrupcion

LEMMA AvisosConserva == InvInterrupcion /\ Avisos => InvInterrupcion'
<1> SUFFICES ASSUME InvInterrupcion, Avisos PROVE InvInterrupcion'
  OBVIOUS
<1>1. CASE AtenderRespuesta
  <2>1. Ajena
    BY <1>1 DEF AtenderRespuesta, QuedaInt, Ajena
  <2>2. QED
    BY <2>1, InvAjena
<1>2. CASE InterrupcionMira
  <2>1. /\ mano' \in {hilo, Nadie}
        /\ UNCHANGED <<fase, hilo, instr, interruptFlag, nombre, deQuien, cruzada>>
    BY <1>2 DEF InterrupcionMira, QuedaInt
  <2>2. QED
    BY <2>1 DEF InvInterrupcion, Nadie
<1>3. CASE InterrupcionMarca
  <2>1. /\ mano # Nadie /\ mano' = Nadie /\ interruptFlag' = TRUE
        /\ hilo # Nadie => nombre' = TRUE /\ deQuien' = mano
        /\ UNCHANGED <<fase, hilo, instr, cruzada>>
    BY <1>3 DEF InterrupcionMarca, QuedaInt
  <2>2. QED
    BY <2>1 DEF InvInterrupcion, Nadie
<1>4. QED
  BY <1>1, <1>2, <1>3 DEF Avisos

-----------------------------------------------------------------------------
(* memoria and the kernel *)

LEMMA MemoriaAjena == MemoriaCpu \/ MemoriaDump => Ajena
<1>1. QuedaMem => Ajena
  BY DEF QuedaMem, Ajena, cpuVars, intVars
<1>2. QuedaDump => Ajena
  BY DEF QuedaDump, Ajena, cpuVars, intVars
<1>3. MemoriaCpu => QuedaMem
  BY DEF MemoriaCpu, BuscarProceso, PedidoContexto, ActualizarContexto, PedidoInstruccion,
         NoEncontrado, ReadFromDir, WriteInDir
<1>4. MemoriaDump => QuedaDump
  BY DEF MemoriaDump, DumpBusca, DumpResponde
<1>5. QED
  BY <1>1, <1>2, <1>3, <1>4

LEMMA KernelAjena ==
  \/ KernelInterrumpe \/ KernelAtiende \/ KernelQuantum
  \/ \E h \in Hilos : KernelDespacha(h) \/ KernelDesbloquea(h)
  => Ajena
<1>1. QuedaKernel => Ajena
  BY DEF QuedaKernel, Ajena, cpuVars, intVars
<1>2. KernelInterrumpe \/ KernelQuantum => QuedaKernel
  BY DEF KernelInterrumpe, KernelQuantum
<1>3. ASSUME NEW h PROVE KernelDespacha(h) \/ KernelDesbloquea(h) => QuedaKernel
  BY DEF KernelDespacha, KernelDesbloquea
<1>4. KernelAtiende => QuedaKernel
  BY DEF KernelAtiende, KernelSinBuffer, KernelSigue, KernelBloquea, KernelDump, KernelThreadExit,
         KernelProcessExit, KernelError
<1>5. QED
  BY <1>1, <1>2, <1>3, <1>4

-----------------------------------------------------------------------------
LEMMA InvInductivo == InvInterrupcion /\ [Next]_vars => InvInterrupcion'
<1> SUFFICES ASSUME InvInterrupcion, [Next]_vars PROVE InvInterrupcion'
  OBVIOUS
<1>1. CASE Ciclo
  BY <1>1, CicloConserva
<1>2. CASE Respuestas
  BY <1>2, RespuestasConserva
<1>3. CASE Avisos
  BY <1>3, AvisosConserva
<1>4. CASE MemoriaCpu \/ MemoriaDump
  BY <1>4, MemoriaAjena, InvAjena
<1>5. CASE \/ KernelInterrumpe \/ KernelAtiende \/ KernelQuantum
           \/ \E h \in Hilos : KernelDespacha(h) \/ KernelDesbloquea(h)
  BY <1>5, KernelAjena, InvAjena
<1>6. CASE UNCHANGED vars
  <2>1. Ajena
    BY <1>6 DEF vars, cpuVars, intVars, Ajena
  <2>2. QED
    BY <2>1, InvAjena
<1>7. QED
  BY <1>1, <1>2, <1>3, <1>4, <1>5, <1>6, Zenon DEF Next

\* The interrupt flag names the thread that is loaded, and strcmp reads no NULL name,
\* unless a context was freed or made in the middle of interrupt_manager: whatever the
\* programs, the registers and the threads.
THEOREM InterrupcionSegura == Spec => []InterrupcionDelCargado
<1>1. InvInterrupcion => InterrupcionDelCargado
  BY DEF InvInterrupcion, InterrupcionDelCargado
<1>2. QED
  BY <1>1, InvInicial, InvInductivo, PTL DEF Spec

Byte    == 0..(Celda - 1)
Word    == 0..(Palabra - 1)
Lugar(r) == CHOOSE k \in 1..Len(Orden) : Orden[k] = r
Guardables == NombresGenerales \cup {"PC"}
-----------------------------------------------------------------------------
(* The messages *)

\* The instructions that leave the registers of the partition alone, or none yet.
Instrucciones ==
  {SinInstr} \cup {i \in [op : STRING, a : STRING, b : STRING, n : Word] : i.a \notin {"BASE", "LIMITE"}}
ProgramasTipados == Programa \in [Hilos -> Seq(Instrucciones)]

OpsGuardar  == {"DESALOJO_INTR", "DESALOJO_INSTRUCCION_CM", "DESALOJO_ERROR_CM"}
OpsConsulta == {"PEDIDO_CONTEXTO_CM", "PEDIDO_INSTRUCCION", "PEDIDO_LECTURA_CM", "PEDIDO_ESCRITURA_CM"}
OpsAviso    == {"RTA_ACTUALIZAR_CONTEXTO_CM"}
OpsDato     == {"RESPUESTA_CONTEXTO_CM", "RESPUESTA_INSTRUCCION", "RTA_PEDIDO_LECTURA_CM",
                "RTA_PEDIDO_ESCRITURA_CM"}

\* A word that starts in the partition of p, or in the byte after it.
EnParticion(d, p) == d \in Nat /\ Base[p] <= d /\ d <= Limite[p] + 1

PedidoBien(m) ==
  /\ HiloDe(m.buffer) \in Hilos
  /\ m.op \in OpsGuardar => \A r \in Guardables : Campo(m.buffer, 2 + Lugar(r)) \in Word
  /\ m.op = "PEDIDO_INSTRUCCION" => Campo(m.buffer, 3) \in Word
  /\ m.op = "PEDIDO_LECTURA_CM" => \E p \in Pids : EnParticion(Campo(m.buffer, 3), p)
  /\ m.op = "PEDIDO_ESCRITURA_CM" => /\ Campo(m.buffer, 3) \in Word
                                     /\ \E p \in Pids : EnParticion(Campo(m.buffer, 4), p)
Pedidos == {m \in [op : OpsGuardar \cup OpsConsulta, buffer : Seq(Nat)] : PedidoBien(m)}

RespuestaBien(m) ==
  /\ m.op = "RESPUESTA_CONTEXTO_CM" => \A r \in Nombres : Campo(m.buffer, Lugar(r)) \in Word
  /\ m.op = "RESPUESTA_INSTRUCCION" => Campo(m.buffer, 1) \in Instrucciones
  /\ m.op = "RTA_PEDIDO_LECTURA_CM" => Campo(m.buffer, 1) \in Word
Contestaciones ==
  {m \in [op : OpsAviso \cup OpsDato, buffer : Seq(Nat \cup Instrucciones)] : RespuestaBien(m)}

DeHilo(o) == {Mensaje(o, Campos(h)) : h \in Hilos}
Finales   == {Mensaje("FINALIZACION_SYSCALL", Campos(<<v>>)) : v \in {0, 1}}

Semaforos == {"contexto", "fetch", "lectura", "escritura"}

TiposCpu ==
  /\ fase \in Fases /\ hilo \in Hilos \cup {Nadie}
  /\ fase # "libre" => hilo \in Hilos
  /\ contexto \in [Nombres -> Word] /\ valorLectura \in Word /\ instr \in Instrucciones
Canales ==
  /\ cm \in Seq(Pedidos) /\ mc \in Seq(Contestaciones)
  /\ sem \in [Semaforos \cup {"retorno"} -> {0, 1}]
TiposMemoria ==
  /\ ctx \in [Hilos -> [Guardables -> Word]] /\ espacio \in [Direcciones -> Byte]
  /\ vivos \subseteq Hilos
  /\ dump \in [paso : {"no", "pedido", "busca"}, hilo : Hilos \cup {Nadie}]
  /\ dump.paso # "no" => dump.hilo \in Hilos
TiposKernel ==
  /\ exec \in Hilos \cup {Nadie}
  /\ listos \subseteq Hilos /\ bloqueados \subseteq Hilos /\ terminados \subseteq Hilos
  /\ dispKC \in Seq(DeHilo("EJECUTAR_HILO"))
  /\ intCK \in Seq(DeHilo("DESALOJO_QUANTUM"))
  /\ intKC \in Seq(DeHilo("DESALOJO_POR_QUANTUM") \cup Finales)
Tipos == TiposCpu /\ Canales /\ TiposMemoria /\ TiposKernel

-----------------------------------------------------------------------------
(* The CPU and memoria *)

SoloAlFinal(s, G) == \A i \in 1..(Len(s) - 1) : s[i].op \in G
Ultimo(s)  == s[Len(s)]
Pide(s, G) == s # <<>> /\ Ultimo(s).op \notin G
Pregunta   == Pide(cm, OpsGuardar)
Contestada == Pide(mc, OpsAviso)

\* The phase in which the CPU waits for it.
EsperaPor(o) ==
  \/ fase = "contexto" /\ o \in {"PEDIDO_CONTEXTO_CM", "RESPUESTA_CONTEXTO_CM", "contexto"}
  \/ fase = "fetch" /\ o \in {"PEDIDO_INSTRUCCION", "RESPUESTA_INSTRUCCION", "fetch"}
  \/ fase = "lee" /\ o \in {"PEDIDO_LECTURA_CM", "RTA_PEDIDO_LECTURA_CM", "lectura"}
  \/ fase = "escribe" /\ o \in {"PEDIDO_ESCRITURA_CM", "RTA_PEDIDO_ESCRITURA_CM", "escritura"}
SinPosts  == \A s \in Semaforos : sem[s] = 0

Conversa ==
  /\ SoloAlFinal(cm, OpsGuardar) /\ SoloAlFinal(mc, OpsAviso)
  /\ Pregunta => EsperaPor(Ultimo(cm).op) /\ HiloDe(Ultimo(cm).buffer) = hilo /\ ~Contestada /\ SinPosts
  /\ Contestada => EsperaPor(Ultimo(mc).op) /\ cm = <<>> /\ SinPosts
  /\ \A s \in Semaforos : sem[s] = 1 => EsperaPor(s) /\ cm = <<>> /\ ~Contestada

\* Each context that is loaded is of one process, the thread's own until two
\* searches of memoria cross.
DeSuProceso(p) == p \in Pids /\ (~cruce => p = hilo[1])
EsParticion(b, l) == \E p \in Pids : DeSuProceso(p) /\ b = Base[p] /\ l = Limite[p]
Corriendo == fase \notin {"libre", "nace", "contexto"} \/ sem["contexto"] = 1
DireccionPedida(m) == Campo(m.buffer, IF m.op = "PEDIDO_LECTURA_CM" THEN 3 ELSE 4)

ParticionCargada ==
  /\ Corriendo => EsParticion(contexto["BASE"], contexto["LIMITE"])
  /\ Contestada /\ fase = "contexto" =>
       LET b == Ultimo(mc).buffer IN EsParticion(Campo(b, Lugar("BASE")), Campo(b, Lugar("LIMITE")))
  /\ Pregunta /\ fase \in {"lee", "escribe"} =>
       \E p \in Pids : DeSuProceso(p) /\ EnParticion(DireccionPedida(Ultimo(cm)), p)

\* What memoria searches for, until two searches cross.
Busqueda ==
  /\ servicio => cm # <<>> /\ Busca
  /\ ~cruce /\ servicio => pidBuscado = HiloPedido[1] /\ dump.paso # "busca"
  /\ ~cruce /\ dump.paso = "busca" => pidBuscado = dump.hilo[1]

-----------------------------------------------------------------------------
(* The CPU and the kernel *)

Sobras == {<<>>, <<0>>, <<1, 0>>}
CodigoEnCurso == IF fase = "error" THEN 3 ELSE Codigo(instr.op)
Cuerpo == <<CodigoEnCurso, 4, 1, hilo[1], 1, hilo[2]>>
HayPedido == fase \in {"retorno", "error"} /\ \E s \in Sobras : dispCK = s \o Cuerpo
EsFin(m) == m.op = "FINALIZACION_SYSCALL"
HayFin == \E i \in 1..Len(intKC) : EsFin(intKC[i])
Syscalls == {"MUTEX_LOCK", "DUMP_MEMORY", "THREAD_EXIT", "PROCESS_EXIT"}
Errores  == {"ERROR_EXC", "ERROR_SEGFAULT"}

ConversaKernel ==
  /\ dispCK \in Sobras \/ HayPedido
  /\ fase = "retorno" => instr.op \in Syscalls
  /\ \A i, j \in 1..Len(intKC) : EsFin(intKC[i]) /\ EsFin(intKC[j]) => i = j
  /\ HayFin => fase = "retorno" /\ dispCK = <<>> /\ sem["retorno"] = 0 /\ ~syscallBloquea
  /\ sem["retorno"] = 1 => fase = "retorno" /\ dispCK = <<>>
  /\ syscallBloquea => /\ fase \in {"retorno", "chequea", "desaloja", "borra"}
                       /\ fase # "borra" => dispCK = <<>>
                       /\ fase = "retorno" => sem["retorno"] = 1
  /\ desalojar => fase \in {"lee", "chequea", "desaloja", "borra", "error", "caida", "nulo"}
  /\ fase \in {"lee", "chequea", "desaloja"} /\ desalojar /\ ~interruptFlag => motivo \in Errores \/ syscallBloquea
  /\ fase \in {"chequea", "desaloja"} /\ syscallBloquea => desalojar /\ motivo = "DESALOJO_SYSCALL"

-----------------------------------------------------------------------------
(* Words and bytes *)

\* Peso[i] is Celda to the power i - 1.
LEMMA PesoEsPotencia ==
  /\ Peso \in [1..(BytesPorPalabra + 1) -> Nat]
  /\ Peso[1] = 1
  /\ \A i \in 2..(BytesPorPalabra + 1) : Peso[i] = Celda * Peso[i - 1]
<1> DEFINE n  == BytesPorPalabra + 1
           Op == [i \in 1..n |-> [x \in Nat |-> Celda * x]]
           E(f) == f = [i \in 1..n |-> IF i = 1 THEN 1 ELSE Celda * f[i - 1]]
<1>1. n \in Nat /\ n >= 2 /\ Celda \in Nat /\ Celda > 1
  BY CicloConstantes
<1>2. Op \in [1..n -> [Nat -> Nat]]
  <2>1. \A x \in Nat : Celda * x \in Nat
    BY <1>1
  <2> QED
    BY <2>1
<1>3. PICK f : EsPlegado(f, n, Nat, 1, Op)
  <2>1. SePliega(n, Nat, 1, Op)
    <3> HIDE DEF Op, n
    <3> QED
      BY <1>1, <1>2, Plegado
  <2> QED
    BY <2>1 DEF SePliega
<1>4. f \in [1..n -> Nat]
  BY <1>3 DEF EsPlegado
<1>5. \A i \in 1..n : f[i] = IF i = 1 THEN 1 ELSE Celda * f[i - 1]
  <2> SUFFICES ASSUME NEW i \in 1..n PROVE f[i] = IF i = 1 THEN 1 ELSE Celda * f[i - 1]
    OBVIOUS
  <2>1. f[i] = IF i = 1 THEN 1 ELSE Op[i][f[i - 1]]
    BY <1>3 DEF EsPlegado
  <2>2. CASE i = 1
    BY <2>1, <2>2
  <2>3. CASE i # 1
    <3>1. i - 1 \in 1..n
      BY <1>1, <2>3
    <3>2. f[i - 1] \in Nat
      BY <1>4, <3>1
    <3>3. Op[i][f[i - 1]] = Celda * f[i - 1]
      BY <3>2
    <3> QED
      BY <2>1, <2>3, <3>3
  <2> QED
    BY <2>2, <2>3
<1>6. E(f)
  <2> HIDE DEF n
  <2> QED
    BY <1>4, <1>5
<1>7. E(Peso)
  <2>1. Peso = CHOOSE g : E(g)
    BY DEF Peso
  <2> HIDE DEF E
  <2> QED
    BY <1>6, <2>1
<1>8. \A i \in 1..n : Peso[i] = f[i]
  <2> DEFINE T == {i \in 1..n : Peso[i] = f[i]}
  <2>1. 1 \in 1..n /\ Peso[1] = 1 /\ f[1] = 1
    BY <1>1, <1>5, <1>7
  <2>2. ASSUME NEW i \in 2..n, i - 1 \in T PROVE i \in T
    <3>1. i \in 1..n /\ i # 1 /\ i - 1 \in 1..n
      BY <1>1
    <3>2. Peso[i] = Celda * Peso[i - 1] /\ f[i] = Celda * f[i - 1]
      BY <3>1, <1>5, <1>7
    <3> QED
      BY <2>2, <3>1, <3>2
  <2>3. \A i \in 1..n : i \in T
    <3>1. 1 \in T
      BY <2>1
    <3> HIDE DEF T, n
    <3> QED
      BY <1>1, <2>2, <3>1, Induccion
  <2> QED
    BY <2>3
<1>9. DOMAIN Peso = 1..n
  BY <1>7
<1>10. Peso = f
  <2> HIDE DEF n, E
  <2> QED
    BY <1>4, <1>8, <1>9, <1>7 DEF E
<1>11. 1 \in 1..n /\ \A i \in 2..n : i \in 1..n /\ i # 1
  BY <1>1
<1> QED
  BY <1>4, <1>5, <1>10, <1>11

\* A weight is positive, and a word has more values than one.
LEMMA PesoPositivo ==
  /\ \A i \in 1..(BytesPorPalabra + 1) : Peso[i] \in Nat \ {0}
  /\ Palabra \in Nat /\ Palabra > 1
<1> DEFINE n == BytesPorPalabra + 1
           T == {i \in 1..n : Peso[i] \in Nat \ {0}}
<1>1. n \in Nat /\ n >= 2 /\ Celda \in Nat /\ Celda > 1
  BY CicloConstantes
<1>2. ASSUME NEW x \in Nat \ {0} PROVE Celda * x \in Nat /\ Celda * x > 1
  BY <1>1
<1>3. 1 \in T
  BY <1>1, PesoEsPotencia
<1>4. ASSUME NEW i \in 2..n, i - 1 \in T PROVE i \in T
  <2>1. Peso[i] = Celda * Peso[i - 1] /\ Peso[i - 1] \in Nat \ {0} /\ i \in 1..n
    BY <1>4, PesoEsPotencia
  <2>2. Peso[i] \in Nat /\ Peso[i] > 1
    BY <2>1, <1>2
  <2> QED
    BY <2>1, <2>2
<1>5. \A i \in 1..n : i \in T
  <2> HIDE DEF T, n
  <2> QED
    BY <1>1, <1>3, <1>4, Induccion
<1>6. Palabra \in Nat /\ Palabra > 1
  <2>1. n \in 2..n /\ n - 1 \in T
    BY <1>1, <1>5
  <2>2. Peso[n] = Celda * Peso[n - 1] /\ Peso[n - 1] \in Nat \ {0}
    BY <2>1, PesoEsPotencia
  <2> QED
    BY <2>2, <1>2 DEF Palabra
<1> QED
  BY <1>5, <1>6

\* A remainder is in range.
LEMMA Restos ==
  ASSUME NEW a \in Nat, NEW n \in Nat \ {0}
  PROVE  a % n \in 0..(n - 1)
OBVIOUS

\* The word that memcpy reads, from its last byte to its first.
LEMMA PalabraLeida ==
  ASSUME NEW e \in [Direcciones -> Byte], NEW d \in Nat, d + BytesPorPalabra <= TamMemoria
  PROVE  PalabraEn(e, d) \in Word
<1> DEFINE n  == BytesPorPalabra
           b(i) == e[d + n - i]
           Op == [i \in 1..n |-> [x \in Nat |-> Celda * x + b(i)]]
           E(f) == f = [i \in 1..n |-> IF i = 1 THEN b(1) ELSE Celda * f[i - 1] + b(i)]
           valor == CHOOSE f : E(f)
<1>1. n \in Nat /\ n >= 1 /\ Celda \in Nat /\ Celda > 1
  BY CicloConstantes
<1>2. \A i \in 1..n : b(i) \in Nat /\ b(i) < Celda
  <2>1. \A i \in 1..n : d + n - i \in Direcciones
    BY <1>1, CicloConstantes DEF Direcciones
  <2> QED
    BY <1>1, <2>1 DEF Byte
<1>3. Op \in [1..n -> [Nat -> Nat]]
  <2>1. \A i \in 1..n, x \in Nat : Celda * x + b(i) \in Nat
    BY <1>1, <1>2
  <2> QED
    BY <2>1
<1>4. PICK f : EsPlegado(f, n, Nat, b(1), Op)
  <2>1. SePliega(n, Nat, b(1), Op)
    <3>1. b(1) \in Nat
      BY <1>1, <1>2
    <3> HIDE DEF Op, n
    <3> QED
      BY <1>1, <1>3, <3>1, Plegado
  <2> QED
    BY <2>1 DEF SePliega
<1>5. f \in [1..n -> Nat]
  BY <1>4 DEF EsPlegado
<1>6. \A i \in 1..n : f[i] = IF i = 1 THEN b(1) ELSE Celda * f[i - 1] + b(i)
  <2> SUFFICES ASSUME NEW i \in 1..n
               PROVE  f[i] = IF i = 1 THEN b(1) ELSE Celda * f[i - 1] + b(i)
    OBVIOUS
  <2>1. f[i] = IF i = 1 THEN b(1) ELSE Op[i][f[i - 1]]
    BY <1>4 DEF EsPlegado
  <2>2. CASE i = 1
    BY <2>1, <2>2
  <2>3. CASE i # 1
    <3>1. i - 1 \in 1..n
      BY <1>1, <2>3
    <3>2. f[i - 1] \in Nat
      BY <1>5, <3>1
    <3>3. Op[i][f[i - 1]] = Celda * f[i - 1] + b(i)
      BY <3>2
    <3> QED
      BY <2>1, <2>3, <3>3
  <2> QED
    BY <2>2, <2>3
<1>7. E(valor)
  <2>1. E(f)
    <3> HIDE DEF n
    <3> QED
      BY <1>5, <1>6
  <2> HIDE DEF E
  <2> QED
    BY <2>1
<1>8. \A i \in 1..n : valor[i] = IF i = 1 THEN b(1) ELSE Celda * valor[i - 1] + b(i)
  <2> HIDE DEF valor, n
  <2> QED
    BY <1>7
<1> DEFINE T == {i \in 1..n : valor[i] \in Nat /\ valor[i] < Peso[i + 1]}
<1> HIDE DEF valor
<1>9. 1 \in T
  <2>1. 1 \in 1..n /\ 2 \in 2..(n + 1) /\ valor[1] = b(1)
    BY <1>1, <1>8
  <2>2. Peso[2] = Celda * 1
    BY <2>1, PesoEsPotencia
  <2> QED
    BY <1>1, <1>2, <2>1, <2>2
<1>10. ASSUME NEW i \in 2..n, i - 1 \in T PROVE i \in T
  <2>1. i \in 1..n /\ i # 1 /\ i + 1 \in 2..(n + 1) /\ i \in 1..(n + 1) /\ i + 1 - 1 = i /\ i - 1 + 1 = i
    BY <1>1
  <2>2. valor[i] = Celda * valor[i - 1] + b(i) /\ valor[i - 1] \in Nat /\ valor[i - 1] < Peso[i]
    BY <1>8, <1>10, <2>1
  <2>3. Peso[i + 1] = Celda * Peso[i] /\ Peso[i] \in Nat
    BY <2>1, PesoEsPotencia
  <2>4. ASSUME NEW c \in Nat, NEW x \in Nat, NEW p \in Nat, NEW y \in Nat, x < p, y < c
        PROVE  c * x + y < c * p
    <3>1. x + 1 <= p
      BY <2>4
    <3>2. c * (x + 1) <= c * p
      BY <3>1
    <3>3. c * (x + 1) = c * x + c
      OBVIOUS
    <3> QED
      BY <2>4, <3>2, <3>3
  <2>5. valor[i] < Peso[i + 1]
    BY <1>1, <1>2, <2>1, <2>2, <2>3, <2>4
  <2>6. valor[i] \in Nat
    BY <1>1, <1>2, <2>1, <2>2
  <2> QED
    BY <2>1, <2>5, <2>6
<1>11. \A i \in 1..n : i \in T
  <2> HIDE DEF T, n
  <2> QED
    BY <1>1, <1>9, <1>10, Induccion
<1>12. valor[n] \in Word
  BY <1>1, <1>11, PesoPositivo DEF Word, Palabra
<1> QED
  BY <1>12 DEF valor, PalabraEn

\* The bytes that memcpy writes are bytes.
LEMMA PalabraEscrita ==
  ASSUME NEW e \in [Direcciones -> Byte], NEW d \in Nat, NEW v \in Word
  PROVE  ConPalabra(e, d, v) \in [Direcciones -> Byte]
<1>1. ASSUME NEW x \in Direcciones, d <= x, x < d + BytesPorPalabra
      PROVE  (v \div Peso[x - d + 1]) % Celda \in Byte
  <2>1. x \in Nat /\ x - d + 1 \in 1..(BytesPorPalabra + 1) /\ v \in Nat /\ Celda \in Nat \ {0}
    BY <1>1, CicloConstantes, PesoPositivo DEF Direcciones, Word
  <2>2. Peso[x - d + 1] \in Nat \ {0}
    BY <2>1, PesoPositivo
  <2>3. v \div Peso[x - d + 1] \in Nat
    BY <2>1, <2>2
  <2> QED
    BY <2>1, <2>3, Restos DEF Byte
<1> QED
  BY <1>1 DEF ConPalabra

-----------------------------------------------------------------------------
(* The fields of a message *)

\* The k-th field read is the k-th written.
LEMMA CampoDeCampos ==
  ASSUME NEW vs, Len(vs) \in Nat
  PROVE  /\ \A k \in 1..Len(vs) : Campo(Campos(vs), k) = vs[k]
         /\ DOMAIN Campos(vs) = 1..(2 * Len(vs))
<1>1. ASSUME NEW k \in 1..Len(vs) PROVE Campo(Campos(vs), k) = vs[k]
  <2>1. 2 * k \in 1..(2 * Len(vs)) /\ (2 * k) % 2 = 0 /\ (2 * k) \div 2 = k
    OBVIOUS
  <2>2. Campos(vs)[2 * k] = IF (2 * k) % 2 = 1 THEN 1 ELSE vs[(2 * k) \div 2]
    BY <2>1 DEF Campos
  <2> QED
    BY <2>1, <2>2 DEF Campo
<1> QED
  BY <1>1 DEF Campos

\* What goes after a thread's two names keeps its order.
LEMMA TrasDos ==
  ASSUME NEW T, NEW s \in Seq(T), NEW r \in Seq(T), Len(s) = 2
  PROVE  /\ Len(s \o r) = 2 + Len(r) /\ Len(r) \in Nat
         /\ (s \o r)[1] = s[1] /\ (s \o r)[2] = s[2]
         /\ \A k \in 1..Len(r) : (s \o r)[2 + k] = r[k]
<1>1. /\ Len(s \o r) = Len(s) + Len(r)
      /\ \A i \in 1..(Len(s) + Len(r)) : (s \o r)[i] = IF i <= Len(s) THEN s[i] ELSE r[i - Len(s)]
  BY ConcatProperties
<1>2. /\ 1 \in 1..(2 + Len(r)) /\ 2 \in 1..(2 + Len(r))
      /\ \A k \in 1..Len(r) : 2 + k \in 1..(2 + Len(r)) /\ ~(2 + k <= 2) /\ 2 + k - 2 = k
  OBVIOUS
<1> QED
  BY <1>1, <1>2

\* The names of a thread before any fields.
LEMMA CamposTrasHilo ==
  ASSUME NEW h \in Hilos, NEW S, NEW vs \in Seq(S)
  PROVE  /\ HiloDe(Campos(h \o vs)) = h
         /\ \A k \in 1..Len(vs) : Campo(Campos(h \o vs), 2 + k) = vs[k]
         /\ Len(h \o vs) = 2 + Len(vs)
<1>1. PICK p \in Nat, t \in Nat : h = <<p, t>>
  BY CicloConstantes
<1> DEFINE w == h \o vs
<1>2. /\ Len(w) = 2 + Len(vs) /\ Len(vs) \in Nat /\ w[1] = p /\ w[2] = t
      /\ \A k \in 1..Len(vs) : w[2 + k] = vs[k]
  <2>1. h \in Seq(Nat \cup S) /\ vs \in Seq(Nat \cup S) /\ Len(h) = 2 /\ h[1] = p /\ h[2] = t
    BY <1>1
  <2> QED
    BY <2>1, TrasDos
<1> HIDE DEF w
<1>3. \A k \in 1..Len(w) : Campo(Campos(w), k) = w[k]
  <2>1. Len(w) \in Nat
    BY <1>2
  <2> QED
    BY <2>1, CampoDeCampos
<1>4. 1 \in 1..Len(w) /\ 2 \in 1..Len(w) /\ \A k \in 1..Len(vs) : 2 + k \in 1..Len(w)
  BY <1>2
<1>5. HiloDe(Campos(w)) = h
  BY <1>1, <1>2, <1>3, <1>4 DEF HiloDe
<1> QED
  BY <1>2, <1>3, <1>4, <1>5 DEF w

\* Numbers, sent as they are.
LEMMA CamposDeNumeros ==
  ASSUME NEW S, Nat \subseteq S, NEW vs \in Seq(S)
  PROVE  Campos(vs) \in Seq(S)
BY ValorDeCampos

\* A message with the names of a thread only.
LEMMA CamposDeHilo ==
  ASSUME NEW h \in Hilos
  PROVE  HiloDe(Campos(h)) = h /\ Campos(h) = <<1, h[1], 1, h[2]>> /\ h[1] \in Nat /\ h[2] \in Nat
<1>1. PICK p \in Nat, t \in Nat : h = <<p, t>>
  BY CicloConstantes
<1>2. Len(h) = 2 /\ h[1] = p /\ h[2] = t
  BY <1>1
<1>3. Campo(Campos(h), 1) = p /\ Campo(Campos(h), 2) = t
  BY <1>2, CampoDeCampos
<1>4. Campos(h) = <<1, p, 1, t>>
  <2>1. /\ Campos(h) = [i \in 1..4 |-> IF i % 2 = 1 THEN 1 ELSE h[i \div 2]]
        /\ 1..4 = {1, 2, 3, 4}
    BY <1>2 DEF Campos
  <2>2. Campos(h)[1] = 1 /\ Campos(h)[2] = p /\ Campos(h)[3] = 1 /\ Campos(h)[4] = t
    BY <2>1, <1>2
  <2>3. Campos(h) \in Seq(Nat) /\ Len(Campos(h)) = 4
    <3>1. h \in Seq(Nat) /\ Nat \subseteq Nat
      BY <1>1
    <3>2. Campos(h) \in Seq(Nat) /\ Len(Campos(h)) = 2 * Len(h)
      <4> HIDE DEF Campos
      <4> QED
        BY <3>1, ValorDeCampos
    <3> HIDE DEF Campos
    <3> QED
      BY <3>2, <1>2
  <2> HIDE DEF Campos
  <2> QED
    BY <2>2, <2>3
<1> QED
  BY <1>1, <1>2, <1>3, <1>4 DEF HiloDe

-----------------------------------------------------------------------------
(* The registers in a context *)

\* The order in which registers travel.
LEMMA OrdenDeRegistros ==
  /\ Orden \in Seq(Nombres) /\ Len(Generales) \in Nat /\ Len(Orden) = Len(Generales) + 3
  /\ Orden[1] = "PC"
  /\ \A k \in 1..Len(Generales) : Orden[k + 1] = Generales[k]
  /\ Orden[Len(Generales) + 2] = "BASE" /\ Orden[Len(Generales) + 3] = "LIMITE"
<1> DEFINE n == Len(Generales)
<1>1. Generales \in Seq(Nombres) /\ n \in Nat
  <2>1. Generales \in Seq(STRING)
    BY CicloConstantes
  <2>2. n \in Nat /\ Generales \in [1..n -> Nombres]
    BY <2>1 DEF Nombres, NombresGenerales
  <2> QED
    BY <2>2, SeqDef
<1>2. <<"PC">> \in Seq(Nombres) /\ <<"BASE", "LIMITE">> \in Seq(Nombres)
  BY DEF Nombres
<1> DEFINE u == <<"PC">> \o Generales
<1>3. u \in Seq(Nombres) /\ Len(u) = n + 1 /\ u[1] = "PC" /\ \A k \in 1..n : u[k + 1] = Generales[k]
  <2>1. /\ u \in Seq(Nombres) /\ Len(u) = 1 + n
        /\ \A i \in 1..1 : u[i] = <<"PC">>[i] /\ \A k \in 1..n : u[1 + k] = Generales[k]
    BY <1>1, <1>2, Concatenadas
  <2> QED
    BY <1>1, <2>1
<1> HIDE DEF u
<1>4. /\ Orden \in Seq(Nombres) /\ Len(Orden) = n + 1 + 2
      /\ \A i \in 1..(n + 1) : Orden[i] = u[i]
      /\ Orden[n + 1 + 1] = "BASE" /\ Orden[n + 1 + 2] = "LIMITE"
  <2>1. Orden = u \o <<"BASE", "LIMITE">>
    BY DEF Orden, u
  <2>2. Len(<<"BASE", "LIMITE">>) = 2 /\ 1 \in 1..2 /\ 2 \in 1..2 /\ n + 1 \in Nat
    BY <1>1
  <2> QED
    BY <1>1, <1>2, <1>3, <2>1, <2>2, Concatenadas
<1> QED
  BY <1>1, <1>3, <1>4

\* Each register has a place of its own.
LEMMA LugarDeRegistro ==
  /\ \A r \in Nombres : Lugar(r) \in 1..Len(Orden) /\ Orden[Lugar(r)] = r
  /\ \A r \in Guardables : Lugar(r) \in 1..(Len(Generales) + 1)
  /\ \A k \in 1..Len(Orden) : Orden[k] \in Nombres /\ Lugar(Orden[k]) = k
<1> DEFINE n == Len(Generales)
<1>1. \A r \in Nombres : \E k \in 1..Len(Orden) : Orden[k] = r
  <2> SUFFICES ASSUME NEW r \in Nombres PROVE \E k \in 1..Len(Orden) : Orden[k] = r
    OBVIOUS
  <2>1. CASE r \in NombresGenerales
    <3>1. PICK i \in 1..n : r = Generales[i]
      BY <2>1 DEF NombresGenerales
    <3>2. i + 1 \in 1..Len(Orden) /\ Orden[i + 1] = r
      BY <3>1, OrdenDeRegistros
    <3> QED
      BY <3>2
  <2>2. CASE r = "PC"
    BY <2>2, OrdenDeRegistros
  <2>3. CASE r = "BASE"
    <3>1. n + 2 \in 1..Len(Orden)
      BY OrdenDeRegistros
    <3> QED
      BY <2>3, <3>1, OrdenDeRegistros
  <2>4. CASE r = "LIMITE"
    <3>1. n + 3 \in 1..Len(Orden)
      BY OrdenDeRegistros
    <3> QED
      BY <2>4, <3>1, OrdenDeRegistros
  <2> QED
    BY <2>1, <2>2, <2>3, <2>4 DEF Nombres
<1>2. \A r \in Nombres : Lugar(r) \in 1..Len(Orden) /\ Orden[Lugar(r)] = r
  BY <1>1 DEF Lugar
<1>3. \A k \in 1..Len(Orden) : Orden[k] \in Nombres
  BY OrdenDeRegistros
<1>4. \A k \in 1..Len(Orden) :
        \/ k = 1 /\ Orden[k] = "PC"
        \/ k \in 2..(n + 1) /\ k - 1 \in 1..n /\ Orden[k] = Generales[k - 1]
        \/ k = n + 2 /\ Orden[k] = "BASE"
        \/ k = n + 3 /\ Orden[k] = "LIMITE"
  <2> SUFFICES ASSUME NEW k \in 1..Len(Orden)
               PROVE  \/ k = 1 /\ Orden[k] = "PC"
                      \/ k \in 2..(n + 1) /\ k - 1 \in 1..n /\ Orden[k] = Generales[k - 1]
                      \/ k = n + 2 /\ Orden[k] = "BASE"
                      \/ k = n + 3 /\ Orden[k] = "LIMITE"
    OBVIOUS
  <2>1. k = 1 \/ k \in 2..(n + 1) \/ k = n + 2 \/ k = n + 3
    BY OrdenDeRegistros
  <2>2. CASE k \in 2..(n + 1)
    <3>1. k - 1 \in 1..n /\ k - 1 + 1 = k
      BY <2>2, OrdenDeRegistros
    <3>2. Orden[k - 1 + 1] = Generales[k - 1]
      BY <3>1, OrdenDeRegistros
    <3> QED
      BY <2>2, <3>1, <3>2
  <2> QED
    BY <2>1, <2>2, OrdenDeRegistros
<1>5. /\ \A i \in 1..n : Generales[i] \notin {"PC", "BASE", "LIMITE"}
      /\ \A i, j \in 1..n : Generales[i] = Generales[j] => i = j
  BY CicloConstantes DEF NombresGenerales
<1>6. ASSUME NEW j \in 1..Len(Orden), NEW k \in 1..Len(Orden), Orden[j] = Orden[k] PROVE j = k
  <2>1. CASE j \in 2..(n + 1) /\ k \in 2..(n + 1) /\ j - 1 \in 1..n /\ k - 1 \in 1..n
             /\ Orden[j] = Generales[j - 1] /\ Orden[k] = Generales[k - 1]
    <3>1. j - 1 = k - 1
      BY <1>5, <1>6, <2>1
    <3> QED
      BY <3>1
  <2> QED
    BY <1>4, <1>5, <1>6, <2>1
<1>7. \A k \in 1..Len(Orden) : Lugar(Orden[k]) = k
  BY <1>2, <1>3, <1>6
<1>8. ASSUME NEW r \in Guardables PROVE Lugar(r) \in 1..(n + 1)
  <2>1. r \in Nombres /\ r # "BASE" /\ r # "LIMITE"
    BY CicloConstantes DEF Guardables, Nombres
  <2>2. Lugar(r) \in 1..Len(Orden) /\ Orden[Lugar(r)] = r
    BY <1>2, <2>1
  <2>3. Lugar(r) # n + 2 /\ Lugar(r) # n + 3
    BY <2>1, <2>2, OrdenDeRegistros
  <2> QED
    BY <2>2, <2>3, OrdenDeRegistros
<1> QED
  BY <1>2, <1>3, <1>7, <1>8

-----------------------------------------------------------------------------
(* A channel whose only question, or answer, is the last message *)

\* A message goes after those that nobody answers.
LEMMA AgregaAlFinal ==
  ASSUME NEW S, NEW s \in Seq(S), NEW m \in S, NEW G, SoloAlFinal(s, G), ~Pide(s, G)
  PROVE  /\ Append(s, m) \in Seq(S) /\ Append(s, m) # <<>>
         /\ Ultimo(Append(s, m)) = m
         /\ SoloAlFinal(Append(s, m), G)
         /\ Pide(Append(s, m), G) <=> m.op \notin G
<1> DEFINE n == Len(s)
           t == Append(s, m)
<1>1. /\ n \in Nat /\ t \in Seq(S) /\ Len(t) = n + 1 /\ t[n + 1] = m /\ t # <<>>
      /\ \A i \in 1..n : t[i] = s[i]
  OBVIOUS
<1>2. ASSUME NEW i \in 1..n PROVE s[i].op \in G
  <2>1. CASE i = n
    <3>1. s # <<>>
      BY <1>2, <2>1
    <3> QED
      BY <3>1, <2>1 DEF Pide, Ultimo
  <2>2. CASE i # n
    <3>1. i \in 1..(n - 1)
      BY <1>1, <1>2, <2>2
    <3> QED
      BY <3>1 DEF SoloAlFinal
  <2> QED
    BY <2>1, <2>2
<1> HIDE DEF t
<1>3. Ultimo(t) = m
  BY <1>1 DEF Ultimo
<1>4. SoloAlFinal(t, G)
  <2>1. \A i \in 1..(Len(t) - 1) : i \in 1..n
    BY <1>1
  <2> QED
    BY <1>1, <1>2, <2>1 DEF SoloAlFinal
<1> QED
  BY <1>1, <1>3, <1>4 DEF t, Pide

\* The first message leaves; if it is the question, none is left.
LEMMA SacaDelPrincipio ==
  ASSUME NEW S, NEW s \in Seq(S), NEW G, s # <<>>, SoloAlFinal(s, G)
  PROVE  /\ Head(s) \in S /\ Tail(s) \in Seq(S)
         /\ SoloAlFinal(Tail(s), G)
         /\ Head(s).op \notin G => Pide(s, G) /\ Ultimo(s) = Head(s) /\ Tail(s) = <<>>
         /\ Head(s).op \in G => /\ Pide(Tail(s), G) <=> Pide(s, G)
                                /\ Tail(s) # <<>> => Ultimo(Tail(s)) = Ultimo(s)
<1> DEFINE n == Len(s)
           t == Tail(s)
<1>a. n \in Nat /\ n >= 1 /\ t \in Seq(S) /\ Len(t) = n - 1 /\ Head(s) = s[1] /\ s[1] \in S
  OBVIOUS
<1>b. \A i \in 1..(n - 1) : t[i] = s[i + 1]
  OBVIOUS
<1>c. t = <<>> <=> n = 1
  BY <1>a
<1> HIDE DEF t
<1>1. /\ n \in Nat /\ n >= 1 /\ t \in Seq(S) /\ Len(t) = n - 1 /\ Head(s) = s[1] /\ s[1] \in S
      /\ \A i \in 1..(n - 1) : t[i] = s[i + 1]
      /\ t = <<>> <=> n = 1
  BY <1>a, <1>b, <1>c
<1>2. SoloAlFinal(t, G)
  <2>1. \A i \in 1..(Len(t) - 1) : i \in 1..(n - 1) /\ i + 1 \in 1..(n - 1)
    BY <1>1
  <2> QED
    BY <1>1, <2>1 DEF SoloAlFinal
<1>3. CASE Head(s).op \notin G
  <2>1. n = 1
    <3>1. ~(1 \in 1..(n - 1))
      BY <1>1, <1>3 DEF SoloAlFinal
    <3> QED
      BY <1>1, <3>1
  <2>2. Ultimo(s) = Head(s)
    BY <1>1, <2>1 DEF Ultimo
  <2> QED
    BY <1>1, <1>2, <1>3, <2>1, <2>2 DEF Pide, t
<1>4. CASE Head(s).op \in G
  <2>1. CASE n = 1
    <3>1. ~Pide(s, G)
      BY <1>1, <1>4, <2>1 DEF Pide, Ultimo
    <3>2. t = <<>>
      BY <1>1, <2>1
    <3> QED
      BY <1>1, <1>2, <1>4, <3>1, <3>2 DEF Pide, t
  <2>2. CASE n # 1
    <3>1. n - 1 \in 1..(n - 1) /\ n - 1 + 1 = n
      BY <1>1, <2>2
    <3>2. Ultimo(t) = Ultimo(s) /\ t # <<>>
      BY <1>1, <3>1, <2>2 DEF Ultimo
    <3> QED
      BY <1>1, <1>2, <1>4, <3>2 DEF Pide, t
  <2> QED
    BY <2>1, <2>2
<1> QED
  BY <1>3, <1>4

-----------------------------------------------------------------------------
(* What a step does to the conversation with memoria *)

\* The types of the invariant are those of the run, and more.
LEMMA TiposTypeOK == Tipos => TypeOK
<1>1. {"contexto", "fetch", "lectura", "escritura", "retorno"} = Semaforos \cup {"retorno"}
  BY DEF Semaforos
<1> QED
  BY <1>1 DEF Tipos, TiposCpu, Canales, TiposMemoria, TiposKernel, TypeOK, Word, Byte, Guardables

\* In the phases in which it waits for nothing, nothing is on its way to the CPU.
Callada == ~Pregunta /\ ~Contestada /\ SinPosts
LEMMA NadaEnCamino ==
  ASSUME Canales, Conversa, fase \notin {"contexto", "fetch", "lee", "escribe"}
  PROVE  Callada
<1>1. \A o : ~EsperaPor(o)
  BY DEF EsperaPor
<1>2. \A s \in Semaforos : sem[s] \in {0, 1}
  BY DEF Canales
<1> QED
  BY <1>1, <1>2 DEF Conversa, Callada, SinPosts

\* The semaphore of one phase only has a post.
LEMMA PostTomado ==
  ASSUME Canales, Conversa, NEW s \in Semaforos, Wait(s)
  PROVE  /\ EsperaPor(s) /\ cm = <<>> /\ ~Pregunta /\ ~Contestada /\ SinPosts'
         /\ sem' \in [Semaforos \cup {"retorno"} -> {0, 1}]
<1>1. sem[s] = 1 /\ sem' = [sem EXCEPT ![s] = 0]
  <2>1. sem[s] \in {0, 1} /\ sem[s] > 0 /\ sem' = [sem EXCEPT ![s] = sem[s] - 1]
    BY DEF Wait, Canales
  <2>2. sem[s] = 1 /\ sem[s] - 1 = 0
    BY <2>1
  <2> QED
    BY <2>1, <2>2
<1>2. EsperaPor(s) /\ cm = <<>> /\ ~Contestada
  BY <1>1 DEF Conversa
<1>3. ASSUME NEW u \in Semaforos, u # s PROVE sem[u] = 0
  <2>1. ~EsperaPor(u)
    BY <1>2, <1>3 DEF EsperaPor, Semaforos
  <2> QED
    BY <2>1 DEF Conversa, Canales
<1>4. SinPosts'
  BY <1>1, <1>3 DEF SinPosts, Canales
<1> QED
  BY <1>1, <1>2, <1>4 DEF Pregunta, Pide, Canales

\* The conversation with memoria does not change ...
LEMMA ConversaQuieta ==
  ASSUME Conversa, UNCHANGED <<cm, mc, fase, hilo>>, \A s \in Semaforos : sem'[s] = sem[s]
  PROVE  Conversa'
BY DEF Conversa, Pregunta, Contestada, EsperaPor, SinPosts

\* ... nor while nothing is asked nor answered ...
LEMMA ConversaCallada ==
  ASSUME Conversa, ~Pregunta, ~Contestada, SinPosts', UNCHANGED <<cm, mc>>
  PROVE  Conversa' /\ ~Pregunta' /\ ~Contestada'
BY DEF Conversa, Pregunta, Contestada, SinPosts

\* ... and goes on with a question ...
LEMMA ConversaAlPedir ==
  ASSUME Canales, Conversa, ~Pregunta, ~Contestada, SinPosts', mc' = mc,
         NEW m \in Pedidos, cm' = Append(cm, m),
         m.op \in OpsGuardar \/ (EsperaPor(m.op)' /\ HiloDe(m.buffer) = hilo')
  PROVE  /\ Conversa' /\ ~Contestada' /\ Ultimo(cm)' = m
         /\ cm' \in Seq(Pedidos)
         /\ Pregunta' <=> m.op \notin OpsGuardar
<1>1. /\ cm' \in Seq(Pedidos) /\ cm' # <<>> /\ Ultimo(cm') = m
      /\ SoloAlFinal(cm', OpsGuardar)
      /\ Pide(cm', OpsGuardar) <=> m.op \notin OpsGuardar
  BY AgregaAlFinal DEF Canales, Conversa, Pregunta
<1>2. ~Contestada' /\ SoloAlFinal(mc', OpsAviso)
  BY DEF Contestada, Conversa
<1>3. \A s \in Semaforos : sem'[s] = 0
  BY DEF SinPosts
<1> QED
  BY <1>1, <1>2, <1>3 DEF Conversa, Pregunta

\* memoria takes a question and answers it, or a context and tells that it has it.
LEMMA ConversaAlContestar ==
  ASSUME Canales, Conversa, cm # <<>>, cm' = Tail(cm), UNCHANGED <<fase, hilo, sem>>,
         NEW r \in Contestaciones, mc' = Append(mc, r),
         \/ Head(cm).op \in OpsGuardar /\ r.op \in OpsAviso
         \/ Head(cm).op \notin OpsGuardar /\ r.op \notin OpsAviso
            /\ (EsperaPor(Head(cm).op) => EsperaPor(r.op))
  PROVE  /\ Conversa' /\ cm' \in Seq(Pedidos) /\ mc' \in Seq(Contestaciones)
         /\ Contestada' <=> (Contestada \/ r.op \notin OpsAviso)
         /\ r.op \notin OpsAviso => Ultimo(mc)' = r
         /\ r.op \in OpsAviso => /\ (Pregunta' <=> Pregunta) /\ ~Contestada
                                 /\ Pregunta => Ultimo(cm)' = Ultimo(cm)
<1>1. /\ cm' \in Seq(Pedidos) /\ SoloAlFinal(cm', OpsGuardar)
      /\ Head(cm).op \notin OpsGuardar => Pregunta /\ Ultimo(cm) = Head(cm) /\ cm' = <<>>
      /\ Head(cm).op \in OpsGuardar => /\ Pregunta' <=> Pregunta
                                       /\ cm' # <<>> => Ultimo(cm') = Ultimo(cm)
  BY SacaDelPrincipio DEF Canales, Conversa, Pregunta
<1>2. ~Contestada
  BY DEF Conversa
<1>3. /\ mc' \in Seq(Contestaciones) /\ Ultimo(mc') = r /\ SoloAlFinal(mc', OpsAviso)
      /\ Contestada' <=> r.op \notin OpsAviso
  BY <1>2, AgregaAlFinal DEF Canales, Conversa, Contestada
<1>4. \A s \in Semaforos : sem[s] # 1
  BY DEF Conversa
<1>5. CASE Head(cm).op \in OpsGuardar /\ r.op \in OpsAviso
  <2>1. Pregunta' => cm' # <<>>
    BY DEF Pregunta, Pide
  <2>2. Pregunta' => EsperaPor(Ultimo(cm).op)' /\ HiloDe(Ultimo(cm).buffer)' = hilo' /\ SinPosts'
    BY <1>1, <1>5, <2>1 DEF Conversa, EsperaPor, SinPosts
  <2> QED
    BY <1>1, <1>2, <1>3, <1>4, <1>5, <2>1, <2>2 DEF Conversa
<1>6. CASE Head(cm).op \notin OpsGuardar /\ r.op \notin OpsAviso
  <2>1. EsperaPor(r.op) /\ SinPosts
    BY <1>1, <1>6 DEF Conversa
  <2>2. EsperaPor(r.op)' /\ SinPosts' /\ cm' = <<>> /\ ~Pregunta'
    BY <2>1, <1>1, <1>6 DEF EsperaPor, SinPosts, Pregunta, Pide
  <2> QED
    BY <1>1, <1>2, <1>3, <1>4, <1>6, <2>2 DEF Conversa
<1> QED
  BY <1>5, <1>6

\* ... with a notice that is read ...
LEMMA ConversaAlEnterarse ==
  ASSUME Canales, Conversa, mc # <<>>, Head(mc).op \in OpsAviso, mc' = Tail(mc),
         UNCHANGED <<fase, hilo, sem, cm>>
  PROVE  /\ Conversa' /\ mc' \in Seq(Contestaciones) /\ (Contestada' <=> Contestada)
         /\ Contestada' => Ultimo(mc)' = Ultimo(mc)
<1>1. /\ mc' \in Seq(Contestaciones) /\ SoloAlFinal(mc', OpsAviso)
      /\ Contestada' <=> Contestada
      /\ mc' # <<>> => Ultimo(mc') = Ultimo(mc)
  BY SacaDelPrincipio DEF Canales, Conversa, Contestada
<1>2. Contestada' => mc' # <<>>
  BY DEF Contestada, Pide
<1>3. Pregunta' <=> Pregunta
  BY DEF Pregunta
<1>4. Ultimo(cm') = Ultimo(cm) /\ (SinPosts' <=> SinPosts) /\ \A o : EsperaPor(o)' <=> EsperaPor(o)
  BY DEF SinPosts, EsperaPor
<1> QED
  BY <1>1, <1>2, <1>3, <1>4 DEF Conversa

\* ... and with the post that follows the answer.
LEMMA ConversaAlRecibir ==
  ASSUME Canales, Conversa, mc # <<>>, Head(mc).op \notin OpsAviso, mc' = Tail(mc),
         UNCHANGED <<fase, hilo, cm>>, NEW s \in Semaforos, Post(s),
         EsperaPor(Head(mc).op) => EsperaPor(s)
  PROVE  /\ Conversa' /\ mc' = <<>> /\ ~Contestada' /\ ~Pregunta'
         /\ sem' \in [Semaforos \cup {"retorno"} -> {0, 1}] /\ sem' = [sem EXCEPT ![s] = 1]
         /\ Contestada /\ Ultimo(mc) = Head(mc) /\ EsperaPor(Head(mc).op) /\ SinPosts
<1>1. Contestada /\ Ultimo(mc) = Head(mc) /\ mc' = <<>>
  BY SacaDelPrincipio DEF Canales, Conversa, Contestada
<1>2. EsperaPor(Head(mc).op) /\ EsperaPor(s) /\ cm = <<>> /\ SinPosts
  BY <1>1 DEF Conversa
<1>3. sem[s] = 0 /\ sem' = [sem EXCEPT ![s] = 1]
  <2>1. sem[s] = 0 /\ sem' = [sem EXCEPT ![s] = sem[s] + 1]
    BY <1>2 DEF SinPosts, Post
  <2>2. sem[s] + 1 = 1
    BY <2>1
  <2> QED
    BY <2>1, <2>2
<1>4. ASSUME NEW u \in Semaforos, u # s PROVE sem'[u] = 0
  <2>1. sem[u] = 0 /\ u \in DOMAIN sem
    BY <1>2 DEF SinPosts, Canales
  <2> QED
    BY <1>3, <1>4, <2>1
<1>5. ~Contestada' /\ ~Pregunta' /\ SoloAlFinal(mc', OpsAviso)
  <2>1. ~Contestada' /\ ~Pregunta'
    BY <1>1, <1>2 DEF Contestada, Pregunta, Pide
  <2>2. \A i : i \notin 1..(0 - 1)
    OBVIOUS
  <2>3. Len(<<>>) = 0
    OBVIOUS
  <2> QED
    BY <1>1, <2>1, <2>2, <2>3 DEF SoloAlFinal
<1>6. EsperaPor(s)'
  BY <1>2 DEF EsperaPor
<1> QED
  BY <1>1, <1>2, <1>3, <1>4, <1>5, <1>6 DEF Conversa, Canales

-----------------------------------------------------------------------------
(* Words, registers and the partition *)

\* A remainder of what is in range.
LEMMA Modulo ==
  ASSUME NEW a \in Nat, NEW n \in Nat \ {0}, a < n
  PROVE  a % n = a /\ (n + a) % n = a
OBVIOUS

\* Words are naturals, zero and one among them.
LEMMA CeroYUno == 0 \in Word /\ 1 \in Word /\ Word \subseteq Nat
BY PesoPositivo DEF Word

\* A register keeps a word.
LEMMA RegistroEscrito ==
  ASSUME NEW c \in [Nombres -> Word], NEW r, NEW v \in Word
  PROVE  [c EXCEPT ![r] = v] \in [Nombres -> Word]
OBVIOUS

\* The registers of the partition are not written.
MismaParticion(c, d) == d["BASE"] = c["BASE"] /\ d["LIMITE"] = c["LIMITE"]
LEMMA ParticionIntacta ==
  ASSUME NEW c \in [Nombres -> Word], NEW r, r \notin {"BASE", "LIMITE"}, NEW v
  PROVE  MismaParticion(c, [c EXCEPT ![r] = v])
BY DEF MismaParticion, Nombres

\* The program counter wraps around.
LEMMA PcAvanzado ==
  ASSUME contexto \in [Nombres -> Word]
  PROVE  /\ MasPC(1) \in [Nombres -> Word] /\ MismaParticion(contexto, MasPC(1))
         /\ contexto["PC"] \in Word
<1>1. contexto["PC"] \in Word /\ contexto["PC"] \in Nat
  BY CeroYUno DEF Nombres
<1>2. (contexto["PC"] + 1) % Palabra \in Word
  <2>1. contexto["PC"] + 1 \in Nat /\ Palabra \in Nat \ {0}
    BY <1>1, PesoPositivo
  <2> QED
    BY <2>1, Restos DEF Word
<1> QED
  BY <1>1, <1>2, RegistroEscrito, ParticionIntacta DEF MasPC

\* So do sums and differences.
LEMMA Operado ==
  ASSUME NEW op, NEW x \in Word, NEW y \in Word
  PROVE  Operar(op, x, y) \in Word
<1>1. x + y \in Nat /\ Palabra + x - y \in Nat /\ Palabra \in Nat \ {0}
  BY PesoPositivo DEF Word
<1> QED
  BY <1>1, Restos DEF Operar, Mas, Menos, Word

\* The partition of a process, in words.
LEMMA LaParticion ==
  ASSUME NEW p \in Pids
  PROVE  /\ Base[p] \in Word /\ Limite[p] \in Word
         /\ Limite[p] + 1 + BytesPorPalabra <= TamMemoria
         /\ Base[p] <= Limite[p] /\ Limite[p] + 1 < Palabra
         /\ BytesPorPalabra \in Nat \ {0}
<1>1. /\ Base[p] \in Nat /\ Limite[p] \in Nat /\ Base[p] <= Limite[p]
      /\ Limite[p] + BytesPorPalabra < TamMemoria /\ TamMemoria < Palabra
      /\ BytesPorPalabra \in Nat \ {0} /\ TamMemoria \in Nat
  BY CicloConstantes
<1> QED
  BY <1>1, PesoPositivo DEF Word

\* What mmu lets through is in the partition, or the byte after it.
LEMMA MmuDentro ==
  ASSUME NEW c, NEW l \in Word, NEW p \in Pids, c["BASE"] = Base[p], c["LIMITE"] = Limite[p]
  PROVE  Mmu(c, l) = Invalida \/ (EnParticion(Mmu(c, l), p) /\ Mmu(c, l) \in Word)
<1> DEFINE b == Base[p]
           m == Limite[p] + 1
<1>1. /\ b \in Nat /\ m \in Nat /\ b <= m /\ m < Palabra /\ Palabra \in Nat \ {0} /\ l \in Nat
      /\ m - b \in Nat /\ m - b < Palabra
  BY LaParticion, PesoPositivo DEF Word
<1>2. m % Palabra = m /\ Menos(m, b) = m - b
  <2>1. Palabra + m - b = Palabra + (m - b)
    BY <1>1
  <2> QED
    BY <1>1, <2>1, Modulo DEF Menos
<1>3. CASE l <= m - b
  <2>1. b + l \in Nat /\ b + l <= m /\ b + l < Palabra /\ b <= b + l
    BY <1>1, <1>3
  <2>2. Mas(b, l) = b + l
    BY <1>1, <2>1, Modulo DEF Mas
  <2>3. Mmu(c, l) = b + l
    BY <1>2, <1>3, <2>2 DEF Mmu
  <2>4. b + l \in Word
    BY <2>1, <1>1 DEF Word
  <2> QED
    BY <2>1, <2>3, <2>4 DEF EnParticion
<1>4. CASE ~(l <= m - b)
  BY <1>2, <1>4 DEF Mmu
<1> QED
  BY <1>3, <1>4

-----------------------------------------------------------------------------
(* What the steps leave as it was *)

\* What a step leaves alone keeps its type ...
LEMMA CpuQuieta ==
  TiposCpu /\ UNCHANGED <<fase, hilo, contexto, valorLectura, instr>> => TiposCpu'
BY DEF TiposCpu

\* ... in memoria ...
LEMMA MemoriaQuieta == TiposMemoria /\ UNCHANGED <<ctx, espacio, vivos, dump>> => TiposMemoria'
BY DEF TiposMemoria

\* ... and in the kernel.
LEMMA KernelQuieto ==
  TiposKernel /\ UNCHANGED <<exec, listos, bloqueados, terminados, dispKC, intCK, intKC>>
  => TiposKernel'
BY DEF TiposKernel

\* The search that is under way ...
LEMMA BusquedaQuieta ==
  Busqueda /\ UNCHANGED <<cm, servicio, pidBuscado, dump, cruce>> => Busqueda'
BY DEF Busqueda, HiloPedido, Pedido, Busca

\* ... is for the first message, which a new one does not change.
LEMMA BusquedaAlPedir ==
  ASSUME Busqueda, cm \in Seq(Pedidos), NEW m, cm' = Append(cm, m),
         UNCHANGED <<servicio, pidBuscado, dump, cruce>>
  PROVE  Busqueda'
<1>1. cm # <<>> => cm' # <<>> /\ Head(cm') = Head(cm)
  OBVIOUS
<1> QED
  BY <1>1 DEF Busqueda, HiloPedido, Pedido, Busca

\* The thread that is loaded goes on, and asks memoria for nothing.
LEMMA ParticionSigue ==
  ASSUME ParticionCargada, Corriendo, MismaParticion(contexto, contexto'),
         UNCHANGED <<hilo, cruce>>, ~Contestada',
         Pregunta' => fase' \notin {"lee", "escribe"}
  PROVE  ParticionCargada'
BY DEF ParticionCargada, MismaParticion, EsParticion, DeSuProceso

\* The partition that is loaded stays.
LEMMA ParticionQuieta ==
  ASSUME ParticionCargada, UNCHANGED <<contexto, hilo, cruce, cm, mc, fase>>,
         sem'["contexto"] = sem["contexto"]
  PROVE  ParticionCargada'
BY DEF ParticionCargada, EsParticion, DeSuProceso, Corriendo, Contestada, Pregunta

\* The conversation with the kernel, out of a syscall.
KernelCallado == dispCK \in Sobras /\ ~HayFin /\ sem["retorno"] # 1 /\ ~syscallBloquea
LEMMA SinSyscall ==
  ASSUME ConversaKernel, fase \notin {"retorno", "error", "chequea", "desaloja", "borra"}
  PROVE  KernelCallado
BY DEF ConversaKernel, KernelCallado, HayPedido

\* No syscall starts.
LEMMA SigueCallado ==
  ASSUME KernelCallado, UNCHANGED <<dispCK, intKC>>, sem'["retorno"] = sem["retorno"],
         ~syscallBloquea', fase' # "retorno",
         desalojar' => fase' \in {"lee", "chequea", "borra", "caida", "nulo"},
         fase' \in {"lee", "chequea"} /\ desalojar' /\ ~interruptFlag' => motivo' \in Errores,
         ConversaKernel
  PROVE  ConversaKernel'
BY DEF ConversaKernel, KernelCallado, HayFin

\* The conversation with the kernel does not change ...
LEMMA ConversaKernelQuieta ==
  ASSUME ConversaKernel, sem'["retorno"] = sem["retorno"],
         UNCHANGED <<fase, hilo, instr, dispCK, intKC, syscallBloquea, desalojar, motivo, interruptFlag>>
  PROVE  ConversaKernel'
BY DEF ConversaKernel, HayPedido, Cuerpo, CodigoEnCurso, HayFin

\* instr is what the cycle runs: it matters to the kernel in a syscall only.
LEMMA ConversaKernelCallada ==
  ASSUME ConversaKernel, KernelCallado, sem'["retorno"] = sem["retorno"], fase # "retorno",
         UNCHANGED <<fase, dispCK, intKC, syscallBloquea, desalojar, motivo, interruptFlag>>
  PROVE  ConversaKernel'
BY DEF ConversaKernel, KernelCallado, HayFin

-----------------------------------------------------------------------------
(* The requests of the CPU *)

\* A request carries its thread.
LEMMA HiloDelPedido ==
  ASSUME NEW h \in Hilos, NEW o, NEW vs \in Seq(Nat)
  PROVE  /\ HiloDe(Mensaje(o, Campos(h \o vs)).buffer) = h
         /\ Mensaje(o, Campos(h \o vs)).op = o
         /\ Mensaje(o, Campos(h \o vs)).buffer \in Seq(Nat)
         /\ \A k \in 1..Len(vs) : Campo(Mensaje(o, Campos(h \o vs)).buffer, 2 + k) = vs[k]
<1>1. h \o vs \in Seq(Nat)
  <2>1. PICK p \in Nat, t \in Nat : h = <<p, t>>
    BY CicloConstantes
  <2>2. h \in Seq(Nat)
    BY <2>1
  <2> QED
    BY <2>2
<1>2. Campos(h \o vs) \in Seq(Nat)
  BY <1>1, CamposDeNumeros
<1>3. Mensaje(o, Campos(h \o vs)).buffer = Campos(h \o vs) /\ Mensaje(o, Campos(h \o vs)).op = o
  BY DEF Mensaje
<1> QED
  BY <1>2, <1>3, CamposTrasHilo

\* Each request of the CPU has the fields memoria reads.
LEMMA PideContexto ==
  ASSUME NEW h \in Hilos
  PROVE  Mensaje("PEDIDO_CONTEXTO_CM", Campos(h \o <<>>)) \in Pedidos
<1> DEFINE m == Mensaje("PEDIDO_CONTEXTO_CM", Campos(h \o <<>>))
<1>1. HiloDe(m.buffer) = h /\ m.op = "PEDIDO_CONTEXTO_CM" /\ m.buffer \in Seq(Nat)
  <2>1. <<>> \in Seq(Nat)
    OBVIOUS
  <2> QED
    BY <2>1, HiloDelPedido
<1>2. m = [op |-> m.op, buffer |-> m.buffer]
  BY DEF Mensaje
<1> HIDE DEF m
<1>3. m \in [op : OpsGuardar \cup OpsConsulta, buffer : Seq(Nat)]
  BY <1>1, <1>2 DEF OpsConsulta
<1> QED
  BY <1>1, <1>3 DEF Pedidos, PedidoBien, OpsGuardar, m

LEMMA PideInstruccion ==
  ASSUME NEW h \in Hilos, NEW v \in Word
  PROVE  Mensaje("PEDIDO_INSTRUCCION", Campos(h \o <<v>>)) \in Pedidos
<1> DEFINE m == Mensaje("PEDIDO_INSTRUCCION", Campos(h \o <<v>>))
<1>1. /\ HiloDe(m.buffer) = h /\ m.op = "PEDIDO_INSTRUCCION" /\ m.buffer \in Seq(Nat)
      /\ Campo(m.buffer, 3) = v
  <2> DEFINE vs == <<v>>
  <2>1. vs \in Seq(Nat) /\ 1 \in 1..Len(vs) /\ vs[1] = v /\ 2 + 1 = 3
    BY CeroYUno
  <2> HIDE DEF vs
  <2>2. Campo(Mensaje("PEDIDO_INSTRUCCION", Campos(h \o vs)).buffer, 2 + 1) = v
    BY <2>1, HiloDelPedido
  <2> QED
    BY <2>1, <2>2, HiloDelPedido DEF vs
<1>2. m = [op |-> m.op, buffer |-> m.buffer]
  BY DEF Mensaje
<1> HIDE DEF m
<1>3. m \in [op : OpsGuardar \cup OpsConsulta, buffer : Seq(Nat)]
  BY <1>1, <1>2 DEF OpsConsulta
<1> QED
  BY <1>1, <1>3 DEF Pedidos, PedidoBien, OpsGuardar, m

LEMMA PideLectura ==
  ASSUME NEW h \in Hilos, NEW p \in Pids, NEW d \in Word, EnParticion(d, p)
  PROVE  LET m == Mensaje("PEDIDO_LECTURA_CM", Campos(h \o <<d>>))
         IN  m \in Pedidos /\ DireccionPedida(m) = d
<1> DEFINE m == Mensaje("PEDIDO_LECTURA_CM", Campos(h \o <<d>>))
<1>1. /\ HiloDe(m.buffer) = h /\ m.op = "PEDIDO_LECTURA_CM" /\ m.buffer \in Seq(Nat)
      /\ Campo(m.buffer, 3) = d
  <2> DEFINE vs == <<d>>
  <2>1. vs \in Seq(Nat) /\ 1 \in 1..Len(vs) /\ vs[1] = d /\ 2 + 1 = 3
    BY CeroYUno
  <2> HIDE DEF vs
  <2>2. Campo(Mensaje("PEDIDO_LECTURA_CM", Campos(h \o vs)).buffer, 2 + 1) = d
    BY <2>1, HiloDelPedido
  <2> QED
    BY <2>1, <2>2, HiloDelPedido DEF vs
<1>2. m = [op |-> m.op, buffer |-> m.buffer]
  BY DEF Mensaje
<1> HIDE DEF m
<1>3. m \in [op : OpsGuardar \cup OpsConsulta, buffer : Seq(Nat)]
  BY <1>1, <1>2 DEF OpsConsulta
<1> QED
  BY <1>1, <1>3 DEF Pedidos, PedidoBien, OpsGuardar, DireccionPedida, m

LEMMA PideEscritura ==
  ASSUME NEW h \in Hilos, NEW v \in Word, NEW p \in Pids, NEW d \in Word, EnParticion(d, p)
  PROVE  LET m == Mensaje("PEDIDO_ESCRITURA_CM", Campos(h \o <<v, d>>))
         IN  m \in Pedidos /\ DireccionPedida(m) = d
<1> DEFINE m == Mensaje("PEDIDO_ESCRITURA_CM", Campos(h \o <<v, d>>))
<1>1. /\ HiloDe(m.buffer) = h /\ m.op = "PEDIDO_ESCRITURA_CM" /\ m.buffer \in Seq(Nat)
      /\ Campo(m.buffer, 3) = v /\ Campo(m.buffer, 4) = d
  <2> DEFINE vs == <<v, d>>
  <2>1. /\ vs \in Seq(Nat) /\ 1 \in 1..Len(vs) /\ 2 \in 1..Len(vs) /\ vs[1] = v /\ vs[2] = d
        /\ 2 + 1 = 3 /\ 2 + 2 = 4
    BY CeroYUno
  <2> HIDE DEF vs
  <2>2. PICK r : r = Mensaje("PEDIDO_ESCRITURA_CM", Campos(h \o vs))
    OBVIOUS
  <2>3. HiloDe(r.buffer) = h /\ r.op = "PEDIDO_ESCRITURA_CM" /\ r.buffer \in Seq(Nat)
    BY <2>1, <2>2, HiloDelPedido
  <2>4. \A k \in 1..Len(vs) : Campo(r.buffer, 2 + k) = vs[k]
    BY <2>1, <2>2, HiloDelPedido
  <2>5. Campo(r.buffer, 3) = v /\ Campo(r.buffer, 4) = d
    <3>1. Campo(r.buffer, 2 + 1) = vs[1] /\ Campo(r.buffer, 2 + 2) = vs[2]
      BY <2>1, <2>4, Zenon
    <3> QED
      BY <2>1, <3>1
  <2>6. r = m
    BY <2>2 DEF vs
  <2> QED
    BY <2>3, <2>5, <2>6
<1>2. m = [op |-> m.op, buffer |-> m.buffer]
  BY DEF Mensaje
<1> HIDE DEF m
<1>3. m \in [op : OpsGuardar \cup OpsConsulta, buffer : Seq(Nat)]
  BY <1>1, <1>2 DEF OpsConsulta
<1> QED
  BY <1>1, <1>3 DEF Pedidos, PedidoBien, OpsGuardar, DireccionPedida, m

\* The message of an eviction has each register where memoria looks for it.
LEMMA PideGuardar ==
  ASSUME NEW h \in Hilos, NEW o \in OpsGuardar, NEW c \in [Nombres -> Word]
  PROVE  LET m == Mensaje(o, Campos(h \o [i \in 1..Len(Orden) |-> c[Orden[i]]]))
         IN  /\ m \in Pedidos /\ HiloDe(m.buffer) = h /\ m.op = o
             /\ \A r \in Guardables : Campo(m.buffer, 2 + Lugar(r)) = c[r]
<1> DEFINE vs == [i \in 1..Len(Orden) |-> c[Orden[i]]]
           m  == Mensaje(o, Campos(h \o vs))
<1>1. /\ vs \in Seq(Nat) /\ Len(vs) = Len(Orden)
      /\ \A r \in Guardables : Lugar(r) \in 1..Len(vs) /\ vs[Lugar(r)] = c[r] /\ c[r] \in Word
  <2>1. Len(Orden) \in Nat
    BY OrdenDeRegistros
  <2>2. \A i \in 1..Len(Orden) : c[Orden[i]] \in Nat
    BY LugarDeRegistro, CeroYUno
  <2>3. \A r \in Guardables : r \in Nombres
    BY DEF Guardables, Nombres
  <2>4. vs \in Seq(Nat) /\ Len(vs) = Len(Orden)
    BY <2>1, <2>2
  <2> QED
    BY <2>3, <2>4, LugarDeRegistro
<1> HIDE DEF vs
<1>2. /\ HiloDe(m.buffer) = h /\ m.op = o /\ m.buffer \in Seq(Nat)
      /\ \A k \in 1..Len(vs) : Campo(m.buffer, 2 + k) = vs[k]
  BY <1>1, HiloDelPedido
<1>3. m = [op |-> m.op, buffer |-> m.buffer]
  BY DEF Mensaje
<1> HIDE DEF m
<1>4. m \in [op : OpsGuardar \cup OpsConsulta, buffer : Seq(Nat)]
  BY <1>2, <1>3
<1>5. \A r \in Guardables : Campo(m.buffer, 2 + Lugar(r)) = c[r]
  BY <1>1, <1>2
<1>6. PedidoBien(m)
  BY <1>1, <1>2, <1>5 DEF PedidoBien, OpsGuardar
<1>7. m \in Pedidos
  BY <1>4, <1>6 DEF Pedidos
<1> QED
  BY <1>2, <1>5, <1>7 DEF m, vs

-----------------------------------------------------------------------------
(* The instruction cycle *)

CpuInv ==
  /\ ProgramasTipados
  /\ Tipos /\ Conversa /\ ParticionCargada /\ Busqueda /\ ConversaKernel

LEMMA CpuInvInicial == ProgramasTipados /\ Init => CpuInv
<1> SUFFICES ASSUME ProgramasTipados, Init PROVE CpuInv
  OBVIOUS
<1>1. TiposCpu
  <2>1. EnCero \in [Nombres -> Word] /\ 0 \in Word
    BY CeroYUno DEF EnCero
  <2>2. SinInstr \in Instrucciones
    BY DEF Instrucciones
  <2> QED
    BY <2>1, <2>2 DEF Init, TiposCpu, Fases
<1>2. Canales
  BY DEF Init, Canales, Semaforos
<1>3. TiposMemoria
  <2>1. 0 \in Word /\ 0 \in Byte
    BY CeroYUno, CicloConstantes DEF Byte
  <2> QED
    BY <2>1 DEF Init, TiposMemoria, Guardables
<1>4. TiposKernel
  BY DEF Init, TiposKernel
<1>5. ~Pregunta /\ ~Contestada /\ SinPosts /\ ~HayFin
  BY DEF Init, Pregunta, Contestada, Pide, SinPosts, Semaforos, HayFin
<1>6. Conversa
  <2>1. \A i : i \notin 1..(0 - 1)
    OBVIOUS
  <2>2. Len(<<>>) = 0
    OBVIOUS
  <2>3. SoloAlFinal(cm, OpsGuardar) /\ SoloAlFinal(mc, OpsAviso)
    BY <2>1, <2>2 DEF Init, SoloAlFinal
  <2> QED
    BY <1>5, <2>3 DEF Conversa, SinPosts
<1>7. ParticionCargada /\ Busqueda
  BY <1>5 DEF Init, ParticionCargada, Busqueda, Corriendo
<1>8. ConversaKernel
  BY <1>5 DEF Init, ConversaKernel, Sobras, HayFin
<1> QED
  BY <1>1, <1>2, <1>3, <1>4, <1>6, <1>7, <1>8 DEF CpuInv, Tipos

LEMMA RecibirTipos == CpuInv /\ Recibir => CpuInv'
<1> SUFFICES ASSUME CpuInv, Recibir PROVE CpuInv'
  OBVIOUS
<1>1. /\ fase = "libre" /\ fase' = "nace" /\ dispKC # <<>> /\ dispKC' = Tail(dispKC)
      /\ hilo' = HiloDe(Head(dispKC).buffer)
      /\ UNCHANGED <<contexto, instr, valorLectura, desalojar, motivo, syscallBloquea, sem, interruptFlag,
                     cm, mc, intKC, dispCK, intCK, exec, listos, bloqueados, terminados, dump, ctx, espacio,
                     vivos, servicio, pidBuscado, cruce>>
  BY DEF Recibir, kernVars, memVars
<1>2. TiposCpu /\ Canales /\ TiposMemoria /\ TiposKernel
  BY DEF CpuInv, Tipos
<1>3. dispKC' \in Seq(DeHilo("EJECUTAR_HILO")) /\ hilo' \in Hilos
  <2>1. Head(dispKC) \in DeHilo("EJECUTAR_HILO") /\ dispKC' \in Seq(DeHilo("EJECUTAR_HILO"))
    BY <1>1, <1>2 DEF TiposKernel
  <2>2. PICK h \in Hilos : Head(dispKC) = Mensaje("EJECUTAR_HILO", Campos(h))
    BY <2>1 DEF DeHilo
  <2>3. Head(dispKC).buffer = Campos(h)
    BY <2>2 DEF Mensaje
  <2> QED
    BY <1>1, <2>1, <2>3, CamposDeHilo
<1>4. Tipos'
  <2>1. TiposCpu'
    BY <1>1, <1>2, <1>3 DEF TiposCpu, Fases
  <2>2. TiposKernel'
    BY <1>1, <1>2, <1>3 DEF TiposKernel
  <2> QED
    BY <1>1, <1>2, <2>1, <2>2, MemoriaQuieta DEF Tipos, Canales
<1>5. Callada
  BY <1>1, <1>2, NadaEnCamino DEF CpuInv
<1>6. Conversa' /\ ~Pregunta' /\ ~Contestada'
  BY <1>1, <1>5, ConversaCallada DEF CpuInv, Callada, SinPosts
<1>7. ParticionCargada'
  BY <1>1, <1>5, <1>6 DEF ParticionCargada, Corriendo, Callada, SinPosts, Semaforos
<1>8. Busqueda'
  BY <1>1, BusquedaQuieta DEF CpuInv
<1>9. ConversaKernel'
  <2>1. KernelCallado
    BY <1>1, SinSyscall DEF CpuInv
  <2>2. ~desalojar
    BY <1>1 DEF CpuInv, ConversaKernel
  <2> QED
    BY <1>1, <2>1, <2>2, SigueCallado DEF CpuInv, KernelCallado
<1> QED
  BY <1>4, <1>6, <1>7, <1>8, <1>9 DEF CpuInv

LEMMA PedirContextoTipos == CpuInv /\ PedirContexto => CpuInv'
<1> SUFFICES ASSUME CpuInv, PedirContexto PROVE CpuInv'
  OBVIOUS
<1>0. PICK m : m = Mensaje("PEDIDO_CONTEXTO_CM", Campos(hilo \o <<>>))
  OBVIOUS
<1>1. /\ fase = "nace" /\ fase' = "contexto" /\ cm' = Append(cm, m)
      /\ UNCHANGED <<hilo, contexto, instr, valorLectura, desalojar, motivo, syscallBloquea, sem, interruptFlag,
                     mc, dispKC, intKC, dispCK, intCK, exec, listos, bloqueados, terminados, dump, ctx, espacio,
                     vivos, servicio, pidBuscado, cruce>>
  BY <1>0 DEF PedirContexto, APedir, kernVars, memVars
<1>2. TiposCpu /\ Canales /\ TiposMemoria /\ TiposKernel
  BY DEF CpuInv, Tipos
<1>3. hilo \in Hilos /\ m \in Pedidos /\ m.op = "PEDIDO_CONTEXTO_CM" /\ HiloDe(m.buffer) = hilo
  <2>1. hilo \in Hilos
    BY <1>1, <1>2 DEF TiposCpu
  <2>2. <<>> \in Seq(Nat)
    OBVIOUS
  <2> QED
    BY <1>0, <2>1, <2>2, PideContexto, HiloDelPedido
<1>4. Callada
  BY <1>1, <1>2, NadaEnCamino DEF CpuInv
<1>5. EsperaPor(m.op)'
  BY <1>1, <1>3 DEF EsperaPor
<1>6. Conversa' /\ ~Contestada' /\ cm' \in Seq(Pedidos)
  BY <1>1, <1>2, <1>3, <1>4, <1>5, ConversaAlPedir DEF CpuInv, Callada, SinPosts
<1>7. Tipos'
  <2>1. TiposCpu'
    BY <1>1, <1>2, <1>3 DEF TiposCpu, Fases
  <2> QED
    BY <1>1, <1>2, <1>6, <2>1, MemoriaQuieta, KernelQuieto DEF Tipos, Canales
<1>8. ParticionCargada'
  BY <1>1, <1>4, <1>6 DEF ParticionCargada, Corriendo, Callada, SinPosts, Semaforos
<1>9. Busqueda'
  BY <1>1, <1>2, BusquedaAlPedir DEF CpuInv, Canales
<1>10. ConversaKernel'
  <2>1. KernelCallado
    BY <1>1, SinSyscall DEF CpuInv
  <2>2. ~desalojar
    BY <1>1 DEF CpuInv, ConversaKernel
  <2> QED
    BY <1>1, <2>1, <2>2, SigueCallado DEF CpuInv, KernelCallado
<1> QED
  BY <1>6, <1>7, <1>8, <1>9, <1>10 DEF CpuInv

\* fetch: the thread that is loaded asks for its next instruction.
LEMMA FetchTipos ==
  ASSUME CpuInv, Fetch, hilo \in Hilos, ~Pregunta, ~Contestada, SinPosts', Corriendo, KernelCallado,
         ~desalojar', sem' \in [Semaforos \cup {"retorno"} -> {0, 1}],
         sem'["retorno"] = sem["retorno"],
         UNCHANGED <<hilo, contexto, instr, valorLectura, syscallBloquea, mc, dispKC, intKC, dispCK, intCK, exec,
                     listos, bloqueados, terminados, dump, ctx, espacio, vivos, servicio, pidBuscado, cruce>>
  PROVE  CpuInv'
<1>0. PICK v, m : v = contexto["PC"] /\ m = Mensaje("PEDIDO_INSTRUCCION", Campos(hilo \o <<v>>))
  OBVIOUS
<1>1. cm' = Append(cm, m) /\ fase' = "fetch"
  BY <1>0 DEF Fetch, APedir
<1>2. TiposCpu /\ Canales /\ TiposMemoria /\ TiposKernel
  BY DEF CpuInv, Tipos
<1>3. m \in Pedidos /\ m.op = "PEDIDO_INSTRUCCION" /\ HiloDe(m.buffer) = hilo
  <2>1. v \in Word
    BY <1>0, <1>2 DEF TiposCpu, Nombres
  <2>2. <<v>> \in Seq(Nat)
    BY <2>1, CeroYUno
  <2>3. m \in Pedidos
    BY <1>0, <2>1, PideInstruccion
  <2>4. m.op = "PEDIDO_INSTRUCCION" /\ HiloDe(m.buffer) = hilo
    <3>1. hilo \in Hilos /\ m = Mensaje("PEDIDO_INSTRUCCION", Campos(hilo \o <<v>>))
      BY <1>0
    <3> QED
      BY ONLY <2>2, <3>1, HiloDelPedido
  <2> QED
    BY <2>3, <2>4
<1>4. EsperaPor(m.op)'
  BY <1>1, <1>3 DEF EsperaPor
<1>5. Conversa' /\ ~Contestada' /\ cm' \in Seq(Pedidos)
  BY <1>1, <1>2, <1>3, <1>4, ConversaAlPedir DEF CpuInv
<1>6. Tipos'
  <2>1. TiposCpu'
    BY <1>1, <1>2 DEF TiposCpu, Fases
  <2>2. Canales'
    BY <1>2, <1>5 DEF Canales
  <2> QED
    BY <1>2, <2>1, <2>2, MemoriaQuieta, KernelQuieto DEF Tipos
<1>7. ParticionCargada'
  BY <1>1, <1>5, ParticionSigue DEF CpuInv, MismaParticion
<1>8. Busqueda'
  BY <1>1, <1>2, BusquedaAlPedir DEF CpuInv, Canales
<1>9. ConversaKernel'
  BY <1>1, SigueCallado DEF CpuInv, KernelCallado
<1> QED
  BY <1>5, <1>6, <1>7, <1>8, <1>9 DEF CpuInv

LEMMA ContextoListoTipos == CpuInv /\ ContextoListo => CpuInv'
<1> SUFFICES ASSUME CpuInv, ContextoListo PROVE CpuInv'
  OBVIOUS
<1>1. /\ fase = "contexto" /\ Wait("contexto") /\ Fetch
      /\ UNCHANGED <<hilo, contexto, instr, valorLectura, desalojar, motivo, syscallBloquea, interruptFlag,
                     mc, dispKC, intKC, dispCK, intCK, exec, listos, bloqueados, terminados, dump, ctx, espacio,
                     vivos, servicio, pidBuscado, cruce>>
  BY DEF ContextoListo, kernVars, memVars, intVars
<1>2. TiposCpu /\ Canales
  BY DEF CpuInv, Tipos
<1>3. "contexto" \in Semaforos /\ "retorno" # "contexto"
  BY DEF Semaforos
<1>4. /\ ~Pregunta /\ ~Contestada /\ SinPosts'
      /\ sem' \in [Semaforos \cup {"retorno"} -> {0, 1}]
  BY <1>1, <1>2, <1>3, PostTomado DEF CpuInv
<1>5. Corriendo /\ sem'["retorno"] = sem["retorno"]
  BY <1>1, <1>2 DEF Wait, Corriendo, Canales, Semaforos
<1>6. KernelCallado /\ ~desalojar
  BY <1>1, SinSyscall DEF CpuInv, ConversaKernel
<1> QED
  BY <1>1, <1>2, <1>4, <1>5, <1>6, FetchTipos DEF TiposCpu

-----------------------------------------------------------------------------
(* The instructions *)

\* The operands of an instruction.
LEMMA InstruccionBien ==
  ASSUME TiposCpu
  PROVE  instr.n \in Word /\ instr.a \notin {"BASE", "LIMITE"}
<1>1. SinInstr.n \in Word /\ SinInstr.a \notin {"BASE", "LIMITE"}
  BY CeroYUno DEF SinInstr
<1> QED
  BY <1>1 DEF TiposCpu, Instrucciones

\* What an instruction leaves alone.
LEMMA QuietoDeja ==
  Quieto => UNCHANGED <<hilo, instr, valorLectura, syscallBloquea, interruptFlag, mc, dispKC, intKC, intCK, exec,
                        listos, bloqueados, terminados, ctx, espacio, vivos, dump, servicio, pidBuscado, cruce>>
BY DEF Quieto, intVars, kernVars, memVars

\* What an instruction starts from, and what its first half leaves for the second.
EnMarcha ==
  /\ hilo \in Hilos /\ Corriendo /\ ~Pregunta /\ ~Contestada /\ SinPosts'
  /\ sem' \in [Semaforos \cup {"retorno"} -> {0, 1}]
LEMMA AlEjecutar ==
  ASSUME CpuInv, NEW op, Ejecuta(op)
  PROVE  /\ EnMarcha /\ KernelCallado /\ ~desalojar /\ fase = "fetch" /\ instr.op = op
         /\ sem'["retorno"] = sem["retorno"]
<1>1. fase = "fetch" /\ Wait("fetch") /\ instr.op = op
  BY DEF Ejecuta
<1>2. TiposCpu /\ Canales
  BY DEF CpuInv, Tipos
<1>3. "fetch" \in Semaforos /\ "retorno" # "fetch" /\ "fetch" \in DOMAIN sem
  BY <1>2 DEF Semaforos, Canales
<1>4. EnMarcha
  BY <1>1, <1>2, <1>3, PostTomado DEF CpuInv, EnMarcha, Corriendo, TiposCpu
<1>5. KernelCallado /\ ~desalojar
  BY <1>1, SinSyscall DEF CpuInv, ConversaKernel
<1> QED
  BY <1>1, <1>2, <1>3, <1>4, <1>5 DEF Wait, Canales

\* An instruction that ends in the CPU.
LEMMA SinPedidos ==
  ASSUME CpuInv, EnMarcha, KernelCallado, Quieto, UNCHANGED <<cm, dispCK>>,
         sem'["retorno"] = sem["retorno"],
         contexto' \in [Nombres -> Word], MismaParticion(contexto, contexto'),
         fase' \in {"chequea", "nulo"}, desalojar' /\ ~interruptFlag' => motivo' \in Errores
  PROVE  CpuInv'
<1>1. UNCHANGED <<hilo, instr, valorLectura, syscallBloquea, interruptFlag, mc, dispKC, intKC, intCK, exec,
                  listos, bloqueados, terminados, ctx, espacio, vivos, dump, servicio, pidBuscado, cruce>>
  BY QuietoDeja
<1>2. TiposCpu /\ Canales /\ TiposMemoria /\ TiposKernel
  BY DEF CpuInv, Tipos
<1>3. Conversa' /\ ~Pregunta' /\ ~Contestada'
  BY <1>1, ConversaCallada DEF CpuInv, EnMarcha
<1>4. Tipos'
  <2>1. TiposCpu'
    BY <1>1, <1>2 DEF TiposCpu, Fases, EnMarcha
  <2>2. Canales'
    BY <1>1, <1>2 DEF Canales, EnMarcha
  <2> QED
    BY <1>1, <1>2, <2>1, <2>2, MemoriaQuieta, KernelQuieto DEF Tipos
<1>5. ParticionCargada'
  BY <1>1, <1>3, ParticionSigue DEF CpuInv, EnMarcha
<1>6. Busqueda'
  BY <1>1, BusquedaQuieta DEF CpuInv
<1>7. ConversaKernel'
  BY <1>1, SigueCallado DEF CpuInv, KernelCallado
<1> QED
  BY <1>3, <1>4, <1>5, <1>6, <1>7 DEF CpuInv

LEMMA EjecutarSetTipos == CpuInv /\ EjecutarSet => CpuInv'
<1> SUFFICES ASSUME CpuInv, EjecutarSet PROVE CpuInv'
  OBVIOUS
<1>1. Ejecuta("SET") /\ Quieto /\ UNCHANGED <<cm, dispCK>> /\ fase' = "chequea"
  BY DEF EjecutarSet
<1>2. EnMarcha /\ KernelCallado /\ ~desalojar /\ sem'["retorno"] = sem["retorno"]
  BY <1>1, AlEjecutar
<1>3. contexto' \in [Nombres -> Word] /\ MismaParticion(contexto, contexto')
  <2>1. contexto \in [Nombres -> Word] /\ TiposCpu
    BY DEF CpuInv, Tipos, TiposCpu
  <2>2. MasPC(1) \in [Nombres -> Word] /\ MismaParticion(contexto, MasPC(1))
    BY <2>1, PcAvanzado
  <2>3. instr.n \in Word /\ instr.a \notin {"BASE", "LIMITE"}
    BY <2>1, InstruccionBien
  <2>4. contexto' = MasPC(1) \/ contexto' = [MasPC(1) EXCEPT ![instr.a] = instr.n]
    BY DEF EjecutarSet
  <2> HIDE DEF MasPC
  <2> QED
    BY <2>2, <2>3, <2>4, RegistroEscrito, ParticionIntacta DEF MismaParticion
<1>4. desalojar' => motivo' \in Errores
  BY <1>2 DEF EjecutarSet, SinErrar, Errar, Errores
<1> QED
  BY <1>1, <1>2, <1>3, <1>4, SinPedidos

LEMMA EjecutarSumaTipos == ASSUME CpuInv, NEW op, EjecutarSuma(op) PROVE CpuInv'
<1>1. Ejecuta(op) /\ Quieto /\ UNCHANGED <<cm, dispCK>> /\ fase' \in {"chequea", "nulo"}
  BY DEF EjecutarSuma
<1>2. EnMarcha /\ KernelCallado /\ ~desalojar /\ sem'["retorno"] = sem["retorno"]
  BY <1>1, AlEjecutar
<1>3. contexto' \in [Nombres -> Word] /\ MismaParticion(contexto, contexto')
  <2>1. contexto \in [Nombres -> Word] /\ TiposCpu
    BY DEF CpuInv, Tipos, TiposCpu
  <2>2. MasPC(1) \in [Nombres -> Word] /\ MismaParticion(contexto, MasPC(1))
    BY <2>1, PcAvanzado
  <2>3. instr.a \notin {"BASE", "LIMITE"}
    BY <2>1, InstruccionBien
  <2> DEFINE v == Operar(op, MasPC(1)[instr.a], MasPC(1)[instr.b])
  <2>4. \/ contexto' = MasPC(1)
        \/ {instr.a, instr.b} \subseteq Nombres /\ contexto' = [MasPC(1) EXCEPT ![instr.a] = v]
    BY DEF EjecutarSuma
  <2>5. {instr.a, instr.b} \subseteq Nombres => v \in Word
    BY <2>2, Operado
  <2> HIDE DEF v
  <2> QED
    BY <2>2, <2>3, <2>4, <2>5, RegistroEscrito, ParticionIntacta DEF MismaParticion
<1>4. desalojar' => motivo' \in Errores
  BY <1>2 DEF EjecutarSuma, SinErrar, Errar, Errores
<1> QED
  BY <1>1, <1>2, <1>3, <1>4, SinPedidos

LEMMA EjecutarJnzTipos == CpuInv /\ EjecutarJnz => CpuInv'
<1> SUFFICES ASSUME CpuInv, EjecutarJnz PROVE CpuInv'
  OBVIOUS
<1>1. Ejecuta("JNZ") /\ Quieto /\ UNCHANGED <<cm, dispCK>> /\ fase' = "chequea"
  BY DEF EjecutarJnz
<1>2. EnMarcha /\ KernelCallado /\ ~desalojar /\ sem'["retorno"] = sem["retorno"]
  BY <1>1, AlEjecutar
<1>3. contexto' \in [Nombres -> Word] /\ MismaParticion(contexto, contexto')
  <2>1. contexto \in [Nombres -> Word] /\ TiposCpu
    BY DEF CpuInv, Tipos, TiposCpu
  <2>2. MasPC(1) \in [Nombres -> Word] /\ MismaParticion(contexto, MasPC(1))
    BY <2>1, PcAvanzado
  <2>3. instr.n \in Word
    BY <2>1, InstruccionBien
  <2>4. contexto' = MasPC(1) \/ contexto' = [contexto EXCEPT !["PC"] = instr.n] \/ contexto' = contexto
    BY DEF EjecutarJnz
  <2>5. "PC" \notin {"BASE", "LIMITE"}
    OBVIOUS
  <2> HIDE DEF MasPC
  <2> QED
    BY <2>1, <2>2, <2>3, <2>4, <2>5, RegistroEscrito, ParticionIntacta DEF MismaParticion
<1>4. desalojar' => motivo' \in Errores
  BY <1>2 DEF EjecutarJnz, SinErrar, Errar, Errores
<1> QED
  BY <1>1, <1>2, <1>3, <1>4, SinPedidos

LEMMA EjecutarLogTipos == CpuInv /\ EjecutarLog => CpuInv'
<1> SUFFICES ASSUME CpuInv, EjecutarLog PROVE CpuInv'
  OBVIOUS
<1>1. /\ Ejecuta("LOG") /\ Quieto /\ UNCHANGED <<cm, dispCK>> /\ fase' \in {"chequea", "nulo"}
      /\ contexto' = MasPC(1) /\ (SinErrar \/ motivo' \in Errores)
  BY DEF EjecutarLog, Errar, Errores
<1>2. EnMarcha /\ KernelCallado /\ ~desalojar /\ sem'["retorno"] = sem["retorno"]
  BY <1>1, AlEjecutar
<1>3. contexto' \in [Nombres -> Word] /\ MismaParticion(contexto, contexto')
  <2>1. contexto \in [Nombres -> Word]
    BY DEF CpuInv, Tipos, TiposCpu
  <2> QED
    BY <1>1, <2>1, PcAvanzado
<1>4. desalojar' => motivo' \in Errores
  BY <1>1, <1>2 DEF SinErrar
<1> QED
  BY <1>1, <1>2, <1>3, <1>4, SinPedidos

\* An instruction that asks memoria for something and waits.
LEMMA ConPedido ==
  ASSUME CpuInv, EnMarcha, KernelCallado, Quieto, UNCHANGED dispCK,
         desalojar' => fase' = "lee" /\ motivo' \in Errores,
         sem'["retorno"] = sem["retorno"],
         contexto' = MasPC(1), fase' \in {"lee", "escribe"},
         NEW m \in Pedidos, cm' = Append(cm, m), HiloDe(m.buffer) = hilo,
         m.op = IF fase' = "lee" THEN "PEDIDO_LECTURA_CM" ELSE "PEDIDO_ESCRITURA_CM",
         NEW p \in Pids, DeSuProceso(p), EnParticion(DireccionPedida(m), p)
  PROVE  CpuInv'
<1>1. UNCHANGED <<hilo, instr, valorLectura, syscallBloquea, interruptFlag, mc, dispKC, intKC, intCK, exec,
                  listos, bloqueados, terminados, ctx, espacio, vivos, dump, servicio, pidBuscado, cruce>>
  BY QuietoDeja
<1>2. TiposCpu /\ Canales /\ TiposMemoria /\ TiposKernel
  BY DEF CpuInv, Tipos
<1>3. contexto' \in [Nombres -> Word] /\ MismaParticion(contexto, contexto')
  BY <1>2, PcAvanzado DEF TiposCpu
<1>4. EsperaPor(m.op)'
  BY DEF EsperaPor
<1>5. Conversa' /\ ~Contestada' /\ Ultimo(cm)' = m /\ cm' \in Seq(Pedidos)
  BY <1>1, <1>2, <1>4, ConversaAlPedir DEF CpuInv, EnMarcha
<1>6. Tipos'
  <2>1. TiposCpu'
    BY <1>1, <1>2, <1>3 DEF TiposCpu, Fases, EnMarcha
  <2>2. Canales'
    BY <1>1, <1>2, <1>5 DEF Canales, EnMarcha
  <2> QED
    BY <1>1, <1>2, <2>1, <2>2, MemoriaQuieta, KernelQuieto DEF Tipos
<1>7. ParticionCargada'
  <2>1. EsParticion(contexto["BASE"], contexto["LIMITE"])
    BY DEF CpuInv, EnMarcha, ParticionCargada
  <2>2. EsParticion(contexto["BASE"], contexto["LIMITE"])'
    BY <2>1, <1>1, <1>3 DEF EsParticion, DeSuProceso, MismaParticion
  <2>3. DeSuProceso(p)'
    BY <1>1 DEF DeSuProceso
  <2>4. \E q \in Pids : DeSuProceso(q)' /\ EnParticion(DireccionPedida(Ultimo(cm))', q)
    BY <2>3, <1>5 DEF DireccionPedida
  <2> QED
    BY <2>2, <2>4, <1>5 DEF ParticionCargada
<1>8. Busqueda'
  BY <1>1, <1>2, BusquedaAlPedir DEF CpuInv, Canales
<1>9. ConversaKernel'
  BY <1>1, SigueCallado DEF CpuInv, KernelCallado
<1> QED
  BY <1>5, <1>6, <1>7, <1>8, <1>9 DEF CpuInv

\* Where the loaded thread reads and writes.
LEMMA DireccionFisica ==
  ASSUME CpuInv, Corriendo, NEW r \in Nombres
  PROVE  LET d == Mmu(MasPC(1), MasPC(1)[r])
         IN  d # Invalida =>
               \E p \in Pids : DeSuProceso(p) /\ EnParticion(d, p) /\ d \in Word /\ MasPC(1)[r] \in Word
<1>1. MasPC(1) \in [Nombres -> Word] /\ MismaParticion(contexto, MasPC(1))
  BY PcAvanzado DEF CpuInv, Tipos, TiposCpu
<1>2. PICK p \in Pids : DeSuProceso(p) /\ contexto["BASE"] = Base[p] /\ contexto["LIMITE"] = Limite[p]
  BY DEF CpuInv, ParticionCargada, EsParticion
<1>3. PICK c : c = MasPC(1)
  OBVIOUS
<1>4. c[r] \in Word /\ c["BASE"] = Base[p] /\ c["LIMITE"] = Limite[p]
  BY <1>1, <1>2, <1>3 DEF MismaParticion
<1>5. Mmu(c, c[r]) = Invalida \/ (EnParticion(Mmu(c, c[r]), p) /\ Mmu(c, c[r]) \in Word)
  BY <1>4, MmuDentro
<1> QED
  BY <1>2, <1>3, <1>4, <1>5

LEMMA EjecutarReadMemTipos == CpuInv /\ EjecutarReadMem => CpuInv'
<1> SUFFICES ASSUME CpuInv, EjecutarReadMem PROVE CpuInv'
  OBVIOUS
<1>0. PICK d : d = Mmu(MasPC(1), MasPC(1)[instr.b])
  OBVIOUS
<1>1. /\ Ejecuta("READ_MEM") /\ Quieto /\ UNCHANGED dispCK /\ contexto' = MasPC(1)
      /\ \/ /\ instr.b \in Nombres /\ d # Invalida
            /\ APedir("PEDIDO_LECTURA_CM", <<d>>) /\ fase' = "lee" /\ SegunRegistro(instr.a)
         \/ /\ UNCHANGED cm /\ fase' \in {"chequea", "nulo"}
            /\ \E e \in {"ERROR_EXC", "ERROR_SEGFAULT"} : Errar(e)
  BY <1>0 DEF EjecutarReadMem, Conocido
<1>2. EnMarcha /\ KernelCallado /\ ~desalojar /\ sem'["retorno"] = sem["retorno"]
  BY <1>1, AlEjecutar
<1>3. ASSUME instr.b \in Nombres, d # Invalida, fase' = "lee", SegunRegistro(instr.a),
             APedir("PEDIDO_LECTURA_CM", <<d>>)
      PROVE  CpuInv'
  <2>1. PICK p \in Pids : DeSuProceso(p) /\ EnParticion(d, p) /\ d \in Word
    BY <1>0, <1>1, <1>2, <1>3, DireccionFisica DEF EnMarcha
  <2>2. PICK m : m = Mensaje("PEDIDO_LECTURA_CM", Campos(hilo \o <<d>>))
    OBVIOUS
  <2>3. m \in Pedidos /\ DireccionPedida(m) = d
    BY <1>2, <2>1, <2>2, PideLectura DEF EnMarcha
  <2>4. <<d>> \in Seq(Nat)
    BY <2>1, CeroYUno
  <2>5. HiloDe(m.buffer) = hilo /\ m.op = "PEDIDO_LECTURA_CM"
    BY <1>2, <2>2, <2>4, HiloDelPedido DEF EnMarcha
  <2>6. cm' = Append(cm, m) /\ (desalojar' => motivo' \in Errores)
    BY <1>2, <1>3, <2>2 DEF APedir, SegunRegistro, SinErrar, Errar, Errores
  <2> QED
    BY <1>1, <1>2, <1>3, <2>1, <2>3, <2>5, <2>6, ConPedido
<1>4. ASSUME UNCHANGED cm, fase' \in {"chequea", "nulo"}, NEW e \in {"ERROR_EXC", "ERROR_SEGFAULT"}, Errar(e)
      PROVE  CpuInv'
  <2>1. contexto' \in [Nombres -> Word] /\ MismaParticion(contexto, contexto')
    BY <1>1, PcAvanzado DEF CpuInv, Tipos, TiposCpu
  <2>2. motivo' \in Errores
    BY <1>4 DEF Errar, Errores
  <2> QED
    BY <1>1, <1>2, <1>4, <2>1, <2>2, SinPedidos
<1> QED
  BY <1>1, <1>3, <1>4

LEMMA EjecutarWriteMemTipos == CpuInv /\ EjecutarWriteMem => CpuInv'
<1> SUFFICES ASSUME CpuInv, EjecutarWriteMem PROVE CpuInv'
  OBVIOUS
<1>0. PICK d, v : d = Mmu(MasPC(1), MasPC(1)[instr.a]) /\ v = MasPC(1)[instr.b]
  OBVIOUS
<1>1. /\ Ejecuta("WRITE_MEM") /\ Quieto /\ UNCHANGED dispCK /\ contexto' = MasPC(1)
      /\ \/ /\ instr.a \in Nombres /\ instr.b \in Nombres /\ d # Invalida
            /\ APedir("PEDIDO_ESCRITURA_CM", <<v, d>>) /\ fase' = "escribe" /\ SinErrar
         \/ /\ UNCHANGED cm /\ fase' \in {"chequea", "nulo"}
            /\ \E e \in {"ERROR_EXC", "ERROR_SEGFAULT"} : Errar(e)
  BY <1>0 DEF EjecutarWriteMem, Conocido
<1>2. EnMarcha /\ KernelCallado /\ ~desalojar /\ sem'["retorno"] = sem["retorno"]
  BY <1>1, AlEjecutar
<1>a. MasPC(1) \in [Nombres -> Word] /\ MismaParticion(contexto, MasPC(1))
  BY PcAvanzado DEF CpuInv, Tipos, TiposCpu
<1>3. ASSUME instr.a \in Nombres, instr.b \in Nombres, d # Invalida, fase' = "escribe", SinErrar,
             APedir("PEDIDO_ESCRITURA_CM", <<v, d>>)
      PROVE  CpuInv'
  <2>1. PICK p \in Pids : DeSuProceso(p) /\ EnParticion(d, p) /\ d \in Word
    BY <1>0, <1>1, <1>2, <1>3, DireccionFisica DEF EnMarcha
  <2>2. PICK m : m = Mensaje("PEDIDO_ESCRITURA_CM", Campos(hilo \o <<v, d>>))
    OBVIOUS
  <2>a. v \in Word
    BY <1>0, <1>3, <1>a
  <2>3. m \in Pedidos /\ DireccionPedida(m) = d
    BY <1>2, <2>1, <2>2, <2>a, PideEscritura DEF EnMarcha
  <2>4. <<v, d>> \in Seq(Nat)
    BY <2>1, <2>a, CeroYUno
  <2>5. HiloDe(m.buffer) = hilo /\ m.op = "PEDIDO_ESCRITURA_CM"
    BY <1>2, <2>2, <2>4, HiloDelPedido DEF EnMarcha
  <2>6. cm' = Append(cm, m) /\ ~desalojar'
    BY <1>2, <1>3, <2>2 DEF APedir, SinErrar
  <2> QED
    BY <1>1, <1>2, <1>3, <2>1, <2>3, <2>5, <2>6, ConPedido
<1>4. ASSUME UNCHANGED cm, fase' \in {"chequea", "nulo"}, NEW e \in {"ERROR_EXC", "ERROR_SEGFAULT"}, Errar(e)
      PROVE  CpuInv'
  <2>2. motivo' \in Errores
    BY <1>4 DEF Errar, Errores
  <2> QED
    BY <1>1, <1>2, <1>4, <1>a, <2>2, SinPedidos
<1> QED
  BY <1>1, <1>3, <1>4

\* The second half of a read or a write.
LEMMA AlVolver ==
  ASSUME CpuInv, NEW s \in Semaforos, Wait(s), fase \in {"lee", "escribe"}
  PROVE  /\ EnMarcha /\ KernelCallado /\ sem'["retorno"] = sem["retorno"]
         /\ desalojar /\ ~interruptFlag => motivo \in Errores
<1>1. TiposCpu /\ Canales
  BY DEF CpuInv, Tipos
<1>2. EnMarcha
  BY <1>1, PostTomado DEF CpuInv, EnMarcha, Corriendo, TiposCpu
<1>3. KernelCallado /\ (desalojar /\ ~interruptFlag => motivo \in Errores)
  <2>1. KernelCallado
    BY SinSyscall DEF CpuInv
  <2> QED
    BY <2>1 DEF CpuInv, ConversaKernel, KernelCallado
<1>4. "retorno" # s /\ s \in DOMAIN sem
  BY <1>1 DEF Semaforos, Canales
<1> QED
  BY <1>1, <1>2, <1>3, <1>4 DEF Wait, Canales

LEMMA LecturaListaTipos == CpuInv /\ LecturaLista => CpuInv'
<1> SUFFICES ASSUME CpuInv, LecturaLista PROVE CpuInv'
  OBVIOUS
<1>1. /\ fase = "lee" /\ Wait("lectura") /\ Quieto /\ UNCHANGED <<desalojar, motivo, cm, dispCK>>
      /\ fase' \in {"chequea", "nulo"}
  BY DEF LecturaLista
<1>2. /\ EnMarcha /\ KernelCallado /\ sem'["retorno"] = sem["retorno"]
      /\ desalojar /\ ~interruptFlag => motivo \in Errores
  BY <1>1, AlVolver DEF Semaforos
<1>3. contexto' \in [Nombres -> Word] /\ MismaParticion(contexto, contexto')
  <2>1. contexto \in [Nombres -> Word] /\ TiposCpu /\ valorLectura \in Word
    BY DEF CpuInv, Tipos, TiposCpu
  <2>2. instr.a \notin {"BASE", "LIMITE"}
    BY <2>1, InstruccionBien
  <2>3. contexto' = [contexto EXCEPT ![instr.a] = valorLectura] \/ contexto' = contexto
    BY DEF LecturaLista
  <2> QED
    BY <2>1, <2>2, <2>3, RegistroEscrito, ParticionIntacta DEF MismaParticion
<1> QED
  BY <1>1, <1>2, <1>3, QuietoDeja, SinPedidos

LEMMA EscrituraListaTipos == CpuInv /\ EscrituraLista => CpuInv'
<1> SUFFICES ASSUME CpuInv, EscrituraLista PROVE CpuInv'
  OBVIOUS
<1>1. /\ fase = "escribe" /\ Wait("escritura") /\ Quieto /\ UNCHANGED <<contexto, desalojar, motivo, cm, dispCK>>
      /\ fase' = "chequea"
  BY DEF EscrituraLista
<1>2. /\ EnMarcha /\ KernelCallado /\ sem'["retorno"] = sem["retorno"]
      /\ desalojar /\ ~interruptFlag => motivo \in Errores
  BY <1>1, AlVolver DEF Semaforos
<1>3. contexto' \in [Nombres -> Word] /\ MismaParticion(contexto, contexto')
  BY <1>1 DEF CpuInv, Tipos, TiposCpu, MismaParticion
<1> QED
  BY <1>1, <1>2, <1>3, QuietoDeja, SinPedidos

-----------------------------------------------------------------------------
(* Syscalls and evictions *)

\* The op codes are told apart.
LEMMA ValoresDeCodigo ==
  /\ Codigo("MENSAJE") = 0 /\ Codigo("DESALOJO_SYSCALL") = 1 /\ Codigo("DUMP_MEMORY") = 2
  /\ Codigo("ERROR") = 3 /\ Codigo("MUTEX_LOCK") = 4 /\ Codigo("PROCESS_EXIT") = 5
  /\ Codigo("THREAD_EXIT") = 6
<1> DEFINE C == Codigos
<1>1. /\ 1..Len(C) = {1, 2, 3, 4, 5, 6, 7}
      /\ C[1] = "MENSAJE" /\ C[2] = "DESALOJO_SYSCALL" /\ C[3] = "DUMP_MEMORY" /\ C[4] = "ERROR"
      /\ C[5] = "MUTEX_LOCK" /\ C[6] = "PROCESS_EXIT" /\ C[7] = "THREAD_EXIT"
  BY DEF Codigos
<1>2. ASSUME NEW i \in 1..7
      PROVE  (CHOOSE k \in 1..Len(C) : C[k] = C[i]) = i
  <2>1. i \in 1..Len(C)
    BY <1>1
  <2>2. \A k \in 1..Len(C) : C[k] = C[i] => k = i
    BY <1>1, SMTT(20)
  <2> HIDE DEF C
  <2>3. \E k \in 1..Len(C) : C[k] = C[i]
    BY <2>1
  <2> QED
    BY <2>2, <2>3
<1>3. \A i \in 1..7 : Codigo(C[i]) = i - 1
  BY <1>2 DEF Codigo
<1> HIDE DEF C
<1> QED
  BY <1>1, <1>3

\* A packet on the stream.
LEMMA EnCanal ==
  ASSUME NEW k \in Nat, NEW h \in Hilos
  PROVE  Serializar(k, Campos(h)) = <<k, 4, 1, h[1], 1, h[2]>>
<1>1. PICK a \in Nat, b \in Nat : Campos(h) = <<1, a, 1, b>> /\ a = h[1] /\ b = h[2]
  BY CamposDeHilo
<1> DEFINE s == <<k, 4>>
           t == <<1, a, 1, b>>
           u == <<k, 4, 1, a, 1, b>>
<1>2. s \in Seq(Nat) /\ Len(s) = 2 /\ t \in Seq(Nat) /\ Len(t) = 4 /\ u \in Seq(Nat) /\ Len(u) = 6
  OBVIOUS
<1>3. s \o t \in Seq(Nat) /\ Len(s \o t) = 6
  BY <1>2
<1>4. \A i \in 1..6 : (s \o t)[i] = u[i]
  OBVIOUS
<1> DEFINE w == s \o t
<1>5. s \o t = u
  <2>1. w \in Seq(Nat) /\ Len(w) = 6 /\ u \in Seq(Nat) /\ Len(u) = 6 /\ \A i \in 1..6 : w[i] = u[i]
    BY <1>2, <1>3, <1>4
  <2> HIDE DEF w, s, t, u
  <2>2. w = u
    BY <2>1, SeqEqual
  <2> QED
    BY <2>2 DEF w
<1> HIDE DEF s, t, u, w
<1> QED
  BY <1>1, <1>2, <1>5 DEF Serializar, s, t, u

\* The thread that is loaded saves its context: a syscall, an error or an interrupt.
LEMMA AlGuardar ==
  ASSUME CpuInv, hilo \in Hilos, ~Pregunta, ~Contestada, SinPosts', Corriendo,
         sem' \in [Semaforos \cup {"retorno"} -> {0, 1}],
         NEW o \in OpsGuardar, NEW c \in [Nombres -> Word], Guardar(o, c),
         contexto' \in [Nombres -> Word], MismaParticion(contexto, contexto'),
         fase' \in {"retorno", "borra", "error"},
         UNCHANGED <<hilo, instr, valorLectura, mc, dispKC, intKC, exec, listos, bloqueados, terminados, ctx,
                     espacio, vivos, dump, servicio, pidBuscado, cruce>>,
         intCK' \in Seq(DeHilo("DESALOJO_QUANTUM"))
  PROVE  Tipos' /\ Conversa' /\ ParticionCargada' /\ Busqueda'
<1>0. PICK m : m = Mensaje(o, Campos(hilo \o [i \in 1..Len(Orden) |-> c[Orden[i]]]))
  OBVIOUS
<1>1. cm' = Append(cm, m)
  BY <1>0 DEF Guardar, APedir
<1>2. TiposCpu /\ Canales /\ TiposMemoria /\ TiposKernel
  BY DEF CpuInv, Tipos
<1>3. m \in Pedidos /\ m.op \in OpsGuardar
  BY <1>0, PideGuardar
<1>4. Conversa' /\ ~Contestada' /\ cm' \in Seq(Pedidos) /\ ~Pregunta'
  BY <1>1, <1>2, <1>3, ConversaAlPedir DEF CpuInv
<1>5. Tipos'
  <2>1. TiposCpu'
    BY <1>2 DEF TiposCpu, Fases
  <2>2. Canales'
    BY <1>2, <1>4 DEF Canales
  <2>3. TiposKernel'
    BY <1>2 DEF TiposKernel
  <2> QED
    BY <1>2, <2>1, <2>2, <2>3, MemoriaQuieta DEF Tipos
<1>6. ParticionCargada'
  BY <1>4, ParticionSigue DEF CpuInv
<1>7. Busqueda'
  BY <1>1, <1>2, BusquedaAlPedir DEF CpuInv, Canales
<1> QED
  BY <1>4, <1>5, <1>6, <1>7

LEMMA EjecutarSyscallTipos == CpuInv /\ EjecutarSyscall => CpuInv'
<1> SUFFICES ASSUME CpuInv, EjecutarSyscall PROVE CpuInv'
  OBVIOUS
<1>1. PICK o \in {"MUTEX_LOCK", "DUMP_MEMORY", "THREAD_EXIT"} :
        /\ Ejecuta(o) /\ contexto' = MasPC(1)
        /\ EnviosDesalojo("DESALOJO_INSTRUCCION_CM", o, contexto')
  BY DEF EjecutarSyscall
<1>2. Quieto /\ fase' = "retorno" /\ UNCHANGED desalojar
  BY DEF EjecutarSyscall, SinErrar
<1>3. /\ EnMarcha /\ KernelCallado /\ ~desalojar /\ instr.op = o
      /\ sem'["retorno"] = sem["retorno"]
  BY <1>1, AlEjecutar
<1>4. UNCHANGED <<hilo, instr, valorLectura, syscallBloquea, interruptFlag, mc, dispKC, intKC, intCK, exec,
                  listos, bloqueados, terminados, ctx, espacio, vivos, dump, servicio, pidBuscado, cruce>>
  BY <1>2, QuietoDeja
<1>5. contexto' \in [Nombres -> Word] /\ MismaParticion(contexto, contexto')
  BY <1>1, PcAvanzado DEF CpuInv, Tipos, TiposCpu
<1>6. PICK c : c = contexto'
  OBVIOUS
<1>7. Guardar("DESALOJO_INSTRUCCION_CM", c) /\ dispCK' = dispCK \o Serializar(Codigo(o), Campos(hilo))
  BY <1>1, <1>6 DEF EnviosDesalojo, AlKernel
<1>8. intCK' \in Seq(DeHilo("DESALOJO_QUANTUM")) /\ "DESALOJO_INSTRUCCION_CM" \in OpsGuardar
  BY <1>4 DEF CpuInv, Tipos, TiposKernel, OpsGuardar
<1>9. Tipos' /\ Conversa' /\ ParticionCargada' /\ Busqueda'
  BY <1>2, <1>3, <1>4, <1>5, <1>6, <1>7, <1>8, AlGuardar DEF EnMarcha
<1>10. ConversaKernel'
  <2>a. Codigo(o) \in Nat /\ hilo \in Hilos
    BY <1>3, ValoresDeCodigo DEF EnMarcha
  <2>b. dispCK' = dispCK \o <<Codigo(o), 4, 1, hilo[1], 1, hilo[2]>>
    BY <1>7, <2>a, EnCanal
  <2>c. CodigoEnCurso' = Codigo(o) /\ hilo' = hilo
    BY <1>2, <1>3, <1>4 DEF CodigoEnCurso
  <2>1. dispCK' = dispCK \o Cuerpo'
    BY <2>b, <2>c DEF Cuerpo
  <2>2. HayPedido'
    BY <1>2, <1>3, <2>1 DEF KernelCallado, HayPedido
  <2>3. instr'.op \in Syscalls
    BY <1>3, <1>4 DEF Syscalls
  <2> QED
    BY <1>2, <1>3, <1>4, <2>2, <2>3 DEF CpuInv, ConversaKernel, KernelCallado, HayFin
<1> QED
  BY <1>9, <1>10 DEF CpuInv

LEMMA EjecutarProcessExitTipos == CpuInv /\ EjecutarProcessExit => CpuInv'
<1> SUFFICES ASSUME CpuInv, EjecutarProcessExit PROVE CpuInv'
  OBVIOUS
<1>1. /\ Ejecuta("PROCESS_EXIT") /\ contexto' = contexto
      /\ EnviosDesalojo("DESALOJO_INSTRUCCION_CM", "PROCESS_EXIT", contexto)
      /\ Quieto /\ fase' = "retorno" /\ UNCHANGED desalojar
  BY DEF EjecutarProcessExit, SinErrar
<1>3. /\ EnMarcha /\ KernelCallado /\ ~desalojar /\ instr.op = "PROCESS_EXIT"
      /\ sem'["retorno"] = sem["retorno"]
  BY <1>1, AlEjecutar
<1>4. UNCHANGED <<hilo, instr, valorLectura, syscallBloquea, interruptFlag, mc, dispKC, intKC, intCK, exec,
                  listos, bloqueados, terminados, ctx, espacio, vivos, dump, servicio, pidBuscado, cruce>>
  BY <1>1, QuietoDeja
<1>6. PICK c : c = contexto
  OBVIOUS
<1>5. contexto' \in [Nombres -> Word] /\ MismaParticion(contexto, contexto') /\ c \in [Nombres -> Word]
  BY <1>1, <1>6 DEF CpuInv, Tipos, TiposCpu, MismaParticion
<1>7. /\ Guardar("DESALOJO_INSTRUCCION_CM", c)
      /\ dispCK' = dispCK \o Serializar(Codigo("PROCESS_EXIT"), Campos(hilo))
  BY <1>1, <1>6 DEF EnviosDesalojo, AlKernel
<1>8. intCK' \in Seq(DeHilo("DESALOJO_QUANTUM")) /\ "DESALOJO_INSTRUCCION_CM" \in OpsGuardar
  BY <1>4 DEF CpuInv, Tipos, TiposKernel, OpsGuardar
<1>9. Tipos' /\ Conversa' /\ ParticionCargada' /\ Busqueda'
  BY <1>1, <1>3, <1>4, <1>5, <1>7, <1>8, AlGuardar DEF EnMarcha
<1>10. ConversaKernel'
  <2>a. Codigo("PROCESS_EXIT") \in Nat /\ hilo \in Hilos
    BY <1>3, ValoresDeCodigo DEF EnMarcha
  <2>b. dispCK' = dispCK \o <<Codigo("PROCESS_EXIT"), 4, 1, hilo[1], 1, hilo[2]>>
    BY <1>7, <2>a, EnCanal
  <2>c. CodigoEnCurso' = Codigo("PROCESS_EXIT") /\ hilo' = hilo
    BY <1>1, <1>3, <1>4 DEF CodigoEnCurso
  <2>1. dispCK' = dispCK \o Cuerpo'
    BY <2>b, <2>c DEF Cuerpo
  <2>2. HayPedido'
    BY <1>1, <1>3, <2>1 DEF KernelCallado, HayPedido
  <2>3. instr'.op \in Syscalls
    BY <1>3, <1>4 DEF Syscalls
  <2> QED
    BY <1>1, <1>3, <1>4, <2>2, <2>3 DEF CpuInv, ConversaKernel, KernelCallado, HayFin
<1> QED
  BY <1>9, <1>10 DEF CpuInv

LEMMA RetornarTipos == CpuInv /\ Retornar => CpuInv'
<1> SUFFICES ASSUME CpuInv, Retornar PROVE CpuInv'
  OBVIOUS
<1>1. /\ fase = "retorno" /\ Wait("retorno") /\ Quieto /\ UNCHANGED <<cm, dispCK>> /\ fase' = "chequea"
      /\ IF syscallBloquea THEN desalojar' = TRUE /\ motivo' = "DESALOJO_SYSCALL"
                           ELSE UNCHANGED <<desalojar, motivo>>
  BY DEF Retornar, Errar, SinErrar
<1>2. TiposCpu /\ Canales /\ TiposMemoria /\ TiposKernel
  BY DEF CpuInv, Tipos
<1>3. UNCHANGED <<hilo, instr, valorLectura, syscallBloquea, interruptFlag, mc, dispKC, intKC, intCK, exec,
                  listos, bloqueados, terminados, ctx, espacio, vivos, dump, servicio, pidBuscado, cruce>>
  BY <1>1, QuietoDeja
<1>4. sem["retorno"] = 1 /\ sem' = [sem EXCEPT !["retorno"] = 0]
  <2>1. sem["retorno"] \in {0, 1} /\ sem["retorno"] > 0 /\ sem' = [sem EXCEPT !["retorno"] = sem["retorno"] - 1]
    BY <1>1, <1>2 DEF Wait, Canales
  <2>2. sem["retorno"] = 1 /\ sem["retorno"] - 1 = 0
    BY <2>1
  <2> QED
    BY <2>1, <2>2
<1>5. Callada
  BY <1>1, <1>2, NadaEnCamino DEF CpuInv
<1>6. SinPosts' /\ sem' \in [Semaforos \cup {"retorno"} -> {0, 1}] /\ sem'["retorno"] = 0
  <2>1. "retorno" \notin Semaforos
    BY DEF Semaforos
  <2> QED
    BY <1>2, <1>4, <1>5, <2>1 DEF Callada, SinPosts, Canales
<1>7. contexto' \in [Nombres -> Word] /\ MismaParticion(contexto, contexto')
  <2>1. contexto' = contexto \/ contexto' = MasPC(1)
    BY DEF Retornar
  <2> QED
    BY <1>2, <2>1, PcAvanzado DEF TiposCpu, MismaParticion
<1>8. Conversa' /\ ~Pregunta' /\ ~Contestada'
  BY <1>1, <1>3, <1>5, <1>6, ConversaCallada DEF CpuInv, Callada
<1>9. Tipos'
  <2>1. TiposCpu'
    BY <1>1, <1>2, <1>3, <1>7 DEF TiposCpu, Fases
  <2>2. Canales'
    BY <1>1, <1>2, <1>3, <1>6 DEF Canales
  <2> QED
    BY <1>2, <1>3, <2>1, <2>2, MemoriaQuieta, KernelQuieto DEF Tipos
<1>10. ParticionCargada'
  BY <1>1, <1>3, <1>7, <1>8, ParticionSigue DEF CpuInv, Corriendo
<1>11. Busqueda'
  BY <1>1, <1>3, BusquedaQuieta DEF CpuInv
<1>12. ConversaKernel'
  <2>1. dispCK = <<>> /\ ~HayFin /\ ~desalojar
    BY <1>1, <1>4 DEF CpuInv, ConversaKernel
  <2>2. dispCK' \in Sobras /\ ~HayFin'
    BY <1>1, <1>3, <2>1 DEF Sobras, HayFin
  <2> QED
    BY <1>1, <1>3, <1>6, <2>1, <2>2 DEF CpuInv, ConversaKernel
<1> QED
  BY <1>8, <1>9, <1>10, <1>11, <1>12 DEF CpuInv

LEMMA CheckInterruptTipos == CpuInv /\ CheckInterrupt => CpuInv'
<1> SUFFICES ASSUME CpuInv, CheckInterrupt PROVE CpuInv'
  OBVIOUS
<1>1. /\ fase = "chequea" /\ desalojar' = (desalojar \/ interruptFlag)
      /\ IF desalojar' THEN fase' = "desaloja" /\ UNCHANGED cm ELSE Fetch
      /\ UNCHANGED <<hilo, contexto, instr, valorLectura, motivo, syscallBloquea, sem, interruptFlag,
                     mc, dispKC, intKC, dispCK, intCK, exec, listos, bloqueados, terminados, dump, ctx, espacio,
                     vivos, servicio, pidBuscado, cruce>>
  BY DEF CheckInterrupt, kernVars, memVars, intVars
<1>2. TiposCpu /\ Canales /\ TiposMemoria /\ TiposKernel
  BY DEF CpuInv, Tipos
<1>3. Callada
  BY <1>1, <1>2, NadaEnCamino DEF CpuInv
<1>4. dispCK \in Sobras /\ ~HayFin /\ sem["retorno"] # 1
  BY <1>1 DEF CpuInv, ConversaKernel, HayPedido
<1>5. CASE desalojar'
  <2>1. Conversa' /\ ~Pregunta' /\ ~Contestada'
    BY <1>1, <1>3, <1>5, ConversaCallada DEF CpuInv, Callada, SinPosts
  <2>2. Tipos'
    <3>1. TiposCpu'
      BY <1>1, <1>2, <1>5 DEF TiposCpu, Fases
    <3>2. Canales'
      BY <1>1, <1>2, <1>5 DEF Canales
    <3> QED
      BY <1>1, <1>2, <3>1, <3>2, MemoriaQuieta, KernelQuieto DEF Tipos
  <2>3. ParticionCargada'
    BY <1>1, <2>1, ParticionSigue DEF CpuInv, Corriendo, MismaParticion
  <2>4. Busqueda'
    BY <1>1, <1>5, BusquedaQuieta DEF CpuInv
  <2>5. ConversaKernel'
    <3>1. fase' = "desaloja" /\ dispCK' \in Sobras /\ ~HayFin' /\ sem'["retorno"] # 1
      BY <1>1, <1>4, <1>5 DEF HayFin
    <3>2. syscallBloquea => desalojar /\ dispCK = <<>> /\ motivo = "DESALOJO_SYSCALL"
      BY <1>1 DEF CpuInv, ConversaKernel
    <3>3. ~interruptFlag => motivo \in Errores \/ syscallBloquea
      BY <1>1, <1>5 DEF CpuInv, ConversaKernel
    <3> QED
      BY <1>1, <1>5, <3>1, <3>2, <3>3 DEF CpuInv, ConversaKernel
  <2> QED
    BY <2>1, <2>2, <2>3, <2>4, <2>5 DEF CpuInv
<1>6. CASE ~desalojar'
  <2>1. ~syscallBloquea
    BY <1>1, <1>6 DEF CpuInv, ConversaKernel
  <2>2. KernelCallado
    BY <1>4, <2>1 DEF KernelCallado
  <2>3. SinPosts' /\ hilo \in Hilos /\ Corriendo
    BY <1>1, <1>2, <1>3 DEF Callada, SinPosts, TiposCpu, Corriendo
  <2> QED
    BY <1>1, <1>2, <1>3, <1>6, <2>2, <2>3, FetchTipos DEF Callada, Canales
<1> QED
  BY <1>5, <1>6

LEMMA DesalojarPorQuantumTipos == CpuInv /\ DesalojarPorQuantum => CpuInv'
<1> SUFFICES ASSUME CpuInv, DesalojarPorQuantum PROVE CpuInv'
  OBVIOUS
<1>1. /\ fase = "desaloja" /\ desalojar /\ interruptFlag /\ ~syscallBloquea
      /\ IF nombre
         THEN /\ Guardar("DESALOJO_INTR", contexto)
              /\ intCK' = Append(intCK, Mensaje("DESALOJO_QUANTUM", Campos(hilo)))
              /\ fase' = "borra"
         ELSE fase' = "caida" /\ UNCHANGED <<cm, intCK>>
      /\ UNCHANGED <<hilo, contexto, instr, valorLectura, syscallBloquea, sem, interruptFlag, desalojar,
                     mc, dispKC, intKC, dispCK, exec, listos, bloqueados, terminados, dump, ctx, espacio,
                     vivos, servicio, pidBuscado, cruce>>
  BY DEF DesalojarPorQuantum, Desaloja, PorInterrupcion, kernVars, memVars, intVars
<1>2. TiposCpu /\ Canales /\ TiposMemoria /\ TiposKernel
  BY DEF CpuInv, Tipos
<1>3. Callada /\ SinPosts' /\ hilo \in Hilos /\ Corriendo
  BY <1>1, <1>2, NadaEnCamino DEF CpuInv, Callada, SinPosts, TiposCpu, Corriendo
<1>4. ConversaKernel'
  <2>1. KernelCallado
    BY <1>1 DEF CpuInv, ConversaKernel, HayPedido, KernelCallado
  <2>2. fase' \in {"borra", "caida"}
    BY <1>1
  <2> QED
    BY <1>1, <2>1, <2>2, SigueCallado DEF CpuInv, KernelCallado
<1>5. CASE nombre
  <2>1. PICK c : c = contexto
    OBVIOUS
  <2>2. intCK' \in Seq(DeHilo("DESALOJO_QUANTUM")) /\ "DESALOJO_INTR" \in OpsGuardar
    <3>1. Mensaje("DESALOJO_QUANTUM", Campos(hilo)) \in DeHilo("DESALOJO_QUANTUM")
      BY <1>3 DEF DeHilo
    <3>2. intCK \in Seq(DeHilo("DESALOJO_QUANTUM"))
      BY <1>2 DEF TiposKernel
    <3> QED
      BY <1>1, <1>5, <3>1, <3>2 DEF OpsGuardar
  <2>3. c \in [Nombres -> Word] /\ contexto' \in [Nombres -> Word] /\ MismaParticion(contexto, contexto')
    BY <1>1, <1>2, <2>1 DEF TiposCpu, MismaParticion
  <2>4. Tipos' /\ Conversa' /\ ParticionCargada' /\ Busqueda'
    BY <1>1, <1>2, <1>3, <1>5, <2>1, <2>2, <2>3, AlGuardar DEF Callada, Canales
  <2> QED
    BY <1>4, <2>4 DEF CpuInv
<1>6. CASE ~nombre
  <2>1. Conversa' /\ ~Pregunta' /\ ~Contestada'
    BY <1>1, <1>3, <1>6, ConversaCallada DEF CpuInv, Callada
  <2>2. Tipos'
    <3>1. TiposCpu'
      BY <1>1, <1>2, <1>6 DEF TiposCpu, Fases
    <3>2. Canales'
      BY <1>1, <1>2, <1>6 DEF Canales
    <3> QED
      BY <1>1, <1>2, <1>6, <3>1, <3>2, MemoriaQuieta, KernelQuieto DEF Tipos
  <2>3. ParticionCargada'
    BY <1>1, <1>3, <2>1, ParticionSigue DEF CpuInv, MismaParticion
  <2>4. Busqueda'
    BY <1>1, <1>6, BusquedaQuieta DEF CpuInv
  <2> QED
    BY <1>4, <2>1, <2>2, <2>3, <2>4 DEF CpuInv
<1> QED
  BY <1>5, <1>6

LEMMA DesalojarPorSyscallTipos == CpuInv /\ DesalojarPorSyscall => CpuInv'
<1> SUFFICES ASSUME CpuInv, DesalojarPorSyscall PROVE CpuInv'
  OBVIOUS
<1>1. /\ fase = "desaloja" /\ desalojar /\ motivo = "DESALOJO_SYSCALL" /\ fase' = "borra"
      /\ interruptFlag => syscallBloquea
      /\ dispCK' = dispCK \o Serializar(Codigo("DESALOJO_SYSCALL"), Campos(<<>>))
      /\ Quieto /\ UNCHANGED <<desalojar, contexto, motivo, sem, cm>>
  BY DEF DesalojarPorSyscall, Desaloja, PorInterrupcion, AlKernel
<1>2. TiposCpu /\ Canales /\ TiposMemoria /\ TiposKernel
  BY DEF CpuInv, Tipos
<1>3. UNCHANGED <<hilo, instr, valorLectura, syscallBloquea, interruptFlag, mc, dispKC, intKC, intCK, exec,
                  listos, bloqueados, terminados, ctx, espacio, vivos, dump, servicio, pidBuscado, cruce>>
  BY <1>1, QuietoDeja
<1>4. Callada /\ SinPosts' /\ Corriendo
  BY <1>1, <1>2, NadaEnCamino DEF CpuInv, Callada, SinPosts, Corriendo
<1>5. Conversa' /\ ~Pregunta' /\ ~Contestada'
  BY <1>1, <1>3, <1>4, ConversaCallada DEF CpuInv, Callada
<1>6. Tipos'
  <2>1. TiposCpu'
    BY <1>1, <1>2, <1>3 DEF TiposCpu, Fases
  <2>2. Canales'
    BY <1>1, <1>2, <1>3 DEF Canales
  <2> QED
    BY <1>2, <1>3, <2>1, <2>2, MemoriaQuieta, KernelQuieto DEF Tipos
<1>7. ParticionCargada'
  BY <1>1, <1>3, <1>4, <1>5, ParticionSigue DEF CpuInv, MismaParticion
<1>8. Busqueda'
  BY <1>1, <1>3, BusquedaQuieta DEF CpuInv
<1>9. ConversaKernel'
  <2>1. syscallBloquea
    <3>1. "DESALOJO_SYSCALL" \notin Errores
      BY DEF Errores
    <3>2. ~interruptFlag => motivo \in Errores \/ syscallBloquea
      BY <1>1 DEF CpuInv, ConversaKernel
    <3> QED
      BY <1>1, <3>1, <3>2
  <2>2. dispCK = <<>> /\ ~HayFin /\ sem["retorno"] # 1
    BY <1>1, <2>1 DEF CpuInv, ConversaKernel
  <2>3. dispCK' = <<1, 0>>
    <3>1. Campos(<<>>) = <<>>
      <4>1. Nat \subseteq Nat /\ <<>> \in Seq(Nat) /\ 0 \in Nat
        OBVIOUS
      <4> QED
        BY <4>1, CamposSeAgregan DEF NuevoBuffer
    <3>2. Len(<<>>) = 0 /\ <<1, 0>> \o <<>> = <<1, 0>> /\ <<>> \o <<1, 0>> = <<1, 0>>
      OBVIOUS
    <3> QED
      BY <1>1, <2>2, <3>1, <3>2, ValoresDeCodigo DEF Serializar
  <2>4. dispCK' \in Sobras /\ ~HayFin' /\ fase' = "borra"
    BY <1>1, <1>3, <2>2, <2>3 DEF Sobras, HayFin
  <2> QED
    BY <1>1, <1>3, <2>2, <2>4 DEF CpuInv, ConversaKernel
<1> QED
  BY <1>5, <1>6, <1>7, <1>8, <1>9 DEF CpuInv

LEMMA DesalojarPorErrorTipos == CpuInv /\ DesalojarPorError => CpuInv'
<1> SUFFICES ASSUME CpuInv, DesalojarPorError PROVE CpuInv'
  OBVIOUS
<1>1. /\ fase = "desaloja" /\ desalojar /\ motivo \in Errores /\ fase' = "error"
      /\ Guardar("DESALOJO_ERROR_CM", contexto)
      /\ dispCK' = dispCK \o Serializar(Codigo("ERROR"), Campos(hilo))
      /\ Quieto /\ UNCHANGED <<desalojar, contexto, motivo, sem>>
  BY DEF DesalojarPorError, Desaloja, EnviosDesalojo, AlKernel, Errores
<1>2. TiposCpu /\ Canales /\ TiposMemoria /\ TiposKernel
  BY DEF CpuInv, Tipos
<1>3. UNCHANGED <<hilo, instr, valorLectura, syscallBloquea, interruptFlag, mc, dispKC, intKC, intCK, exec,
                  listos, bloqueados, terminados, ctx, espacio, vivos, dump, servicio, pidBuscado, cruce>>
  BY <1>1, QuietoDeja
<1>4. Callada /\ SinPosts' /\ hilo \in Hilos /\ Corriendo
  BY <1>1, <1>2, NadaEnCamino DEF CpuInv, Callada, SinPosts, TiposCpu, Corriendo
<1>5. PICK c : c = contexto
  OBVIOUS
<1>6. c \in [Nombres -> Word] /\ contexto' \in [Nombres -> Word] /\ MismaParticion(contexto, contexto')
  BY <1>1, <1>2, <1>5 DEF TiposCpu, MismaParticion
<1>7. intCK' \in Seq(DeHilo("DESALOJO_QUANTUM")) /\ "DESALOJO_ERROR_CM" \in OpsGuardar
  BY <1>2, <1>3 DEF TiposKernel, OpsGuardar
<1>8. Tipos' /\ Conversa' /\ ParticionCargada' /\ Busqueda'
  BY <1>1, <1>2, <1>3, <1>4, <1>5, <1>6, <1>7, AlGuardar DEF Callada, Canales
<1>9. ConversaKernel'
  <2>1. KernelCallado
    <3>1. ~syscallBloquea
      BY <1>1 DEF CpuInv, ConversaKernel, Errores
    <3> QED
      BY <1>1, <3>1 DEF CpuInv, ConversaKernel, HayPedido, KernelCallado
  <2>2. dispCK' = dispCK \o Cuerpo'
    BY <1>1, <1>3, <1>4, EnCanal, ValoresDeCodigo DEF Cuerpo, CodigoEnCurso
  <2>3. HayPedido'
    BY <1>1, <2>1, <2>2 DEF KernelCallado, HayPedido
  <2>4. ~HayFin'
    BY <1>3, <2>1 DEF HayFin, KernelCallado
  <2> QED
    BY <1>1, <1>3, <2>1, <2>3, <2>4 DEF CpuInv, ConversaKernel, KernelCallado
<1> QED
  BY <1>8, <1>9 DEF CpuInv

LEMMA DeleteContextoTipos == CpuInv /\ DeleteContexto => CpuInv'
<1> SUFFICES ASSUME CpuInv, DeleteContexto PROVE CpuInv'
  OBVIOUS
<1>1. /\ fase = "borra" /\ fase' = "libre" /\ hilo' = Nadie /\ contexto' = EnCero
      /\ ~desalojar' /\ ~syscallBloquea'
      /\ UNCHANGED <<instr, valorLectura, motivo, sem, cm, mc, dispKC, intKC, dispCK, intCK, exec, listos,
                     bloqueados, terminados, dump, ctx, espacio, vivos, servicio, pidBuscado, cruce>>
  BY DEF DeleteContexto, kernVars, memVars
<1>2. TiposCpu /\ Canales /\ TiposMemoria /\ TiposKernel
  BY DEF CpuInv, Tipos
<1>3. Callada /\ SinPosts'
  BY <1>1, <1>2, NadaEnCamino DEF CpuInv, Callada, SinPosts
<1>4. Conversa' /\ ~Pregunta' /\ ~Contestada'
  BY <1>1, <1>3, ConversaCallada DEF CpuInv, Callada
<1>5. Tipos'
  <2>1. EnCero \in [Nombres -> Word]
    BY CeroYUno DEF EnCero
  <2>2. TiposCpu'
    BY <1>1, <1>2, <2>1 DEF TiposCpu, Fases
  <2>3. Canales'
    BY <1>1, <1>2 DEF Canales
  <2> QED
    BY <1>1, <1>2, <2>2, <2>3, MemoriaQuieta, KernelQuieto DEF Tipos
<1>6. ParticionCargada'
  BY <1>1, <1>3, <1>4 DEF ParticionCargada, Corriendo, SinPosts, Semaforos
<1>7. Busqueda'
  BY <1>1, BusquedaQuieta DEF CpuInv
<1>8. ConversaKernel'
  <2>1. dispCK \in Sobras /\ ~HayFin /\ sem["retorno"] # 1
    BY <1>1 DEF CpuInv, ConversaKernel, HayPedido
  <2> QED
    BY <1>1, <2>1 DEF CpuInv, ConversaKernel, HayFin
<1> QED
  BY <1>4, <1>5, <1>6, <1>7, <1>8 DEF CpuInv

LEMMA CicloTipos == CpuInv /\ Ciclo => CpuInv'
<1> SUFFICES ASSUME CpuInv, Ciclo PROVE CpuInv'
  OBVIOUS
<1>1. CASE Recibir \/ PedirContexto \/ ContextoListo
  BY <1>1, RecibirTipos, PedirContextoTipos, ContextoListoTipos
<1>2. CASE EjecutarSet \/ EjecutarSuma("SUM") \/ EjecutarSuma("SUB") \/ EjecutarJnz \/ EjecutarLog
  BY <1>2, EjecutarSetTipos, EjecutarSumaTipos, EjecutarJnzTipos, EjecutarLogTipos
<1>3. CASE EjecutarReadMem \/ EjecutarWriteMem \/ LecturaLista \/ EscrituraLista
  BY <1>3, EjecutarReadMemTipos, EjecutarWriteMemTipos, LecturaListaTipos, EscrituraListaTipos
<1>4. CASE EjecutarSyscall \/ EjecutarProcessExit \/ Retornar \/ CheckInterrupt
  BY <1>4, EjecutarSyscallTipos, EjecutarProcessExitTipos, RetornarTipos, CheckInterruptTipos
<1>5. CASE DesalojarPorQuantum \/ DesalojarPorSyscall \/ DesalojarPorError \/ DeleteContexto
  BY <1>5, DesalojarPorQuantumTipos, DesalojarPorSyscallTipos, DesalojarPorErrorTipos, DeleteContextoTipos
<1>6. QED
  BY <1>1, <1>2, <1>3, <1>4, <1>5, Zenon DEF Ciclo

-----------------------------------------------------------------------------
(* The CPU's memoria thread *)

\* What the memoria thread leaves alone.
LEMMA QuedaCpuDeja ==
  QuedaCpu => UNCHANGED <<fase, hilo, desalojar, motivo, syscallBloquea, interruptFlag, cm, dispKC, intKC,
                          dispCK, intCK, exec, listos, bloqueados, terminados, dump, ctx, espacio, vivos,
                          servicio, pidBuscado, cruce>>
BY DEF QuedaCpu, intVars, kernVars, memVars

\* The answer the cycle waits for, o, is in the channel alone.
LEMMA AlRecibir ==
  ASSUME CpuInv, NEW o \in OpsDato, Llega(o), NEW s \in Semaforos, Post(s), QuedaCpu,
         EsperaPor(o) => EsperaPor(s)
  PROVE  /\ Conversa' /\ Canales' /\ ~Contestada' /\ ~Pregunta'
         /\ Contestada /\ Ultimo(mc) = Head(mc) /\ EsperaPor(o)
         /\ Head(mc) \in Contestaciones /\ Head(mc).op = o
         /\ hilo \in Hilos /\ fase' = fase /\ sem'["retorno"] = sem["retorno"] /\ KernelCallado
         /\ TiposMemoria' /\ TiposKernel' /\ Busqueda' /\ sem'[s] = 1
         /\ s # "contexto" => sem'["contexto"] = sem["contexto"]
<1>1. /\ mc # <<>> /\ Head(mc).op = o /\ mc' = Tail(mc)
  BY DEF Llega
<1>2. TiposCpu /\ Canales /\ TiposMemoria /\ TiposKernel
  BY DEF CpuInv, Tipos
<1>3. UNCHANGED <<fase, hilo, desalojar, motivo, syscallBloquea, interruptFlag, cm, dispKC, intKC,
                  dispCK, intCK, exec, listos, bloqueados, terminados, dump, ctx, espacio, vivos,
                  servicio, pidBuscado, cruce>>
  BY QuedaCpuDeja
<1>4. o \notin OpsAviso
  BY DEF OpsDato, OpsAviso
<1>5. /\ Conversa' /\ mc' = <<>> /\ ~Contestada' /\ ~Pregunta'
      /\ sem' \in [Semaforos \cup {"retorno"} -> {0, 1}] /\ sem' = [sem EXCEPT ![s] = 1]
      /\ Contestada /\ Ultimo(mc) = Head(mc) /\ EsperaPor(o)
  BY <1>1, <1>2, <1>3, <1>4, ConversaAlRecibir DEF CpuInv
<1>6. Canales'
  <2>1. cm' \in Seq(Pedidos) /\ mc' \in Seq(Contestaciones)
    BY <1>2, <1>3, <1>5 DEF Canales
  <2> QED
    BY <1>5, <2>1 DEF Canales
<1>7. Head(mc) \in Contestaciones
  BY <1>1, <1>2 DEF Canales
<1>8. fase \in {"contexto", "fetch", "lee", "escribe"}
  BY <1>5 DEF EsperaPor
<1>9. KernelCallado /\ hilo \in Hilos
  BY <1>2, <1>8, SinSyscall DEF CpuInv, TiposCpu
<1>10. /\ sem'["retorno"] = sem["retorno"] /\ sem'[s] = 1
       /\ s # "contexto" => sem'["contexto"] = sem["contexto"]
  BY <1>2, <1>5 DEF Canales, Semaforos
<1> QED
  BY <1>1, <1>2, <1>3, <1>5, <1>6, <1>7, <1>9, <1>10, MemoriaQuieta, KernelQuieto, BusquedaQuieta DEF CpuInv

LEMMA RecvContextoTipos == CpuInv /\ RecvContexto => CpuInv'
<1> SUFFICES ASSUME CpuInv, RecvContexto PROVE CpuInv'
  OBVIOUS
<1>0. PICK b : b = Head(mc).buffer
  OBVIOUS
<1>1. /\ Llega("RESPUESTA_CONTEXTO_CM") /\ Post("contexto") /\ QuedaCpu /\ UNCHANGED <<instr, valorLectura>>
      /\ contexto' = [r \in Nombres |-> Campo(b, Lugar(r))]
  BY <1>0 DEF RecvContexto, Lugar
<1>2. UNCHANGED <<fase, hilo, desalojar, motivo, syscallBloquea, interruptFlag, intKC, dispCK, cruce>>
  BY <1>1, QuedaCpuDeja
<1>3. /\ "RESPUESTA_CONTEXTO_CM" \in OpsDato /\ "contexto" \in Semaforos
      /\ EsperaPor("RESPUESTA_CONTEXTO_CM") => EsperaPor("contexto")
  BY DEF OpsDato, Semaforos, EsperaPor
<1>4. /\ Conversa' /\ Canales' /\ ~Contestada' /\ ~Pregunta'
      /\ Contestada /\ Ultimo(mc) = Head(mc) /\ EsperaPor("RESPUESTA_CONTEXTO_CM")
      /\ Head(mc) \in Contestaciones /\ Head(mc).op = "RESPUESTA_CONTEXTO_CM"
      /\ hilo \in Hilos /\ fase' = fase /\ sem'["retorno"] = sem["retorno"] /\ KernelCallado
      /\ TiposMemoria' /\ TiposKernel' /\ Busqueda'
  BY <1>1, <1>3, AlRecibir
<1>5. fase = "contexto"
  BY <1>4 DEF EsperaPor
<1>6. contexto' \in [Nombres -> Word]
  <2>1. \A r \in Nombres : Campo(b, Lugar(r)) \in Word
    BY <1>0, <1>4 DEF Contestaciones, RespuestaBien
  <2> QED
    BY <1>1, <2>1
<1>7. TiposCpu'
  BY <1>1, <1>2, <1>4, <1>6 DEF CpuInv, Tipos, TiposCpu
<1>8. ParticionCargada'
  <2>1. EsParticion(Campo(b, Lugar("BASE")), Campo(b, Lugar("LIMITE")))
    BY <1>0, <1>4, <1>5 DEF CpuInv, ParticionCargada
  <2>2. contexto'["BASE"] = Campo(b, Lugar("BASE")) /\ contexto'["LIMITE"] = Campo(b, Lugar("LIMITE"))
    BY <1>1 DEF Nombres
  <2>3. EsParticion(contexto["BASE"], contexto["LIMITE"])'
    BY <1>2, <2>1, <2>2 DEF EsParticion, DeSuProceso
  <2> QED
    BY <1>4, <2>3 DEF ParticionCargada
<1>9. ConversaKernel'
  BY <1>1, <1>2, <1>4, <1>5, ConversaKernelCallada DEF CpuInv
<1> QED
  BY <1>4, <1>7, <1>8, <1>9 DEF CpuInv, Tipos

\* The other answers leave the registers alone.
LEMMA AlRecibirDato ==
  ASSUME CpuInv, NEW o \in OpsDato, Llega(o), NEW s \in Semaforos, Post(s), QuedaCpu,
         EsperaPor(o) => EsperaPor(s), s # "contexto",
         contexto' = contexto, instr' \in Instrucciones, valorLectura' \in Word
  PROVE  CpuInv'
<1>1. UNCHANGED <<fase, hilo, desalojar, motivo, syscallBloquea, interruptFlag, intKC, dispCK, cruce>>
  BY QuedaCpuDeja
<1>2. /\ Conversa' /\ Canales' /\ ~Contestada' /\ ~Pregunta' /\ EsperaPor(o)
      /\ hilo \in Hilos /\ fase' = fase /\ sem'["retorno"] = sem["retorno"] /\ KernelCallado
      /\ TiposMemoria' /\ TiposKernel' /\ Busqueda' /\ sem'["contexto"] = sem["contexto"]
  BY AlRecibir
<1>3. fase \in {"contexto", "fetch", "lee", "escribe"}
  BY <1>2 DEF EsperaPor
<1>4. TiposCpu'
  BY <1>1, <1>2 DEF CpuInv, Tipos, TiposCpu
<1>5. ParticionCargada'
  BY <1>1, <1>2 DEF CpuInv, ParticionCargada, Corriendo, EsParticion, DeSuProceso
<1>6. ConversaKernel'
  BY <1>1, <1>2, <1>3, ConversaKernelCallada DEF CpuInv
<1> QED
  BY <1>2, <1>4, <1>5, <1>6 DEF CpuInv, Tipos

\* The message at the head of the channel is a well formed answer.
LEMMA LoQueLlega ==
  ASSUME CpuInv, NEW o, Llega(o)
  PROVE  Head(mc) \in Contestaciones /\ Head(mc).op = o
<1>1. mc # <<>> /\ mc \in Seq(Contestaciones) /\ Head(mc).op = o
  BY DEF CpuInv, Tipos, Canales, Llega
<1> QED
  BY <1>1

LEMMA RespuestasTipos == CpuInv /\ Respuestas => CpuInv'
<1> SUFFICES ASSUME CpuInv, Respuestas PROVE CpuInv'
  OBVIOUS
<1>1. TiposCpu
  BY DEF CpuInv, Tipos
<1>2. CASE RecvContexto
  BY <1>2, RecvContextoTipos
<1>3. CASE RecvInstruction
  <2>1. /\ Llega("RESPUESTA_INSTRUCCION") /\ instr' = Campo(Head(mc).buffer, 1) /\ Post("fetch") /\ QuedaCpu
        /\ contexto' = contexto /\ valorLectura' = valorLectura
    BY <1>3 DEF RecvInstruction
  <2>2. instr' \in Instrucciones
    BY <2>1, LoQueLlega DEF Contestaciones, RespuestaBien
  <2>3. /\ "RESPUESTA_INSTRUCCION" \in OpsDato /\ "fetch" \in Semaforos /\ "fetch" # "contexto"
        /\ EsperaPor("RESPUESTA_INSTRUCCION") => EsperaPor("fetch")
    BY DEF OpsDato, Semaforos, EsperaPor
  <2> QED
    BY <1>1, <2>1, <2>2, <2>3, AlRecibirDato DEF TiposCpu
<1>4. CASE RecvLectura
  <2>1. /\ Llega("RTA_PEDIDO_LECTURA_CM") /\ valorLectura' = Campo(Head(mc).buffer, 1) /\ Post("lectura")
        /\ QuedaCpu /\ contexto' = contexto /\ instr' = instr
    BY <1>4 DEF RecvLectura
  <2>2. valorLectura' \in Word
    BY <2>1, LoQueLlega DEF Contestaciones, RespuestaBien
  <2>3. /\ "RTA_PEDIDO_LECTURA_CM" \in OpsDato /\ "lectura" \in Semaforos /\ "lectura" # "contexto"
        /\ EsperaPor("RTA_PEDIDO_LECTURA_CM") => EsperaPor("lectura")
    BY DEF OpsDato, Semaforos, EsperaPor
  <2> QED
    BY <1>1, <2>1, <2>2, <2>3, AlRecibirDato DEF TiposCpu
<1>5. CASE RecvEscritura
  <2>1. /\ Llega("RTA_PEDIDO_ESCRITURA_CM") /\ Post("escritura") /\ QuedaCpu
        /\ contexto' = contexto /\ instr' = instr /\ valorLectura' = valorLectura
    BY <1>5 DEF RecvEscritura
  <2>3. /\ "RTA_PEDIDO_ESCRITURA_CM" \in OpsDato /\ "escritura" \in Semaforos /\ "escritura" # "contexto"
        /\ EsperaPor("RTA_PEDIDO_ESCRITURA_CM") => EsperaPor("escritura")
    BY DEF OpsDato, Semaforos, EsperaPor
  <2> QED
    BY <1>1, <2>1, <2>3, AlRecibirDato DEF TiposCpu
<1>6. CASE RecvActualizado
  <2>1. /\ mc # <<>> /\ Head(mc).op \in OpsAviso /\ mc' = Tail(mc) /\ QuedaCpu
        /\ UNCHANGED <<contexto, instr, valorLectura, sem>>
    BY <1>6 DEF RecvActualizado, Llega, OpsAviso
  <2>2. UNCHANGED <<fase, hilo, desalojar, motivo, syscallBloquea, interruptFlag, cm, dispKC, intKC,
                    dispCK, intCK, exec, listos, bloqueados, terminados, dump, ctx, espacio, vivos,
                    servicio, pidBuscado, cruce>>
    BY <2>1, QuedaCpuDeja
  <2>3. Canales /\ TiposMemoria /\ TiposKernel
    BY DEF CpuInv, Tipos
  <2>4. /\ Conversa' /\ mc' \in Seq(Contestaciones) /\ (Contestada' <=> Contestada)
        /\ Contestada' => Ultimo(mc)' = Ultimo(mc)
    BY <2>1, <2>2, <2>3, ConversaAlEnterarse DEF CpuInv
  <2>5. Tipos'
    <3>1. TiposCpu'
      BY <1>1, <2>1, <2>2 DEF TiposCpu
    <3>2. Canales'
      BY <2>1, <2>2, <2>3, <2>4 DEF Canales
    <3> QED
      BY <2>2, <2>3, <3>1, <3>2, MemoriaQuieta, KernelQuieto DEF Tipos
  <2>6. ParticionCargada'
    BY <2>1, <2>2, <2>4 DEF CpuInv, ParticionCargada, Corriendo, EsParticion, DeSuProceso, Pregunta
  <2>7. Busqueda'
    BY <2>2, BusquedaQuieta DEF CpuInv
  <2>8. ConversaKernel'
    BY <2>1, <2>2, ConversaKernelQuieta DEF CpuInv
  <2> QED
    BY <2>4, <2>5, <2>6, <2>7, <2>8 DEF CpuInv
<1> QED
  BY <1>2, <1>3, <1>4, <1>5, <1>6, Zenon DEF Respuestas

-----------------------------------------------------------------------------
(* The CPU's interrupt thread *)

\* What the interrupt thread leaves alone.
LEMMA QuedaIntDeja ==
  QuedaInt => UNCHANGED <<fase, hilo, contexto, instr, valorLectura, desalojar, motivo, cm, mc, dispKC, dispCK,
                          intCK, exec, listos, bloqueados, terminados, dump, ctx, espacio, vivos,
                          servicio, pidBuscado, cruce>>
BY DEF QuedaInt, kernVars, memVars

\* The first message of intKC leaves it.
LEMMA SacaDelKernel ==
  ASSUME NEW S, NEW l \in Seq(S), l # <<>>
  PROVE  /\ Tail(l) \in Seq(S) /\ Head(l) = l[1] /\ 1 \in 1..Len(l)
         /\ \A i \in 1..Len(Tail(l)) : Tail(l)[i] = l[i + 1] /\ i + 1 \in 1..Len(l) /\ i + 1 # 1 /\ i \in Nat
OBVIOUS

LEMMA AvisosTipos == CpuInv /\ Avisos => CpuInv'
<1> SUFFICES ASSUME CpuInv, Avisos PROVE CpuInv'
  OBVIOUS
<1>1. TiposCpu /\ Canales /\ TiposMemoria /\ TiposKernel
  BY DEF CpuInv, Tipos
<1>2. QuedaInt
  BY DEF Avisos, AtenderRespuesta, InterrupcionMira, InterrupcionMarca
<1>3. UNCHANGED <<fase, hilo, contexto, instr, valorLectura, desalojar, motivo, cm, mc, dispKC, dispCK,
                  intCK, exec, listos, bloqueados, terminados, dump, ctx, espacio, vivos,
                  servicio, pidBuscado, cruce>>
  BY <1>2, QuedaIntDeja
<1>a. ASSUME intKC # <<>>, intKC' = Tail(intKC)
      PROVE  /\ intKC' \in Seq(DeHilo("DESALOJO_POR_QUANTUM") \cup Finales)
             /\ \A i, j \in 1..Len(intKC') : EsFin(intKC'[i]) /\ EsFin(intKC'[j]) => i = j
             /\ HayFin' => HayFin
             /\ EsFin(Head(intKC)) => HayFin /\ ~HayFin'
  <2>1. intKC \in Seq(DeHilo("DESALOJO_POR_QUANTUM") \cup Finales)
    BY <1>1 DEF TiposKernel
  <2>2. /\ intKC' \in Seq(DeHilo("DESALOJO_POR_QUANTUM") \cup Finales)
        /\ Head(intKC) = intKC[1] /\ 1 \in 1..Len(intKC)
        /\ \A i \in 1..Len(intKC') : intKC'[i] = intKC[i + 1] /\ i + 1 \in 1..Len(intKC) /\ i + 1 # 1 /\ i \in Nat
    BY <1>a, <2>1, SacaDelKernel
  <2>3. \A i, j \in 1..Len(intKC) : EsFin(intKC[i]) /\ EsFin(intKC[j]) => i = j
    BY DEF CpuInv, ConversaKernel
  <2>4. \A i, j \in Nat : i + 1 = j + 1 => i = j
    OBVIOUS
  <2> HIDE DEF EsFin
  <2>5. \A i, j \in 1..Len(intKC') : EsFin(intKC'[i]) /\ EsFin(intKC'[j]) => i = j
    BY <2>2, <2>3, <2>4
  <2> QED
    BY <2>2, <2>3, <2>5 DEF HayFin
<1>4. CASE AtenderRespuesta
  <2>1. /\ intKC # <<>> /\ EsFin(Head(intKC)) /\ intKC' = Tail(intKC) /\ Post("retorno")
        /\ UNCHANGED interruptFlag
    BY <1>4 DEF AtenderRespuesta, LlegaInt, EsFin
  <2>2. HayFin /\ ~HayFin'
    BY <1>a, <2>1
  <2>3. fase = "retorno" /\ dispCK = <<>> /\ sem["retorno"] = 0 /\ ~syscallBloquea /\ ~desalojar
    BY <2>2 DEF CpuInv, ConversaKernel
  <2>4. sem' = [sem EXCEPT !["retorno"] = 1]
    <3>1. sem' = [sem EXCEPT !["retorno"] = sem["retorno"] + 1] /\ sem["retorno"] + 1 = 1
      BY <2>1, <2>3 DEF Post
    <3> QED
      BY <3>1
  <2>5. /\ \A s \in Semaforos : sem'[s] = sem[s]
        /\ sem' \in [Semaforos \cup {"retorno"} -> {0, 1}] /\ sem'["retorno"] = 1
    BY <1>1, <2>4 DEF Canales, Semaforos
  <2>6. Conversa'
    BY <1>3, <2>5, ConversaQuieta DEF CpuInv
  <2>7. Tipos'
    <3>1. TiposKernel'
      BY <1>1, <1>3, <1>a, <2>1 DEF TiposKernel
    <3>2. Canales'
      BY <1>1, <1>3, <2>5 DEF Canales
    <3> QED
      BY <1>1, <1>3, <3>1, <3>2, MemoriaQuieta, CpuQuieta DEF Tipos
  <2>8. ParticionCargada' /\ Busqueda'
    BY <1>3, <2>5, ParticionQuieta, BusquedaQuieta DEF CpuInv, Semaforos
  <2>9. ConversaKernel'
    BY <1>3, <1>a, <2>1, <2>2, <2>3, <2>5 DEF CpuInv, ConversaKernel, Sobras, HayFin
  <2> QED
    BY <2>6, <2>7, <2>8, <2>9 DEF CpuInv
<1>5. CASE InterrupcionMira \/ InterrupcionMarca
  <2>1. /\ UNCHANGED <<syscallBloquea, sem>>
        /\ intKC' = intKC \/ (intKC # <<>> /\ intKC' = Tail(intKC))
        /\ interruptFlag => interruptFlag'
    BY <1>5 DEF InterrupcionMira, InterrupcionMarca, LlegaInt
  <2>2. /\ intKC' \in Seq(DeHilo("DESALOJO_POR_QUANTUM") \cup Finales)
        /\ \A i, j \in 1..Len(intKC') : EsFin(intKC'[i]) /\ EsFin(intKC'[j]) => i = j
        /\ HayFin' => HayFin
    <3>1. CASE intKC' = intKC
      BY <1>1, <3>1 DEF CpuInv, TiposKernel, ConversaKernel, HayFin
    <3>2. CASE intKC # <<>> /\ intKC' = Tail(intKC)
      BY <1>a, <3>2
    <3> QED
      BY <2>1, <3>1, <3>2
  <2>3. Conversa'
    BY <1>3, <2>1, ConversaQuieta DEF CpuInv
  <2>4. Tipos'
    <3>1. TiposKernel'
      BY <1>1, <1>3, <2>2 DEF TiposKernel
    <3>2. Canales'
      BY <1>1, <1>3, <2>1 DEF Canales
    <3> QED
      BY <1>1, <1>3, <3>1, <3>2, MemoriaQuieta, CpuQuieta DEF Tipos
  <2>5. ParticionCargada' /\ Busqueda'
    BY <1>3, <2>1, ParticionQuieta, BusquedaQuieta DEF CpuInv
  <2>6. ConversaKernel'
    <3>1. HayPedido' <=> HayPedido
      BY <1>3 DEF HayPedido, Cuerpo, CodigoEnCurso
    <3> HIDE DEF HayFin, HayPedido
    <3> QED
      BY <1>3, <2>1, <2>2, <3>1 DEF CpuInv, ConversaKernel
  <2> QED
    BY <2>3, <2>4, <2>5, <2>6 DEF CpuInv
<1> QED
  BY <1>4, <1>5 DEF Avisos

-----------------------------------------------------------------------------
(* memoria *)

\* What memoria leaves alone.
LEMMA QuedaMemDeja ==
  QuedaMem => UNCHANGED <<fase, hilo, contexto, instr, valorLectura, desalojar, motivo, syscallBloquea, sem,
                          interruptFlag, dispKC, intKC, dispCK, intCK, exec, listos, bloqueados, terminados, dump>>
BY DEF QuedaMem, cpuVars, intVars, kernVars

\* memoria takes a request and answers it.
LEMMA AlContestar ==
  ASSUME CpuInv, Mia, QuedaMem, cm' = Tail(cm), NEW r \in Contestaciones, mc' = Append(mc, r),
         \/ Head(cm).op \in OpsGuardar /\ r.op \in OpsAviso
         \/ Head(cm).op \notin OpsGuardar /\ r.op \notin OpsAviso
            /\ (EsperaPor(Head(cm).op) => EsperaPor(r.op)),
         UNCHANGED <<vivos, pidBuscado, cruce>>,
         servicio' = FALSE \/ (servicio' = servicio /\ ~Busca),
         ctx' \in [Hilos -> [Guardables -> Word]], espacio' \in [Direcciones -> Byte]
  PROVE  /\ Tipos' /\ Conversa' /\ Busqueda' /\ ConversaKernel'
         /\ Contestada' <=> r.op \notin OpsAviso
         /\ r.op \notin OpsAviso => /\ Ultimo(mc)' = r /\ ~Pregunta'
                                    /\ Pregunta /\ Ultimo(cm) = Head(cm) /\ HiloDe(Head(cm).buffer) = hilo
                                    /\ EsperaPor(Head(cm).op)
         /\ r.op \in OpsAviso => /\ (Pregunta' <=> Pregunta)
                                 /\ Pregunta => Ultimo(cm)' = Ultimo(cm)
<1>1. UNCHANGED <<fase, hilo, contexto, instr, valorLectura, desalojar, motivo, syscallBloquea, sem,
                  interruptFlag, dispKC, intKC, dispCK, intCK, exec, listos, bloqueados, terminados, dump>>
  BY QuedaMemDeja
<1>2. TiposCpu /\ Canales /\ TiposMemoria /\ TiposKernel /\ cm # <<>>
  BY DEF CpuInv, Tipos, Mia
<1>3. /\ Conversa' /\ cm' \in Seq(Pedidos) /\ mc' \in Seq(Contestaciones)
      /\ Contestada' <=> (Contestada \/ r.op \notin OpsAviso)
      /\ r.op \notin OpsAviso => Ultimo(mc)' = r
      /\ r.op \in OpsAviso => /\ (Pregunta' <=> Pregunta) /\ ~Contestada
                              /\ Pregunta => Ultimo(cm)' = Ultimo(cm)
  BY <1>1, <1>2, ConversaAlContestar DEF CpuInv
<1>4. r.op \notin OpsAviso => /\ Pregunta /\ Ultimo(cm) = Head(cm) /\ cm' = <<>> /\ ~Pregunta'
                              /\ HiloDe(Head(cm).buffer) = hilo /\ EsperaPor(Head(cm).op)
  <2>1. SUFFICES ASSUME r.op \notin OpsAviso
                 PROVE  /\ Pregunta /\ Ultimo(cm) = Head(cm) /\ cm' = <<>> /\ ~Pregunta'
                        /\ HiloDe(Head(cm).buffer) = hilo /\ EsperaPor(Head(cm).op)
    OBVIOUS
  <2>2. cm \in Seq(Pedidos) /\ SoloAlFinal(cm, OpsGuardar) /\ Head(cm).op \notin OpsGuardar
    BY <1>2, <2>1 DEF CpuInv, Conversa, Canales
  <2>3. Pregunta /\ Ultimo(cm) = Head(cm) /\ cm' = <<>>
    BY <1>2, <2>2, SacaDelPrincipio DEF Pregunta
  <2> QED
    BY <2>3 DEF CpuInv, Conversa, Pregunta, Pide
<1>5. Tipos'
  <2>1. TiposMemoria'
    BY <1>1, <1>2 DEF TiposMemoria
  <2>2. Canales'
    BY <1>1, <1>2, <1>3 DEF Canales
  <2> QED
    BY <1>1, <1>2, <2>1, <2>2, CpuQuieta, KernelQuieto DEF Tipos
<1>6. Busqueda'
  <2>1. ~servicio'
    BY DEF CpuInv, Busqueda
  <2> QED
    BY <1>1, <2>1 DEF CpuInv, Busqueda
<1>7. ConversaKernel'
  BY <1>1, ConversaKernelQuieta DEF CpuInv
<1> QED
  BY <1>3, <1>4, <1>5, <1>6, <1>7

\* A notice: the CPU's partition is as it was.
LEMMA ParticionAlAvisar ==
  ASSUME ParticionCargada, UNCHANGED <<contexto, hilo, cruce, fase, sem>>, ~Contestada',
         Pregunta' => Pregunta /\ Ultimo(cm)' = Ultimo(cm)
  PROVE  ParticionCargada'
BY DEF ParticionCargada, Corriendo, EsParticion, DeSuProceso

\* An answer that carries no partition.
LEMMA ParticionAlContestar ==
  ASSUME ParticionCargada, UNCHANGED <<contexto, hilo, cruce, fase, sem>>, ~Pregunta', fase # "contexto"
  PROVE  ParticionCargada'
BY DEF ParticionCargada, Corriendo, EsParticion, DeSuProceso

\* The request memoria serves is well formed.
LEMMA LoQuePiden ==
  ASSUME CpuInv, Mia
  PROVE  Pedido \in Pedidos /\ HiloPedido \in Hilos /\ Pedido = Head(cm)
<1>1. cm # <<>> /\ cm \in Seq(Pedidos)
  BY DEF CpuInv, Tipos, Canales, Mia
<1>2. Head(cm) \in Pedidos
  BY <1>1
<1> QED
  BY <1>2 DEF Pedido, HiloPedido, Pedidos, PedidoBien

LEMMA BuscarProcesoTipos == CpuInv /\ BuscarProceso => CpuInv'
<1> SUFFICES ASSUME CpuInv, BuscarProceso PROVE CpuInv'
  OBVIOUS
<1>1. /\ Mia /\ Busca /\ servicio' = TRUE /\ pidBuscado' = HiloPedido[1]
      /\ cruce' = (cruce \/ dump.paso = "busca")
      /\ UNCHANGED <<cm, mc, ctx, espacio, vivos>> /\ QuedaMem
  BY DEF BuscarProceso
<1>2. UNCHANGED <<fase, hilo, contexto, instr, valorLectura, desalojar, motivo, syscallBloquea, sem,
                  interruptFlag, dispKC, intKC, dispCK, intCK, exec, listos, bloqueados, terminados, dump>>
  BY <1>1, QuedaMemDeja
<1>3. Tipos'
  BY <1>1, <1>2, CpuQuieta, MemoriaQuieta, KernelQuieto DEF CpuInv, Tipos, Canales
<1>4. Conversa'
  BY <1>1, <1>2, ConversaQuieta DEF CpuInv
<1>5. ParticionCargada'
  BY <1>1, <1>2 DEF CpuInv, ParticionCargada, EsParticion, DeSuProceso, Corriendo, Contestada, Pregunta
<1>6. Busqueda'
  BY <1>1, <1>2 DEF Busqueda, Busca, HiloPedido, Pedido, Mia
<1>7. ConversaKernel'
  BY <1>2, ConversaKernelQuieta DEF CpuInv
<1> QED
  BY <1>3, <1>4, <1>5, <1>6, <1>7 DEF CpuInv

LEMMA NoEncontradoTipos == CpuInv /\ NoEncontrado => CpuInv'
<1> SUFFICES ASSUME CpuInv, NoEncontrado PROVE CpuInv'
  OBVIOUS
<1>1. UNCHANGED <<cm, mc, ctx, espacio, vivos, servicio, pidBuscado, cruce>> /\ QuedaMem
  BY DEF NoEncontrado
<1>2. UNCHANGED <<fase, hilo, contexto, instr, valorLectura, desalojar, motivo, syscallBloquea, sem,
                  interruptFlag, dispKC, intKC, dispCK, intCK, exec, listos, bloqueados, terminados, dump>>
  BY <1>1, QuedaMemDeja
<1> QED
  BY <1>1, <1>2, CpuQuieta, MemoriaQuieta, KernelQuieto, ConversaQuieta, ParticionQuieta, BusquedaQuieta,
     ConversaKernelQuieta DEF CpuInv, Tipos, Canales

\* The context that memoria sends, with the partition of the process found.
LEMMA ContextoEnviado ==
  ASSUME NEW c \in [Guardables -> Word], NEW p \in Pids
  PROVE  LET m == Mensaje("RESPUESTA_CONTEXTO_CM",
                          Campos(<<c["PC"]>> \o [i \in 1..Len(Generales) |-> c[Generales[i]]]
                                   \o <<Base[p], Limite[p]>>))
         IN  /\ m \in Contestaciones /\ m.op = "RESPUESTA_CONTEXTO_CM"
             /\ Campo(m.buffer, Lugar("BASE")) = Base[p] /\ Campo(m.buffer, Lugar("LIMITE")) = Limite[p]
             /\ \A r \in Guardables : Campo(m.buffer, Lugar(r)) = c[r]
<1> DEFINE g == [i \in 1..Len(Generales) |-> c[Generales[i]]]
           u == <<c["PC"]>>
           w == <<Base[p], Limite[p]>>
           n == Len(Generales)
<1>1. /\ n \in Nat /\ Len(Orden) = n + 3 /\ Orden[1] = "PC"
      /\ \A k \in 1..n : Orden[k + 1] = Generales[k]
      /\ Orden[n + 2] = "BASE" /\ Orden[n + 3] = "LIMITE"
  BY OrdenDeRegistros
<1>2. u \in Seq(Word) /\ Len(u) = 1 /\ u[1] = c["PC"]
  BY DEF Guardables
<1>3. g \in Seq(Word) /\ Len(g) = n /\ \A k \in 1..n : g[k] = c[Generales[k]]
  <2>1. \A k \in 1..n : Generales[k] \in Guardables
    BY DEF Guardables, NombresGenerales
  <2> QED
    BY <1>1, <2>1
<1>4. w \in Seq(Word) /\ Len(w) = 2 /\ w[1] = Base[p] /\ w[2] = Limite[p]
  BY LaParticion
<1> HIDE DEF u, g, w, n
<1>5. /\ u \o g \in Seq(Word) /\ Len(u \o g) = n + 1 /\ (u \o g)[1] = c["PC"]
      /\ \A k \in 1..n : (u \o g)[k + 1] = c[Generales[k]]
  <2>a. PICK q \in Nat : q = Len(u)
    BY <1>2
  <2>b. /\ u \o g \in Seq(Word) /\ Len(u \o g) = q + Len(g)
        /\ \A i \in 1..q : (u \o g)[i] = u[i]
        /\ \A i \in 1..Len(g) : (u \o g)[q + i] = g[i]
    <3>1. u \in Seq(Word) /\ g \in Seq(Word)
      BY <1>2, <1>3
    <3> QED
      BY ONLY <2>a, <3>1, Concatenadas
  <2>1. /\ u \o g \in Seq(Word) /\ Len(u \o g) = 1 + Len(g)
        /\ \A i \in 1..1 : (u \o g)[i] = u[i]
        /\ \A i \in 1..Len(g) : (u \o g)[1 + i] = g[i]
    BY <1>2, <2>a, <2>b
  <2>2. \A k \in 1..n : 1 + k = k + 1
    BY <1>1
  <2> QED
    BY <1>1, <1>2, <1>3, <2>1, <2>2
<1> DEFINE v == u \o g
           t == v \o w
<1>6. /\ t \in Seq(Word) /\ Len(t) = n + 3 /\ t[1] = c["PC"]
      /\ \A k \in 1..n : t[k + 1] = c[Generales[k]]
      /\ t[n + 2] = Base[p] /\ t[n + 3] = Limite[p]
  <2>1. v \in Seq(Word) /\ Len(v) = n + 1 /\ n + 1 \in Nat /\ v[1] = c["PC"]
        /\ \A k \in 1..n : v[k + 1] = c[Generales[k]]
    BY <1>1, <1>5
  <2> HIDE DEF v
  <2>a. PICK q \in Nat : q = Len(v)
    BY <2>1
  <2>b. /\ v \o w \in Seq(Word) /\ Len(v \o w) = q + Len(w)
        /\ \A i \in 1..q : (v \o w)[i] = v[i]
        /\ \A i \in 1..Len(w) : (v \o w)[q + i] = w[i]
    <3>1. v \in Seq(Word) /\ w \in Seq(Word)
      BY <2>1, <1>4
    <3> QED
      BY ONLY <2>a, <3>1, Concatenadas
  <2>2. /\ v \o w \in Seq(Word) /\ Len(v \o w) = n + 1 + Len(w)
        /\ \A i \in 1..(n + 1) : (v \o w)[i] = v[i]
        /\ \A i \in 1..Len(w) : (v \o w)[n + 1 + i] = w[i]
    <3>1. q = n + 1
      BY <2>1, <2>a
    <3> QED
      BY <2>b, <3>1
  <2>3. /\ n + 1 + 2 = n + 3 /\ n + 1 + 1 = n + 2 /\ 1 \in 1..(n + 1) /\ 1 \in 1..2 /\ 2 \in 1..2
        /\ \A k \in 1..n : k + 1 \in 1..(n + 1)
    BY <1>1
  <2>4. (v \o w)[n + 1 + 1] = Base[p] /\ (v \o w)[n + 1 + 2] = Limite[p]
    BY <2>2, <2>3, <1>4
  <2> QED
    BY <1>4, <2>1, <2>2, <2>3, <2>4
<1> HIDE DEF v, t
<1>7. \A k \in 1..Len(Orden) :
        t[k] = IF Orden[k] = "BASE" THEN Base[p] ELSE IF Orden[k] = "LIMITE" THEN Limite[p] ELSE c[Orden[k]]
  <2> SUFFICES ASSUME NEW k \in 1..Len(Orden)
      PROVE t[k] = IF Orden[k] = "BASE" THEN Base[p] ELSE IF Orden[k] = "LIMITE" THEN Limite[p] ELSE c[Orden[k]]
    OBVIOUS
  <2>1. CASE k = 1 \/ k = n + 2 \/ k = n + 3
    BY <1>1, <1>6, <2>1
  <2>2. CASE ~(k = 1 \/ k = n + 2 \/ k = n + 3)
    <3>1. k - 1 \in 1..n /\ k - 1 + 1 = k
      BY <1>1, <2>2
    <3>2. Orden[k] = Generales[k - 1] /\ t[k] = c[Generales[k - 1]]
      BY <1>1, <1>6, <3>1
    <3>3. Generales[k - 1] \notin {"BASE", "LIMITE"}
      BY <3>1, CicloConstantes DEF NombresGenerales, n
    <3> QED
      BY <3>2, <3>3
  <2> QED
    BY <2>1, <2>2
<1>8. \A r \in Nombres :
        /\ Lugar(r) \in 1..Len(t)
        /\ t[Lugar(r)] = IF r = "BASE" THEN Base[p] ELSE IF r = "LIMITE" THEN Limite[p] ELSE c[r]
  BY <1>1, <1>6, <1>7, LugarDeRegistro
<1> DEFINE m == Mensaje("RESPUESTA_CONTEXTO_CM", Campos(t))
<1>9. m.op = "RESPUESTA_CONTEXTO_CM" /\ m.buffer = Campos(t) /\ m = [op |-> m.op, buffer |-> m.buffer]
  BY DEF Mensaje
<1>10. Campos(t) \in Seq(Nat \cup Instrucciones) /\ \A k \in 1..Len(t) : Campo(Campos(t), k) = t[k]
  <2> DEFINE S == Nat \cup Instrucciones
  <2>a. \A i \in 1..Len(t) : t[i] \in S
    <3>1. t \in Seq(Word) /\ Word \subseteq S
      BY <1>6, CeroYUno
    <3> HIDE DEF S
    <3>2. \A i \in 1..Len(t) : t[i] \in Word
      BY ONLY <3>1
    <3> QED
      BY <3>1, <3>2
  <2>b. t = [i \in 1..Len(t) |-> t[i]] /\ Len(t) \in Nat
    BY <1>6
  <2>c. [i \in 1..Len(t) |-> t[i]] \in Seq(S)
    <3> HIDE DEF S
    <3> QED
      BY <2>a, <2>b
  <2>1. t \in Seq(Nat \cup Instrucciones) /\ Nat \subseteq Nat \cup Instrucciones /\ Len(t) \in Nat
    BY <2>b, <2>c
  <2> HIDE DEF S
  <2> QED
    BY <2>1, CamposDeNumeros, CampoDeCampos
<1> HIDE DEF m
<1>11. \A r \in Nombres :
         Campo(m.buffer, Lugar(r)) = IF r = "BASE" THEN Base[p] ELSE IF r = "LIMITE" THEN Limite[p] ELSE c[r]
  BY <1>8, <1>9, <1>10
<1>12. \A r \in Nombres \ {"BASE", "LIMITE"} : r \in Guardables /\ c[r] \in Word
  BY DEF Nombres, Guardables
<1>13. \A r \in Guardables : r \in Nombres /\ r \notin {"BASE", "LIMITE"}
  BY CicloConstantes DEF Nombres, Guardables
<1>14. m \in Contestaciones
  <2>1. RespuestaBien(m)
    BY <1>9, <1>11, <1>12, LaParticion DEF RespuestaBien
  <2>2. m \in [op : OpsAviso \cup OpsDato, buffer : Seq(Nat \cup Instrucciones)]
    BY <1>9, <1>10 DEF OpsDato
  <2> QED
    BY <2>1, <2>2 DEF Contestaciones
<1>15. "BASE" \in Nombres /\ "LIMITE" \in Nombres
  BY DEF Nombres
<1> QED
  BY <1>9, <1>11, <1>13, <1>14, <1>15 DEF m, t, v, u, g, w, n

LEMMA PedidoContextoTipos == CpuInv /\ PedidoContexto => CpuInv'
<1> SUFFICES ASSUME CpuInv, PedidoContexto PROVE CpuInv'
  OBVIOUS
<1>0. PICK c, p, r :
        /\ c = ctx[Hallado] /\ p = pidBuscado
        /\ r = Mensaje("RESPUESTA_CONTEXTO_CM",
                       Campos(<<c["PC"]>> \o [i \in 1..Len(Generales) |-> c[Generales[i]]]
                                \o <<Base[p], Limite[p]>>))
  OBVIOUS
<1>1. /\ Mia /\ servicio /\ Head(cm).op = "PEDIDO_CONTEXTO_CM" /\ Hallado \in vivos /\ servicio' = FALSE
      /\ mc' = Append(mc, r) /\ cm' = Tail(cm)
      /\ UNCHANGED <<ctx, espacio, vivos, pidBuscado, cruce>> /\ QuedaMem
  BY <1>0 DEF PedidoContexto, Halla, Pedido, Contesta
<1>2. TiposCpu /\ Canales /\ TiposMemoria
  BY DEF CpuInv, Tipos
<1>3. c \in [Guardables -> Word] /\ p \in Pids
  <2>1. Hallado \in Hilos /\ Hallado[1] = p
    BY <1>0, <1>1, <1>2 DEF TiposMemoria, Hallado
  <2> QED
    BY <1>0, <1>2, <2>1 DEF TiposMemoria, Pids
<1>4. /\ r \in Contestaciones /\ r.op = "RESPUESTA_CONTEXTO_CM"
      /\ Campo(r.buffer, Lugar("BASE")) = Base[p] /\ Campo(r.buffer, Lugar("LIMITE")) = Limite[p]
  BY <1>0, <1>3, ContextoEnviado
<1>5. /\ Head(cm).op \notin OpsGuardar /\ r.op \notin OpsAviso
      /\ EsperaPor(Head(cm).op) => EsperaPor(r.op)
  BY <1>1, <1>4 DEF OpsGuardar, OpsAviso, EsperaPor
<1>6. /\ Tipos' /\ Conversa' /\ Busqueda' /\ ConversaKernel' /\ Ultimo(mc)' = r /\ ~Pregunta'
      /\ HiloDe(Head(cm).buffer) = hilo /\ EsperaPor(Head(cm).op)
  BY <1>1, <1>2, <1>4, <1>5, AlContestar DEF TiposMemoria
<1>7. ParticionCargada'
  <2>1. fase = "contexto"
    BY <1>1, <1>6 DEF EsperaPor
  <2>2. UNCHANGED <<fase, hilo, contexto, sem, cruce>>
    BY <1>1, QuedaMemDeja
  <2>3. ~cruce => p = hilo[1]
    BY <1>0, <1>1, <1>6 DEF CpuInv, Busqueda, HiloPedido, Pedido
  <2>4. EsParticion(Base[p], Limite[p])'
    BY <1>3, <2>2, <2>3 DEF EsParticion, DeSuProceso
  <2>5. Corriendo' => EsParticion(contexto["BASE"], contexto["LIMITE"])'
    BY <2>2 DEF CpuInv, ParticionCargada, Corriendo, EsParticion, DeSuProceso
  <2> QED
    BY <1>4, <1>6, <2>4, <2>5 DEF ParticionCargada
<1> QED
  BY <1>6, <1>7 DEF CpuInv

\* A message of memoria with one field.
LEMMA UnCampo ==
  ASSUME NEW o \in OpsAviso \cup OpsDato, NEW v \in Nat \cup Instrucciones,
         o # "RESPUESTA_CONTEXTO_CM",
         o = "RESPUESTA_INSTRUCCION" => v \in Instrucciones,
         o = "RTA_PEDIDO_LECTURA_CM" => v \in Word
  PROVE  /\ Mensaje(o, Campos(<<v>>)) \in Contestaciones /\ Mensaje(o, Campos(<<v>>)).op = o
         /\ Campo(Mensaje(o, Campos(<<v>>)).buffer, 1) = v
<1> DEFINE vs == <<v>>
           m == Mensaje(o, Campos(vs))
           S == Nat \cup Instrucciones
<1>1. vs \in Seq(S) /\ Len(vs) \in Nat /\ 1 \in 1..Len(vs) /\ vs[1] = v /\ Nat \subseteq S
  OBVIOUS
<1> HIDE DEF vs, S
<1>2. Campos(vs) \in Seq(S) /\ Campo(Campos(vs), 1) = v
  <2>1. Campos(vs) \in Seq(S)
    BY <1>1, CamposDeNumeros
  <2>2. \A k \in 1..Len(vs) : Campo(Campos(vs), k) = vs[k]
    BY <1>1, CampoDeCampos
  <2> QED
    BY <1>1, <2>1, <2>2
<1>3. m.op = o /\ m.buffer = Campos(vs) /\ m = [op |-> m.op, buffer |-> m.buffer]
  BY DEF Mensaje
<1> HIDE DEF m
<1>5. m \in [op : OpsAviso \cup OpsDato, buffer : Seq(S)] /\ RespuestaBien(m)
  BY <1>2, <1>3 DEF RespuestaBien
<1> QED
  BY <1>2, <1>3, <1>5 DEF Contestaciones, m, vs, S

LEMMA ActualizarContextoTipos == CpuInv /\ ActualizarContexto => CpuInv'
<1> SUFFICES ASSUME CpuInv, ActualizarContexto PROVE CpuInv'
  OBVIOUS
<1>0. PICK r, b : r = Mensaje("RTA_ACTUALIZAR_CONTEXTO_CM", Campos(<<1>>)) /\ b = Pedido.buffer
  OBVIOUS
<1>1. /\ Mia /\ servicio /\ Pedido.op \in OpsGuardar /\ Hallado \in vivos /\ servicio' = FALSE
      /\ mc' = Append(mc, r) /\ cm' = Tail(cm)
      /\ ctx' = [ctx EXCEPT ![Hallado] = [g \in DOMAIN ctx[Hallado] |-> Campo(b, 2 + Lugar(g))]]
      /\ UNCHANGED <<espacio, vivos, pidBuscado, cruce>> /\ QuedaMem
  BY <1>0 DEF ActualizarContexto, Halla, Contesta, OpsGuardar, Lugar
<1>2. TiposCpu /\ Canales /\ TiposMemoria /\ Pedido \in Pedidos /\ Pedido = Head(cm)
  BY <1>1, LoQuePiden DEF CpuInv, Tipos
<1>3. ctx' \in [Hilos -> [Guardables -> Word]]
  <2>1. \A g \in Guardables : Campo(b, 2 + Lugar(g)) \in Word
    BY <1>0, <1>1, <1>2 DEF Pedidos, PedidoBien
  <2>2. Hallado \in Hilos /\ DOMAIN ctx[Hallado] = Guardables
    BY <1>1, <1>2 DEF TiposMemoria
  <2>3. [g \in DOMAIN ctx[Hallado] |-> Campo(b, 2 + Lugar(g))] \in [Guardables -> Word]
    BY <2>1, <2>2
  <2> QED
    BY <1>1, <1>2, <2>3 DEF TiposMemoria
<1>4. r \in Contestaciones /\ r.op \in OpsAviso
  <2>1. "RTA_ACTUALIZAR_CONTEXTO_CM" \in OpsAviso
    BY DEF OpsAviso
  <2> QED
    BY <1>0, <2>1, UnCampo
<1>5. /\ Tipos' /\ Conversa' /\ Busqueda' /\ ConversaKernel' /\ ~Contestada'
      /\ Pregunta' <=> Pregunta
      /\ Pregunta => Ultimo(cm)' = Ultimo(cm)
  BY <1>1, <1>2, <1>3, <1>4, AlContestar DEF TiposMemoria
<1>6. ParticionCargada'
  BY <1>1, <1>5, QuedaMemDeja, ParticionAlAvisar DEF CpuInv
<1> QED
  BY <1>5, <1>6 DEF CpuInv

LEMMA PedidoInstruccionTipos == CpuInv /\ PedidoInstruccion => CpuInv'
<1> SUFFICES ASSUME CpuInv, PedidoInstruccion PROVE CpuInv'
  OBVIOUS
<1>0. PICK i, r : /\ i = Programa[Hallado][PcPedido + 1]
                  /\ r = Mensaje("RESPUESTA_INSTRUCCION", Campos(<<i>>))
  OBVIOUS
<1>1. /\ Mia /\ servicio /\ Pedido.op = "PEDIDO_INSTRUCCION" /\ Hallado \in vivos /\ servicio' = FALSE
      /\ PcPedido < Len(Programa[Hallado])
      /\ mc' = Append(mc, r) /\ cm' = Tail(cm)
      /\ UNCHANGED <<ctx, espacio, vivos, pidBuscado, cruce>> /\ QuedaMem
  BY <1>0 DEF PedidoInstruccion, Halla, Contesta
<1>2. TiposCpu /\ Canales /\ TiposMemoria /\ Pedido \in Pedidos /\ Pedido = Head(cm)
  BY <1>1, LoQuePiden DEF CpuInv, Tipos
<1>3. i \in Instrucciones
  <2>1. PcPedido \in Nat
    BY <1>1, <1>2, CeroYUno DEF Pedidos, PedidoBien, PcPedido
  <2>2. Programa[Hallado] \in Seq(Instrucciones)
    BY <1>1, <1>2 DEF CpuInv, ProgramasTipados, TiposMemoria
  <2>3. PcPedido + 1 \in 1..Len(Programa[Hallado])
    BY <1>1, <2>1, <2>2
  <2> QED
    BY <1>0, <2>2, <2>3
<1>4. r \in Contestaciones /\ r.op = "RESPUESTA_INSTRUCCION"
  <2>1. "RESPUESTA_INSTRUCCION" \in OpsDato
    BY DEF OpsDato
  <2> QED
    BY <1>0, <1>3, <2>1, UnCampo
<1>5. /\ Head(cm).op \notin OpsGuardar /\ r.op \notin OpsAviso
      /\ EsperaPor(Head(cm).op) => EsperaPor(r.op)
  BY <1>1, <1>2, <1>4 DEF OpsGuardar, OpsAviso, EsperaPor
<1>6. /\ Tipos' /\ Conversa' /\ Busqueda' /\ ConversaKernel' /\ ~Pregunta' /\ EsperaPor(Head(cm).op)
  BY <1>1, <1>2, <1>4, <1>5, AlContestar DEF TiposMemoria
<1>7. ParticionCargada'
  <2>1. fase # "contexto"
    BY <1>1, <1>2, <1>6 DEF EsperaPor
  <2> QED
    BY <1>1, <1>6, <2>1, QuedaMemDeja, ParticionAlContestar DEF CpuInv
<1> QED
  BY <1>6, <1>7 DEF CpuInv

LEMMA ReadFromDirTipos == CpuInv /\ ReadFromDir => CpuInv'
<1> SUFFICES ASSUME CpuInv, ReadFromDir PROVE CpuInv'
  OBVIOUS
<1>0. PICK d, v, r : /\ d = Campo(Pedido.buffer, 3) /\ v = PalabraEn(espacio, d)
                     /\ r = Mensaje("RTA_PEDIDO_LECTURA_CM", Campos(<<v>>))
  OBVIOUS
<1>1. /\ Mia /\ Pedido.op = "PEDIDO_LECTURA_CM" /\ ~Busca
      /\ mc' = Append(mc, r) /\ cm' = Tail(cm)
      /\ UNCHANGED <<ctx, espacio, vivos, servicio, pidBuscado, cruce>> /\ QuedaMem
  BY <1>0 DEF ReadFromDir, Contesta, Busca
<1>2. TiposCpu /\ Canales /\ TiposMemoria /\ Pedido \in Pedidos /\ Pedido = Head(cm)
  BY <1>1, LoQuePiden DEF CpuInv, Tipos
<1>3. v \in Word
  <2>1. PICK p \in Pids : EnParticion(d, p)
    BY <1>0, <1>1, <1>2 DEF Pedidos, PedidoBien
  <2>2. d \in Nat /\ d <= Limite[p] + 1 /\ Limite[p] \in Nat
    BY <2>1, LaParticion, CeroYUno DEF EnParticion
  <2>3. d + BytesPorPalabra <= TamMemoria
    BY <2>2, LaParticion, CicloConstantes
  <2> QED
    BY <1>0, <1>2, <2>2, <2>3, PalabraLeida DEF TiposMemoria
<1>4. r \in Contestaciones /\ r.op = "RTA_PEDIDO_LECTURA_CM"
  <2>1. "RTA_PEDIDO_LECTURA_CM" \in OpsDato /\ v \in Nat
    BY <1>3, CeroYUno DEF OpsDato
  <2> QED
    BY <1>0, <1>3, <2>1, UnCampo
<1>5. /\ Head(cm).op \notin OpsGuardar /\ r.op \notin OpsAviso
      /\ EsperaPor(Head(cm).op) => EsperaPor(r.op)
  BY <1>1, <1>2, <1>4 DEF OpsGuardar, OpsAviso, EsperaPor
<1>6. /\ Tipos' /\ Conversa' /\ Busqueda' /\ ConversaKernel' /\ ~Pregunta' /\ EsperaPor(Head(cm).op)
  BY <1>1, <1>2, <1>4, <1>5, AlContestar DEF TiposMemoria
<1>7. ParticionCargada'
  <2>1. fase # "contexto"
    BY <1>1, <1>2, <1>6 DEF EsperaPor
  <2> QED
    BY <1>1, <1>6, <2>1, QuedaMemDeja, ParticionAlContestar DEF CpuInv
<1> QED
  BY <1>6, <1>7 DEF CpuInv

LEMMA WriteInDirTipos == CpuInv /\ WriteInDir => CpuInv'
<1> SUFFICES ASSUME CpuInv, WriteInDir PROVE CpuInv'
  OBVIOUS
<1>0. PICK d, v, r : /\ d = Campo(Pedido.buffer, 4) /\ v = Campo(Pedido.buffer, 3)
                     /\ r = Mensaje("RTA_PEDIDO_ESCRITURA_CM", Campos(<<1>>))
  OBVIOUS
<1>1. /\ Mia /\ Pedido.op = "PEDIDO_ESCRITURA_CM" /\ ~Busca
      /\ mc' = Append(mc, r) /\ cm' = Tail(cm) /\ espacio' = ConPalabra(espacio, d, v)
      /\ UNCHANGED <<ctx, vivos, servicio, pidBuscado, cruce>> /\ QuedaMem
  BY <1>0 DEF WriteInDir, Contesta, Busca
<1>2. TiposCpu /\ Canales /\ TiposMemoria /\ Pedido \in Pedidos /\ Pedido = Head(cm)
  BY <1>1, LoQuePiden DEF CpuInv, Tipos
<1>3. espacio' \in [Direcciones -> Byte]
  <2>1. v \in Word /\ \E p \in Pids : EnParticion(d, p)
    BY <1>0, <1>1, <1>2 DEF Pedidos, PedidoBien
  <2>2. d \in Nat
    BY <2>1 DEF EnParticion
  <2> QED
    BY <1>1, <1>2, <2>1, <2>2, PalabraEscrita DEF TiposMemoria
<1>4. r \in Contestaciones /\ r.op = "RTA_PEDIDO_ESCRITURA_CM"
  <2>1. "RTA_PEDIDO_ESCRITURA_CM" \in OpsDato
    BY DEF OpsDato
  <2> QED
    BY <1>0, <2>1, UnCampo
<1>5. /\ Head(cm).op \notin OpsGuardar /\ r.op \notin OpsAviso
      /\ EsperaPor(Head(cm).op) => EsperaPor(r.op)
  BY <1>1, <1>2, <1>4 DEF OpsGuardar, OpsAviso, EsperaPor
<1>6. /\ Tipos' /\ Conversa' /\ Busqueda' /\ ConversaKernel' /\ ~Pregunta' /\ EsperaPor(Head(cm).op)
  BY <1>1, <1>2, <1>3, <1>4, <1>5, AlContestar DEF TiposMemoria
<1>7. ParticionCargada'
  <2>1. fase # "contexto"
    BY <1>1, <1>2, <1>6 DEF EsperaPor
  <2> QED
    BY <1>1, <1>6, <2>1, QuedaMemDeja, ParticionAlContestar DEF CpuInv
<1> QED
  BY <1>6, <1>7 DEF CpuInv

LEMMA MemoriaCpuTipos == CpuInv /\ MemoriaCpu => CpuInv'
BY BuscarProcesoTipos, PedidoContextoTipos, ActualizarContextoTipos, PedidoInstruccionTipos, NoEncontradoTipos,
   ReadFromDirTipos, WriteInDirTipos DEF MemoriaCpu

LEMMA MemoriaDumpTipos == CpuInv /\ MemoriaDump => CpuInv'
<1> SUFFICES ASSUME CpuInv, MemoriaDump PROVE CpuInv'
  OBVIOUS
<1>1. TiposCpu /\ Canales /\ TiposMemoria /\ TiposKernel
  BY DEF CpuInv, Tipos
<1>2. UNCHANGED <<fase, hilo, contexto, instr, valorLectura, desalojar, motivo, syscallBloquea, sem,
                  interruptFlag, cm, mc, dispKC, intKC, dispCK, intCK, exec, terminados, ctx, espacio, vivos, servicio>>
  BY DEF MemoriaDump, DumpBusca, DumpResponde, QuedaDump, cpuVars, intVars
<1>3. /\ TiposCpu' /\ Canales'
      /\ Conversa' /\ ConversaKernel'
  BY <1>1, <1>2, CpuQuieta, ConversaQuieta, ConversaKernelQuieta DEF CpuInv, Canales
<1>4. CASE DumpBusca
  <2>1. /\ dump.paso = "pedido" /\ dump' = [dump EXCEPT !.paso = "busca"] /\ pidBuscado' = dump.hilo[1]
        /\ cruce' = (cruce \/ servicio) /\ UNCHANGED <<listos, bloqueados>>
    BY <1>4 DEF DumpBusca
  <2>2. dump' \in [paso : {"no", "pedido", "busca"}, hilo : Hilos \cup {Nadie}] /\ dump'.hilo = dump.hilo
        /\ dump.hilo \in Hilos /\ dump'.paso = "busca"
    BY <1>1, <2>1 DEF TiposMemoria
  <2>3. TiposMemoria' /\ TiposKernel'
    BY <1>1, <1>2, <2>1, <2>2 DEF TiposMemoria, TiposKernel
  <2>4. Busqueda'
    BY <1>2, <2>1, <2>2 DEF CpuInv, Busqueda, Busca, Pedido, HiloPedido
  <2>5. ParticionCargada'
    BY <1>2, <2>1 DEF CpuInv, ParticionCargada, EsParticion, DeSuProceso, Corriendo, Contestada, Pregunta
  <2> QED
    BY <1>3, <2>3, <2>4, <2>5 DEF CpuInv, Tipos
<1>5. CASE DumpResponde
  <2>1. /\ dump.paso = "busca" /\ dump' = [paso |-> "no", hilo |-> Nadie]
        /\ bloqueados' = bloqueados \ {dump.hilo} /\ listos' = listos \cup {dump.hilo}
        /\ UNCHANGED <<pidBuscado, cruce>>
    BY <1>5 DEF DumpResponde
  <2>2. dump.hilo \in Hilos /\ dump'.paso = "no" /\ dump' \in [paso : {"no", "pedido", "busca"}, hilo : Hilos \cup {Nadie}]
    BY <1>1, <2>1 DEF TiposMemoria
  <2>3. TiposMemoria' /\ TiposKernel'
    BY <1>1, <1>2, <2>1, <2>2 DEF TiposMemoria, TiposKernel
  <2>4. Busqueda'
    BY <1>2, <2>1, <2>2 DEF CpuInv, Busqueda, Busca, Pedido, HiloPedido
  <2>5. ParticionCargada'
    BY <1>2, <2>1, ParticionQuieta DEF CpuInv
  <2> QED
    BY <1>3, <2>3, <2>4, <2>5 DEF CpuInv, Tipos
<1> QED
  BY <1>4, <1>5 DEF MemoriaDump

-----------------------------------------------------------------------------
(* The kernel *)

\* What the kernel leaves alone ...
LEMMA QuedaKernelDeja ==
  QuedaKernel => UNCHANGED <<fase, hilo, contexto, instr, valorLectura, desalojar, motivo, syscallBloquea, sem,
                             interruptFlag, cm, mc, ctx, espacio, servicio, pidBuscado, cruce>>
BY DEF QuedaKernel, cpuVars, intVars

\* ... and what that keeps.
LEMMA AjenoAlKernel ==
  ASSUME CpuInv, QuedaKernel
  PROVE  /\ TiposCpu' /\ Canales' /\ Conversa' /\ ParticionCargada'
         /\ (dump'.paso = "busca" => dump' = dump) => Busqueda'
<1>1. UNCHANGED <<fase, hilo, contexto, instr, valorLectura, desalojar, motivo, syscallBloquea, sem,
                  interruptFlag, cm, mc, ctx, espacio, servicio, pidBuscado, cruce>>
  BY QuedaKernelDeja
<1>2. TiposCpu' /\ Canales'
  BY <1>1, CpuQuieta DEF CpuInv, Tipos, Canales
<1>3. Conversa' /\ ParticionCargada'
  BY <1>1, ConversaQuieta, ParticionQuieta DEF CpuInv
<1>4. ASSUME dump'.paso = "busca" => dump' = dump
      PROVE  Busqueda'
  BY <1>1, <1>4 DEF CpuInv, Busqueda, Busca, Pedido, HiloPedido
<1> QED
  BY <1>2, <1>3, <1>4

\* What the CPU has left in the channel of the kernel, read from its first cell.
LEMMA Cabezas ==
  ASSUME NEW s \in Sobras, NEW c \in Seq(Nat), c # <<>>
  PROVE  /\ s # <<>> => Head(s \o c) \in {0, 1} /\ Tail(s) \in Sobras /\ Tail(s \o c) = Tail(s) \o c
         /\ s # <<>> => Head(s) \in {0, 1}
         /\ <<>> \o c = c
<1>1. c = <<>> \o c
  OBVIOUS
<1>2. CASE s = <<0>>
  <2>1. Head(<<0>> \o c) = 0 /\ Tail(<<0>> \o c) = c /\ Tail(<<0>>) = <<>> /\ Head(<<0>>) = 0
    OBVIOUS
  <2> QED
    BY <1>1, <1>2, <2>1 DEF Sobras
<1>3. CASE s = <<1, 0>>
  <2>1. /\ Head(<<1, 0>> \o c) = 1 /\ Tail(<<1, 0>>) = <<0>> /\ Head(<<1, 0>>) = 1
    OBVIOUS
  <2>2. Tail(<<1, 0>> \o c) = <<0>> \o c
    <3> DEFINE u == <<1, 0>> \o c
               w == <<0>> \o c
    <3>1. u \in Seq(Nat) /\ Len(u) = 2 + Len(c) /\ w \in Seq(Nat) /\ Len(w) = 1 + Len(c) /\ Len(c) \in Nat
      OBVIOUS
    <3>2. \A i \in 1..Len(w) : u[i + 1] = w[i]
      OBVIOUS
    <3> HIDE DEF u, w
    <3>3. Tail(u) \in Seq(Nat) /\ Len(Tail(u)) = Len(w) /\ \A i \in 1..Len(Tail(u)) : Tail(u)[i] = u[i + 1]
      BY <3>1
    <3>4. Tail(u) = w
      BY <3>1, <3>2, <3>3, SeqEqual
    <3> QED
      BY <3>4 DEF u, w
  <2> QED
    BY <1>1, <1>3, <2>1, <2>2 DEF Sobras
<1>4. CASE s = <<>>
  BY <1>1, <1>4
<1> QED
  BY <1>2, <1>3, <1>4 DEF Sobras

\* The request of a syscall, read whole, is of the thread the CPU has.
LEMMA CuerpoEntero ==
  ASSUME CpuInv, HayPedido
  PROVE  /\ Cuerpo \in Seq(Nat) /\ Cuerpo # <<>> /\ Head(Cuerpo) = CodigoEnCurso
         /\ CodigoEnCurso \in Nat /\ CodigoEnCurso >= 2
         /\ HiloDe(RecvBuffer(Cuerpo)) = hilo /\ TrasBuffer(Cuerpo) = <<>>
         /\ hilo \in Hilos /\ fase \in {"retorno", "error"}
         /\ \A o \in Syscalls \cup {"ERROR"} : CodigoEnCurso = Codigo(o) => (o = "ERROR" <=> fase = "error")
         /\ \A o \in Syscalls : CodigoEnCurso = Codigo(o) => instr.op = o
<1>1. fase \in {"retorno", "error"} /\ hilo \in Hilos
  BY DEF HayPedido, CpuInv, Tipos, TiposCpu
<1>2. fase = "retorno" => instr.op \in Syscalls
  BY DEF CpuInv, ConversaKernel
<1>3. /\ CodigoEnCurso \in Nat /\ CodigoEnCurso >= 2
      /\ \A o \in Syscalls \cup {"ERROR"} : CodigoEnCurso = Codigo(o) => (o = "ERROR" <=> fase = "error")
      /\ \A o \in Syscalls : CodigoEnCurso = Codigo(o) => instr.op = o
  <2>1. CASE fase = "error"
    BY <2>1, ValoresDeCodigo DEF CodigoEnCurso, Syscalls
  <2>2. CASE fase = "retorno"
    BY <1>2, <2>2, ValoresDeCodigo DEF CodigoEnCurso, Syscalls
  <2> QED
    BY <1>1, <2>1, <2>2
<1>4. PICK k \in Nat, a \in Nat, b \in Nat : k = CodigoEnCurso /\ hilo = <<a, b>> /\ a = hilo[1] /\ b = hilo[2]
  <2>1. PICK a \in Nat, b \in Nat : hilo = <<a, b>>
    <3>1. hilo \in Nat \X Nat
      BY <1>1, CicloConstantes
    <3> QED
      BY <3>1
  <2>2. hilo[1] = a /\ hilo[2] = b
    BY <2>1
  <2>3. PICK k \in Nat : k = CodigoEnCurso
    BY <1>3
  <2> QED
    BY <2>1, <2>2, <2>3
<1> DEFINE c == <<k, 4, 1, a, 1, b>>
<1>5. Cuerpo = c
  BY <1>4 DEF Cuerpo
<1>6. c \in Seq(Nat) /\ Len(c) = 6 /\ c # <<>> /\ Head(c) = k /\ c[2] = 4
  OBVIOUS
<1>7. HiloDe(RecvBuffer(c)) = <<a, b>>
  <2> DEFINE r == RecvBuffer(c)
  <2>1. r = SubSeq(c, 3, 6)
    BY DEF RecvBuffer
  <2>2. r[2] = a /\ r[4] = b
    BY <2>1
  <2> HIDE DEF r
  <2> QED
    BY <2>2 DEF HiloDe, Campo, r
<1>8. TrasBuffer(c) = <<>>
  BY DEF TrasBuffer
<1> QED
  BY <1>1, <1>3, <1>4, <1>5, <1>6, <1>7, <1>8

\* A handler of the kernel that reads a thread finds the request of the thread the CPU holds, alone.
LEMMA AlAtender ==
  ASSUME CpuInv, NEW o \in Syscalls \cup {"ERROR"}, NEW h, RecibeDe(o, h)
  PROVE  /\ dump.paso = "no" /\ h = hilo /\ h \in Hilos /\ dispCK' = <<>>
         /\ fase = IF o = "ERROR" THEN "error" ELSE "retorno"
         /\ ~HayFin /\ sem["retorno"] = 0 /\ ~syscallBloquea
         /\ o # "ERROR" => instr.op = o
<1>1. /\ dump.paso = "no" /\ dispCK # <<>> /\ Head(dispCK) = Codigo(o)
      /\ h = HiloDe(RecvBuffer(dispCK)) /\ dispCK' = TrasBuffer(dispCK)
  BY DEF RecibeDe, Recibe, RecvOp
<1>2. Codigo(o) \in Nat /\ Codigo(o) >= 2
  BY ValoresDeCodigo DEF Syscalls
<1>3. HayPedido
  <2>1. dispCK \notin Sobras
    BY <1>1, <1>2 DEF Sobras
  <2> QED
    BY <2>1 DEF CpuInv, ConversaKernel
<1>4. /\ Cuerpo \in Seq(Nat) /\ Cuerpo # <<>> /\ Head(Cuerpo) = CodigoEnCurso
      /\ HiloDe(RecvBuffer(Cuerpo)) = hilo /\ TrasBuffer(Cuerpo) = <<>>
      /\ hilo \in Hilos /\ fase \in {"retorno", "error"}
      /\ \A x \in Syscalls \cup {"ERROR"} : CodigoEnCurso = Codigo(x) => (x = "ERROR" <=> fase = "error")
      /\ \A x \in Syscalls : CodigoEnCurso = Codigo(x) => instr.op = x
  BY <1>3, CuerpoEntero
<1>5. dispCK = Cuerpo
  <2>1. PICK s \in Sobras : dispCK = s \o Cuerpo
    BY <1>3 DEF HayPedido
  <2>2. s = <<>>
    <3>1. s # <<>> => Head(s \o Cuerpo) \in {0, 1}
      BY <1>4, Cabezas
    <3> QED
      BY <1>1, <1>2, <2>1, <3>1
  <2> QED
    BY <1>4, <2>1, <2>2, Cabezas
<1>6. h = hilo /\ dispCK' = <<>> /\ (o = "ERROR" <=> fase = "error") /\ (o # "ERROR" => instr.op = o)
  BY <1>1, <1>4, <1>5
<1>7. ~HayFin /\ sem["retorno"] # 1 /\ (fase = "retorno" => ~syscallBloquea)
  BY <1>1 DEF CpuInv, ConversaKernel
<1>8. sem["retorno"] = 0
  BY <1>7 DEF CpuInv, Tipos, Canales
<1>9. ~syscallBloquea
  BY <1>4, <1>7 DEF CpuInv, ConversaKernel
<1> QED
  BY <1>1, <1>4, <1>6, <1>7, <1>8, <1>9

\* What the kernel answers is the only answer on its way.
LEMMA ConversaAlResponder ==
  ASSUME CpuInv, QuedaKernel, fase = "retorno", ~HayFin, sem["retorno"] = 0, ~syscallBloquea,
         dispCK' = <<>>, NEW v \in {0, 1}, Contestar(v)
  PROVE  /\ ConversaKernel'
         /\ intKC' \in Seq(DeHilo("DESALOJO_POR_QUANTUM") \cup Finales)
<1>0. PICK m : m = Mensaje("FINALIZACION_SYSCALL", Campos(<<v>>)) /\ intKC' = Append(intKC, m)
  BY DEF Contestar
<1>1. UNCHANGED <<fase, hilo, instr, desalojar, motivo, syscallBloquea, sem, interruptFlag>>
  BY QuedaKernelDeja
<1>2. intKC \in Seq(DeHilo("DESALOJO_POR_QUANTUM") \cup Finales) /\ m \in Finales
  BY <1>0 DEF CpuInv, Tipos, TiposKernel, Finales
<1>3. /\ intKC' \in Seq(DeHilo("DESALOJO_POR_QUANTUM") \cup Finales)
      /\ Len(intKC') = Len(intKC) + 1 /\ Len(intKC) \in Nat
      /\ \A i \in 1..Len(intKC) : intKC'[i] = intKC[i]
  BY <1>0, <1>2
<1>4. \A i \in 1..Len(intKC) : ~EsFin(intKC[i])
  BY DEF HayFin
<1> HIDE DEF EsFin
<1>5. \A i \in 1..Len(intKC') : EsFin(intKC'[i]) => i = Len(intKC) + 1
  BY <1>3, <1>4
<1>6. \A i, j \in 1..Len(intKC') : EsFin(intKC'[i]) /\ EsFin(intKC'[j]) => i = j
  BY <1>5
<1>7. instr.op \in Syscalls /\ ~desalojar
  BY DEF CpuInv, ConversaKernel
<1>8. <<>> \in Sobras
  BY DEF Sobras
<1>9. ConversaKernel'
  BY <1>1, <1>6, <1>7, <1>8 DEF ConversaKernel
<1> QED
  BY <1>3, <1>9

\* The dump the kernel asks for is of a thread.
LEMMA TipoDelDump ==
  ASSUME TiposMemoria, NEW h \in Hilos, UNCHANGED <<ctx, espacio>>, vivos' \subseteq Hilos,
         dump' = dump \/ dump' = [paso |-> "pedido", hilo |-> h]
  PROVE  TiposMemoria'
<1>1. CASE dump' = dump
  BY <1>1 DEF TiposMemoria
<1>2. CASE dump' = [paso |-> "pedido", hilo |-> h]
  <2>1. dump'.hilo = h /\ dump' \in [paso : {"no", "pedido", "busca"}, hilo : Hilos \cup {Nadie}]
    BY <1>2
  <2> QED
    BY <2>1 DEF TiposMemoria
<1> QED
  BY <1>1, <1>2

\* The handler of a syscall: it may take the thread out of EXEC, block it, end
\* threads or ask for a dump, and it answers.
LEMMA AlResponder ==
  ASSUME CpuInv, NEW o \in Syscalls, NEW h \in Hilos, RecibeDe(o, h), NEW v \in {0, 1}, Contestar(v), QuedaKernel,
         exec' \in {exec, Nadie}, listos' \subseteq Hilos, bloqueados' \subseteq Hilos, terminados' \subseteq Hilos,
         vivos' \subseteq Hilos, UNCHANGED <<dispKC, intCK>>,
         dump' = dump \/ dump' = [paso |-> "pedido", hilo |-> h]
  PROVE  CpuInv'
<1>1. /\ dump.paso = "no" /\ dispCK' = <<>> /\ fase = "retorno"
      /\ ~HayFin /\ sem["retorno"] = 0 /\ ~syscallBloquea
  <2>1. o # "ERROR"
    BY DEF Syscalls
  <2> QED
    BY <2>1, AlAtender
<1>2. ConversaKernel' /\ intKC' \in Seq(DeHilo("DESALOJO_POR_QUANTUM") \cup Finales)
  BY <1>1, ConversaAlResponder
<1>3. UNCHANGED <<ctx, espacio>>
  BY QuedaKernelDeja
<1>4. TiposMemoria' /\ dump'.paso # "busca"
  BY <1>1, <1>3, TipoDelDump DEF CpuInv, Tipos
<1>5. TiposKernel'
  BY <1>2 DEF CpuInv, Tipos, TiposKernel
<1>6. TiposCpu' /\ Canales' /\ Conversa' /\ ParticionCargada' /\ Busqueda'
  BY <1>4, AjenoAlKernel
<1> QED
  BY <1>2, <1>4, <1>5, <1>6 DEF CpuInv, Tipos

\* Every handler of a syscall.
LEMMA KernelResponde ==
  ASSUME CpuInv, NEW h \in Hilos,
         \/ KernelSigue(h) \/ KernelBloquea(h) \/ KernelDump(h) \/ KernelThreadExit(h) \/ KernelProcessExit(h)
  PROVE  CpuInv'
<1>1. /\ exec \in Hilos \cup {Nadie} /\ listos \subseteq Hilos /\ bloqueados \subseteq Hilos /\ terminados \subseteq Hilos
      /\ vivos \subseteq Hilos /\ DelProceso(h[1]) \subseteq Hilos
      /\ Syscalls = {"MUTEX_LOCK", "DUMP_MEMORY", "THREAD_EXIT", "PROCESS_EXIT"}
  BY DEF CpuInv, Tipos, TiposKernel, TiposMemoria, DelProceso, Syscalls
<1>2. CASE KernelSigue(h)
  <2>1. /\ Contestar(1) /\ QuedaKernel
        /\ UNCHANGED <<exec, listos, bloqueados, terminados, dispKC, intCK, dump, vivos>>
    BY <1>2 DEF KernelSigue, kernVars
  <2>2. PICK o \in Syscalls : RecibeDe(o, h)
    BY <1>1, <1>2 DEF KernelSigue
  <2> QED
    BY <1>1, <2>1, <2>2, AlResponder
<1>3. CASE KernelBloquea(h)
  <2>1. /\ RecibeDe("MUTEX_LOCK", h) /\ exec' = Nadie /\ bloqueados' = bloqueados \cup {h} /\ Contestar(0)
        /\ QuedaKernel /\ UNCHANGED <<listos, terminados, dispKC, intCK, dump, vivos>>
    BY <1>3 DEF KernelBloquea, SinExec
  <2> QED
    BY <1>1, <2>1, AlResponder
<1>4. CASE KernelDump(h)
  <2>1. /\ RecibeDe("DUMP_MEMORY", h) /\ exec' = Nadie /\ bloqueados' = bloqueados \cup {h} /\ Contestar(0)
        /\ dump' = [paso |-> "pedido", hilo |-> h]
        /\ QuedaKernel /\ UNCHANGED <<listos, terminados, dispKC, intCK, vivos>>
    BY <1>4 DEF KernelDump, SinExec
  <2> QED
    BY <1>1, <2>1, AlResponder
<1>5. CASE KernelThreadExit(h)
  <2>1. /\ RecibeDe("THREAD_EXIT", h) /\ exec' = Nadie /\ Contestar(0)
        /\ listos' \subseteq Hilos /\ bloqueados' \subseteq Hilos /\ terminados' \subseteq Hilos /\ vivos' \subseteq Hilos
        /\ QuedaKernel /\ UNCHANGED <<dispKC, intCK, dump>>
    BY <1>1, <1>5 DEF KernelThreadExit, SinExec, Terminar
  <2> QED
    BY <1>1, <2>1, AlResponder
<1>6. CASE KernelProcessExit(h)
  <2>1. /\ RecibeDe("PROCESS_EXIT", h) /\ exec' = Nadie /\ Contestar(0)
        /\ listos' \subseteq Hilos /\ bloqueados' \subseteq Hilos /\ terminados' \subseteq Hilos /\ vivos' \subseteq Hilos
        /\ QuedaKernel /\ UNCHANGED <<dispKC, intCK, dump>>
    BY <1>1, <1>6 DEF KernelProcessExit, SinExec, Terminar
  <2> QED
    BY <1>1, <2>1, AlResponder
<1> QED
  BY <1>2, <1>3, <1>4, <1>5, <1>6

LEMMA KernelErrorTipos ==
  ASSUME CpuInv, NEW h \in Hilos, KernelError(h)
  PROVE  CpuInv'
<1>1. /\ RecibeDe("ERROR", h) /\ exec' = Nadie /\ QuedaKernel
      /\ listos' = listos \ DelProceso(h[1]) /\ bloqueados' = bloqueados \ DelProceso(h[1])
      /\ terminados' = terminados \cup DelProceso(h[1]) /\ vivos' = vivos \ DelProceso(h[1])
      /\ UNCHANGED <<dispKC, intKC, intCK, dump>>
  BY DEF KernelError, Terminar, SinExec
<1>2. /\ dispCK' = <<>> /\ fase = "error" /\ ~HayFin /\ sem["retorno"] = 0 /\ ~syscallBloquea
  BY <1>1, AlAtender
<1>3. UNCHANGED <<fase, hilo, instr, desalojar, motivo, syscallBloquea, sem, interruptFlag, ctx, espacio>>
  BY <1>1, QuedaKernelDeja
<1>4. <<>> \in Sobras
  BY DEF Sobras
<1>5. ConversaKernel'
  BY <1>1, <1>2, <1>3, <1>4 DEF CpuInv, ConversaKernel, HayFin
<1>6. TiposKernel' /\ TiposMemoria'
  BY <1>1, <1>3 DEF CpuInv, Tipos, TiposKernel, TiposMemoria, DelProceso
<1>7. TiposCpu' /\ Canales' /\ Conversa' /\ ParticionCargada' /\ Busqueda'
  BY <1>1, AjenoAlKernel
<1> QED
  BY <1>5, <1>6, <1>7 DEF CpuInv, Tipos

LEMMA KernelSinBufferTipos == CpuInv /\ KernelSinBuffer => CpuInv'
<1> SUFFICES ASSUME CpuInv, KernelSinBuffer PROVE CpuInv'
  OBVIOUS
<1>1. /\ dispCK # <<>> /\ Head(dispCK) \in {0, 1} /\ dispCK' = Tail(dispCK) /\ QuedaKernel
      /\ UNCHANGED <<exec, listos, bloqueados, terminados, dispKC, intKC, intCK, dump, vivos>>
  BY ValoresDeCodigo DEF KernelSinBuffer, Recibe, RecvOp, TrasOp, kernVars
<1>2. UNCHANGED <<fase, hilo, instr, desalojar, motivo, syscallBloquea, sem, interruptFlag, ctx, espacio>>
  BY <1>1, QuedaKernelDeja
<1>3. dispCK' \in Sobras \/ HayPedido'
  <2>1. CASE dispCK \in Sobras
    <3>1. <<0>> # <<>> /\ <<0>> \in Seq(Nat)
      OBVIOUS
    <3>2. dispCK # <<>> => Tail(dispCK) \in Sobras
      BY <2>1, <3>1, Cabezas
    <3> QED
      BY <1>1, <3>2
  <2>2. CASE HayPedido
    <3>1. PICK s \in Sobras : dispCK = s \o Cuerpo
      BY <2>2 DEF HayPedido
    <3>2. /\ Cuerpo \in Seq(Nat) /\ Cuerpo # <<>> /\ Head(Cuerpo) = CodigoEnCurso
          /\ CodigoEnCurso \in Nat /\ CodigoEnCurso >= 2 /\ fase \in {"retorno", "error"}
      BY <2>2, CuerpoEntero
    <3>3. s # <<>>
      <4>1. <<>> \o Cuerpo = Cuerpo
        BY <3>2, Cabezas
      <4> QED
        BY <1>1, <3>1, <3>2, <4>1
    <3>4. Tail(s) \in Sobras /\ dispCK' = Tail(s) \o Cuerpo
      BY <1>1, <3>1, <3>2, <3>3, Cabezas
    <3>5. Cuerpo' = Cuerpo
      BY <1>2 DEF Cuerpo, CodigoEnCurso
    <3> QED
      BY <1>2, <3>2, <3>4, <3>5 DEF HayPedido
  <2> QED
    BY <2>1, <2>2 DEF CpuInv, ConversaKernel
<1>4. ~HayFin /\ sem["retorno"] # 1 /\ (syscallBloquea => fase = "borra")
  BY <1>1 DEF CpuInv, ConversaKernel
<1>5. ConversaKernel'
  BY <1>1, <1>2, <1>3, <1>4 DEF CpuInv, ConversaKernel, HayFin
<1>6. TiposKernel' /\ TiposMemoria'
  BY <1>1, <1>2, KernelQuieto, MemoriaQuieta DEF CpuInv, Tipos
<1>7. TiposCpu' /\ Canales' /\ Conversa' /\ ParticionCargada' /\ Busqueda'
  BY <1>1, AjenoAlKernel
<1> QED
  BY <1>5, <1>6, <1>7 DEF CpuInv, Tipos

\* A step of the kernel that reads and answers nothing.
LEMMA SinAtender ==
  ASSUME CpuInv, QuedaKernel, UNCHANGED <<dispCK, dump, vivos>>, TiposKernel',
         \/ intKC' = intKC
         \/ \E m : intKC' = Append(intKC, m) /\ ~EsFin(m)
  PROVE  CpuInv'
<1>1. UNCHANGED <<fase, hilo, instr, desalojar, motivo, syscallBloquea, sem, interruptFlag, ctx, espacio>>
  BY QuedaKernelDeja
<1>2. ConversaKernel'
  <2>1. CASE intKC' = intKC
    BY <1>1, <2>1, ConversaKernelQuieta DEF CpuInv
  <2>2. ASSUME NEW m, intKC' = Append(intKC, m), ~EsFin(m)
        PROVE  ConversaKernel'
    <3>1. intKC \in Seq(DeHilo("DESALOJO_POR_QUANTUM") \cup Finales)
      BY DEF CpuInv, Tipos, TiposKernel
    <3>2. /\ Len(intKC') = Len(intKC) + 1 /\ Len(intKC) \in Nat
          /\ \A i \in 1..Len(intKC) : intKC'[i] = intKC[i]
          /\ intKC'[Len(intKC) + 1] = m
      BY <2>2, <3>1
    <3> HIDE DEF EsFin
    <3>3. \A i \in 1..Len(intKC') : EsFin(intKC'[i]) => i \in 1..Len(intKC) /\ EsFin(intKC[i])
      BY <2>2, <3>2
    <3>4. HayFin' => HayFin
      BY <3>3 DEF HayFin
    <3>5. \A i, j \in 1..Len(intKC') : EsFin(intKC'[i]) /\ EsFin(intKC'[j]) => i = j
      BY <3>3 DEF CpuInv, ConversaKernel
    <3>6. HayPedido' <=> HayPedido
      BY <1>1 DEF HayPedido, Cuerpo, CodigoEnCurso
    <3> HIDE DEF HayFin, HayPedido
    <3> QED
      BY <1>1, <3>4, <3>5, <3>6 DEF CpuInv, ConversaKernel
  <2> QED
    BY <2>1, <2>2
<1>3. TiposMemoria'
  BY <1>1, MemoriaQuieta DEF CpuInv, Tipos
<1>4. TiposCpu' /\ Canales' /\ Conversa' /\ ParticionCargada' /\ Busqueda'
  BY AjenoAlKernel
<1> QED
  BY <1>2, <1>3, <1>4 DEF CpuInv, Tipos

LEMMA KernelDespachaTipos ==
  ASSUME CpuInv, NEW h \in Hilos, KernelDespacha(h)
  PROVE  CpuInv'
<1>0. PICK m : m = Mensaje("EJECUTAR_HILO", Campos(h))
  OBVIOUS
<1>1. /\ exec' = h /\ listos' = listos \ {h} /\ dispKC' = Append(dispKC, m) /\ QuedaKernel
      /\ UNCHANGED <<bloqueados, terminados, intKC, dispCK, intCK, dump, vivos>>
  BY <1>0 DEF KernelDespacha
<1>2. m \in DeHilo("EJECUTAR_HILO")
  BY <1>0 DEF DeHilo
<1>3. TiposKernel'
  BY <1>1, <1>2 DEF CpuInv, Tipos, TiposKernel
<1> QED
  BY <1>1, <1>3, SinAtender

LEMMA KernelInterrumpeTipos == CpuInv /\ KernelInterrumpe => CpuInv'
<1> SUFFICES ASSUME CpuInv, KernelInterrumpe PROVE CpuInv'
  OBVIOUS
<1>0. PICK m : m = Mensaje("DESALOJO_POR_QUANTUM", Campos(exec))
  OBVIOUS
<1>1. /\ exec # Nadie /\ intKC' = Append(intKC, m) /\ QuedaKernel
      /\ UNCHANGED <<exec, listos, bloqueados, terminados, dispKC, dispCK, intCK, dump, vivos>>
  BY <1>0 DEF KernelInterrumpe, kernVars
<1>2. m \in DeHilo("DESALOJO_POR_QUANTUM") /\ ~EsFin(m)
  BY <1>0, <1>1 DEF CpuInv, Tipos, TiposKernel, DeHilo, EsFin, Mensaje
<1>3. TiposKernel'
  BY <1>1, <1>2 DEF CpuInv, Tipos, TiposKernel
<1> QED
  BY <1>1, <1>2, <1>3, SinAtender

LEMMA KernelDesbloqueaTipos ==
  ASSUME CpuInv, NEW h \in Hilos, KernelDesbloquea(h)
  PROVE  CpuInv'
<1>1. /\ bloqueados' = bloqueados \ {h} /\ listos' = listos \cup {h} /\ QuedaKernel
      /\ UNCHANGED <<exec, terminados, dispKC, intKC, dispCK, intCK, dump, vivos>>
  BY DEF KernelDesbloquea
<1>2. TiposKernel'
  BY <1>1 DEF CpuInv, Tipos, TiposKernel
<1> QED
  BY <1>1, <1>2, SinAtender

LEMMA KernelQuantumTipos == CpuInv /\ KernelQuantum => CpuInv'
<1> SUFFICES ASSUME CpuInv, KernelQuantum PROVE CpuInv'
  OBVIOUS
<1>0. PICK g : g = HiloDe(Head(intCK).buffer)
  OBVIOUS
<1>1. /\ intCK # <<>> /\ intCK' = Tail(intCK) /\ exec' = Nadie /\ listos' = listos \cup {g} /\ QuedaKernel
      /\ UNCHANGED <<bloqueados, terminados, dispKC, intKC, dispCK, dump, vivos>>
  BY <1>0 DEF KernelQuantum, SinExec
<1>2. intCK' \in Seq(DeHilo("DESALOJO_QUANTUM")) /\ g \in Hilos
  <2>1. Head(intCK) \in DeHilo("DESALOJO_QUANTUM") /\ intCK' \in Seq(DeHilo("DESALOJO_QUANTUM"))
    BY <1>1 DEF CpuInv, Tipos, TiposKernel
  <2>2. PICK h \in Hilos : Head(intCK) = Mensaje("DESALOJO_QUANTUM", Campos(h))
    BY <2>1 DEF DeHilo
  <2>3. Head(intCK).buffer = Campos(h)
    BY <2>2 DEF Mensaje
  <2> QED
    BY <1>0, <2>1, <2>3, CamposDeHilo
<1>3. TiposKernel'
  BY <1>1, <1>2 DEF CpuInv, Tipos, TiposKernel
<1> QED
  BY <1>1, <1>3, SinAtender

LEMMA NextTipos == CpuInv /\ [Next]_vars => CpuInv'
<1> SUFFICES ASSUME CpuInv, [Next]_vars PROVE CpuInv'
  OBVIOUS
<1>1. CASE KernelAtiende
  <2>1. CASE KernelSinBuffer
    BY <2>1, KernelSinBufferTipos
  <2>2. ASSUME NEW h \in Hilos, \/ KernelSigue(h) \/ KernelBloquea(h) \/ KernelDump(h)
                                \/ KernelThreadExit(h) \/ KernelProcessExit(h) \/ KernelError(h)
        PROVE  CpuInv'
    BY <2>2, KernelResponde, KernelErrorTipos
  <2> QED
    BY <1>1, <2>1, <2>2 DEF KernelAtiende
<1>2. ASSUME NEW h \in Hilos, KernelDespacha(h) \/ KernelDesbloquea(h)
      PROVE  CpuInv'
  BY <1>2, KernelDespachaTipos, KernelDesbloqueaTipos
<1>3. CASE UNCHANGED vars
  <2>1. UNCHANGED <<fase, hilo, contexto, instr, valorLectura, desalojar, motivo, syscallBloquea, sem,
                    interruptFlag, cm, mc, dispKC, intKC, dispCK, intCK, exec, listos, bloqueados, terminados,
                    dump, ctx, espacio, vivos, servicio, pidBuscado, cruce>>
    BY <1>3 DEF vars, cpuVars, intVars, kernVars, memVars
  <2>2. Tipos'
    BY <2>1, CpuQuieta, MemoriaQuieta, KernelQuieto DEF CpuInv, Tipos, Canales
  <2> QED
    BY <2>1, <2>2, ConversaQuieta, ParticionQuieta, BusquedaQuieta, ConversaKernelQuieta DEF CpuInv
<1> QED
  BY <1>1, <1>2, <1>3, CicloTipos, RespuestasTipos, AvisosTipos, MemoriaCpuTipos, MemoriaDumpTipos,
     KernelInterrumpeTipos, KernelQuantumTipos DEF Next

LEMMA ProgramasBien == RespetanLaParticion => ProgramasTipados
<1> DEFINE I == [op : STRING, a : STRING, b : STRING, n : Word]
<1> SUFFICES ASSUME RespetanLaParticion, NEW h \in Hilos PROVE Programa[h] \in Seq(Instrucciones)
  BY CicloConstantes DEF ProgramasTipados
<1>1. PICK p : p = Programa[h]
  OBVIOUS
<1>2. p \in Seq(I) /\ \A i \in 1..Len(p) : p[i].a \notin {"BASE", "LIMITE"}
  BY <1>1, CicloConstantes DEF RespetanLaParticion, Word
<1>3. \A x \in I : x.a \notin {"BASE", "LIMITE"} => x \in Instrucciones
  BY DEF Instrucciones
<1> HIDE DEF I
<1>4. \A i \in 1..Len(p) : p[i] \in I
  BY <1>2
<1>5. \A i \in 1..Len(p) : p[i] \in Instrucciones
  BY <1>2, <1>3, <1>4
<1>6. p = [i \in 1..Len(p) |-> p[i]] /\ Len(p) \in Nat
  BY <1>2
<1>7. [i \in 1..Len(p) |-> p[i]] \in Seq(Instrucciones)
  BY <1>5, <1>6
<1> QED
  BY <1>1, <1>6, <1>7

\* The invariant of the CPU and memoria, for programs that leave BASE and LIMITE alone.
THEOREM InvDeLaCpu == RespetanLaParticion /\ Spec => []CpuInv
<1>1. RespetanLaParticion /\ Init => CpuInv
  BY ProgramasBien, CpuInvInicial
<1> QED
  BY <1>1, NextTipos, PTL DEF Spec

\* No register leaves a word, no byte a cell and no semaphore holds two posts, whatever
\* the threads, the order of the messages and the two ways a socket is read: for
\* programs that leave BASE and LIMITE alone, without which an address could be any.
THEOREM TiposDeLaCpu == RespetanLaParticion /\ Spec => []TypeOK
<1>1. CpuInv => TypeOK
  BY TiposTypeOK DEF CpuInv
<1> QED
  BY <1>1, InvDeLaCpu, PTL

-----------------------------------------------------------------------------
(* The writes *)

\* The bytes a step writes.
Acotada(p) == \A x \in Direcciones :
                espacio'[x] # espacio[x] => Base[p] <= x /\ x <= Limite[p] + BytesPorPalabra

\* Nothing but write_in_dir writes the user memory.
LEMMA SoloEscribeMemoria == [Next]_vars => WriteInDir \/ UNCHANGED espacio
<1> SUFFICES ASSUME [Next]_vars PROVE WriteInDir \/ UNCHANGED espacio
  OBVIOUS
<1>1. CASE Ciclo
  BY <1>1 DEF Ciclo, Recibir, PedirContexto, ContextoListo, EjecutarSet, EjecutarSuma, EjecutarJnz, EjecutarLog,
     EjecutarReadMem, EjecutarWriteMem, LecturaLista, EscrituraLista, EjecutarSyscall, EjecutarProcessExit,
     Retornar, CheckInterrupt, DesalojarPorQuantum, DesalojarPorSyscall, DesalojarPorError, DeleteContexto,
     Quieto, memVars
<1>2. CASE Respuestas \/ Avisos
  BY <1>2 DEF Respuestas, RecvContexto, RecvInstruction, RecvLectura, RecvEscritura, RecvActualizado, QuedaCpu,
     Avisos, AtenderRespuesta, InterrupcionMira, InterrupcionMarca, QuedaInt, memVars
<1>3. CASE MemoriaCpu
  BY <1>3 DEF MemoriaCpu, BuscarProceso, PedidoContexto, ActualizarContexto, PedidoInstruccion, NoEncontrado, ReadFromDir
<1>4. CASE MemoriaDump
  BY <1>4 DEF MemoriaDump, DumpBusca, DumpResponde, QuedaDump
<1>5. CASE KernelInterrumpe \/ KernelAtiende \/ KernelQuantum
  <2>1. QuedaKernel
    BY <1>5 DEF KernelInterrumpe, KernelAtiende, KernelQuantum, KernelSinBuffer, KernelSigue, KernelBloquea,
       KernelDump, KernelThreadExit, KernelProcessExit, KernelError
  <2> QED
    BY <2>1, QuedaKernelDeja
<1>6. ASSUME NEW h \in Hilos, KernelDespacha(h) \/ KernelDesbloquea(h)
      PROVE  UNCHANGED espacio
  BY <1>6, QuedaKernelDeja DEF KernelDespacha, KernelDesbloquea
<1>7. CASE UNCHANGED vars
  BY <1>7 DEF vars, memVars
<1> QED
  BY <1>1, <1>2, <1>3, <1>4, <1>5, <1>6, <1>7 DEF Next

\* The address in the request is that of the thread that waits for it.
LEMMA EscrituraDelCargado ==
  ASSUME CpuInv, WriteInDir, ~cruce
  PROVE  Acotada(hilo[1])
<1>0. PICK d, v : d = Campo(Pedido.buffer, 4) /\ v = Campo(Pedido.buffer, 3)
  OBVIOUS
<1>1. /\ Mia /\ Pedido.op = "PEDIDO_ESCRITURA_CM" /\ Pedido = Head(cm) /\ cm # <<>>
      /\ espacio' = ConPalabra(espacio, d, v)
  BY <1>0 DEF WriteInDir, Mia, Pedido
<1>2. cm \in Seq(Pedidos) /\ SoloAlFinal(cm, OpsGuardar) /\ Head(cm).op \notin OpsGuardar
  BY <1>1 DEF CpuInv, Tipos, Canales, Conversa, OpsGuardar
<1>3. Pregunta /\ Ultimo(cm) = Pedido
  BY <1>1, <1>2, SacaDelPrincipio DEF Pregunta
<1>4. fase = "escribe"
  BY <1>1, <1>3 DEF CpuInv, Conversa, EsperaPor
<1>5. PICK p \in Pids : p = hilo[1] /\ EnParticion(d, p)
  <2>1. DireccionPedida(Pedido) = d
    BY <1>0, <1>1 DEF DireccionPedida
  <2> QED
    BY <1>3, <1>4, <2>1 DEF CpuInv, ParticionCargada, DeSuProceso
<1>6. /\ d \in Nat /\ Base[p] <= d /\ d <= Limite[p] + 1
      /\ Base[p] \in Nat /\ Limite[p] \in Nat /\ BytesPorPalabra \in Nat
  BY <1>5, LaParticion, CeroYUno DEF EnParticion
<1>7. ASSUME NEW x \in Direcciones, espacio'[x] # espacio[x]
      PROVE  Base[p] <= x /\ x <= Limite[p] + BytesPorPalabra
  <2>1. x \in Nat
    BY CicloConstantes DEF Direcciones
  <2>2. d <= x /\ x < d + BytesPorPalabra
    BY <1>1, <1>7 DEF ConPalabra
  <2> QED
    BY <1>6, <2>1, <2>2
<1> QED
  BY <1>5, <1>7 DEF Acotada

\* What the CPU asks memoria to write stays in the partition of the process that is
\* loaded, or in the word after it, until two searches of memoria cross: the context a
\* thread gets has the partition of its process, and the mmu checks against it.
THEOREM EscriturasAcotadas == RespetanLaParticion /\ Spec => EscrituraAcotada
<1> DEFINE A == \A x \in Direcciones :
                  espacio'[x] # espacio[x] /\ ~cruce =>
                    Base[hilo[1]] <= x /\ x <= Limite[hilo[1]] + BytesPorPalabra
<1>1. CpuInv /\ [Next]_vars => A
  <2> SUFFICES ASSUME CpuInv, [Next]_vars PROVE A
    OBVIOUS
  <2>1. CASE UNCHANGED espacio
    BY <2>1
  <2>2. CASE WriteInDir
    BY <2>2, EscrituraDelCargado DEF Acotada
  <2> QED
    BY <2>1, <2>2, SoloEscribeMemoria
<1> HIDE DEF A
<1>2. CpuInv /\ [Next]_vars => [A]_vars
  BY <1>1
<1>3. RespetanLaParticion /\ Spec => [][A]_vars
  BY <1>2, InvDeLaCpu, PTL DEF Spec
<1> QED
  BY <1>3 DEF EscrituraAcotada, A

-----------------------------------------------------------------------------
(* Who has the CPU *)

Lanzado(h)   == Mensaje("EJECUTAR_HILO", Campos(h))
Devuelto(h)  == Mensaje("DESALOJO_QUANTUM", Campos(h))
Respuesta(v) == Mensaje("FINALIZACION_SYSCALL", Campos(<<v>>))
EnIntKC(m)   == \E i \in 1..Len(intKC) : intKC[i] = m

\* The kernel has told the thread that is loaded to leave, or will not answer it.
Despedido == syscallBloquea \/ EnIntKC(Respuesta(0)) \/ (fase = "error" /\ dispCK \in Sobras)

\* EXEC has the thread that is loaded until it is told to leave; else it is empty,
\* or its thread is on its way to the CPU or back.
EnExec ==
  /\ dispKC # <<>> => exec # Nadie /\ intCK = <<>> /\ dispKC = <<Lanzado(exec)>>
  /\ intCK # <<>> => exec # Nadie /\ fase \in {"borra", "libre"} /\ intCK = <<Devuelto(exec)>>
  /\ fase \notin {"libre", "borra"} /\ ~Despedido => exec = hilo /\ dispKC = <<>> /\ intCK = <<>>

\* The kernel's lists share no thread, and memoria has those that have not ended.
Repartidos ==
  /\ exec \notin listos \cup bloqueados \cup terminados
  /\ listos \cap bloqueados = {} /\ (listos \cup bloqueados) \cap terminados = {}
  /\ vivos \cap terminados = {} /\ Hilos \subseteq vivos \cup terminados
  /\ dump.paso # "no" => dump.hilo \in bloqueados

\* The contexts saved by a quantum's end are of threads that can still run, and
\* memoria has them before the next thread executes.
Guardados ==
  \A i \in 1..Len(cm) : cm[i].op = "DESALOJO_INTR" =>
    HiloDe(cm[i].buffer) \notin terminados /\ fase \in {"borra", "libre", "nace", "contexto"}

ExecInv == EnExec /\ Repartidos /\ Guardados

-----------------------------------------------------------------------------
(* The program counters *)

\* Whose saved context may point after its last instruction.
Salientes == terminados \cup (IF fase = "retorno" /\ instr.op = "THREAD_EXIT" THEN {hilo} ELSE {})
Dentro(h, p) == p < Len(Programa[h]) \/ h \in Salientes
PcGuardado(m) == Campo(m.buffer, 2 + Lugar("PC"))
EsLaDe(h, i, p) == p < Len(Programa[h]) /\ i = Programa[h][p + 1]
Seguira == EnIntKC(Respuesta(1)) \/ (sem["retorno"] = 1 /\ ~syscallBloquea)

\* The answer of an exit is that the thread leaves, once it has ended.
Respondido ==
  /\ Seguira => instr.op = "MUTEX_LOCK" \/ (instr.op = "PROCESS_EXIT" /\ hilo[2] # 0)
  /\ fase = "retorno" /\ instr.op = "THREAD_EXIT" /\ Despedido => hilo \in terminados

\* Wherever the program counter of a thread is, and the instruction it points at.
CtxDentro == \A h \in Hilos : Dentro(h, ctx[h]["PC"])
CmDentro  == \A i \in 1..Len(cm) : cm[i].op \in OpsGuardar => Dentro(HiloDe(cm[i].buffer), PcGuardado(cm[i]))
PcCargado == Corriendo => Dentro(hilo, contexto["PC"])
PcTraido  == Contestada /\ fase = "contexto" => Dentro(hilo, Campo(Ultimo(mc).buffer, Lugar("PC")))
ContadoresDentro == CtxDentro /\ CmDentro /\ PcCargado /\ PcTraido
EnSuInstruccion ==
  /\ Pregunta /\ fase = "fetch" => Campo(Ultimo(cm).buffer, 3) = contexto["PC"]
  /\ Contestada /\ fase = "fetch" => EsLaDe(hilo, Campo(Ultimo(mc).buffer, 1), contexto["PC"])
  /\ sem["fetch"] = 1 => EsLaDe(hilo, instr, contexto["PC"])
  /\ fase = "lee" => instr.a # "PC"
  /\ fase = "retorno" /\ instr.op = "PROCESS_EXIT" => EsLaDe(hilo, instr, contexto["PC"])

PcInv == Respondido /\ (~cruce => ContadoresDentro /\ EnSuInstruccion)

LEMMA NadieNoEsHilo == Nadie \notin Hilos
<1> SUFFICES ASSUME Nadie \in Hilos PROVE FALSE
  OBVIOUS
<1>1. PICK a \in Nat, b \in Nat : Nadie = <<a, b>>
  BY CicloConstantes
<1>2. Len(<<a, b>>) = 2 /\ Len(<<>>) = 0
  OBVIOUS
<1> QED
  BY <1>1, <1>2 DEF Nadie

LEMMA ExecInvInicial == Init => ExecInv
<1> SUFFICES ASSUME Init PROVE ExecInv
  OBVIOUS
<1>1. /\ fase = "libre" /\ cm = <<>> /\ dispKC = <<>> /\ intKC = <<>> /\ intCK = <<>>
      /\ exec = Nadie /\ listos = Hilos /\ bloqueados = {} /\ terminados = {} /\ vivos = Hilos /\ dump.paso = "no"
  BY DEF Init
<1>2. Nadie \notin Hilos
  BY NadieNoEsHilo
<1>3. \A i : i \notin 1..Len(cm)
  BY <1>1
<1> QED
  BY <1>1, <1>2, <1>3 DEF ExecInv, EnExec, Repartidos, Guardados

-----------------------------------------------------------------------------
(* The CPU *)

SinIntr  == \A i \in 1..Len(cm) : cm[i].op # "DESALOJO_INTR"
PideOtra == cm' = cm \/ \E m : cm' = Append(cm, m) /\ m.op # "DESALOJO_INTR"

LEMMA PideLoSuyo ==
  ASSUME NEW o, NEW vs, APedir(o, vs), o # "DESALOJO_INTR"
  PROVE  PideOtra
BY DEF APedir, PideOtra, Mensaje

LEMMA SigueSinIntr ==
  ASSUME cm \in Seq(Pedidos), SinIntr, PideOtra
  PROVE  SinIntr' /\ Guardados'
<1>1. CASE cm' = cm
  BY <1>1 DEF SinIntr, Guardados
<1>2. ASSUME NEW m, cm' = Append(cm, m), m.op # "DESALOJO_INTR"
      PROVE  SinIntr' /\ Guardados'
  <2>1. /\ Len(cm') = Len(cm) + 1 /\ Len(cm) \in Nat /\ cm'[Len(cm) + 1] = m
        /\ \A i \in 1..Len(cm) : cm'[i] = cm[i]
    BY <1>2
  <2>2. \A i \in 1..Len(cm') : i \in 1..Len(cm) \/ i = Len(cm) + 1
    BY <2>1
  <2> QED
    BY <1>2, <2>1, <2>2 DEF SinIntr, Guardados
<1> QED
  BY <1>1, <1>2 DEF PideOtra

LEMMA YaGuardados ==
  ASSUME Guardados, fase \notin {"borra", "libre", "nace", "contexto"}
  PROVE  SinIntr
BY DEF Guardados, SinIntr

\* The messages that wait in cm stay, with at most one more.
LEMMA GuardadosSigue ==
  ASSUME cm \in Seq(Pedidos), Guardados, PideOtra, terminados' = terminados,
         fase' \in {"borra", "libre", "nace", "contexto"}
  PROVE  Guardados'
<1>1. CASE cm' = cm
  BY <1>1 DEF Guardados
<1>2. ASSUME NEW m, cm' = Append(cm, m), m.op # "DESALOJO_INTR"
      PROVE  Guardados'
  <2>1. /\ Len(cm') = Len(cm) + 1 /\ Len(cm) \in Nat /\ cm'[Len(cm) + 1] = m
        /\ \A i \in 1..Len(cm) : cm'[i] = cm[i]
    BY <1>2
  <2>2. \A i \in 1..Len(cm') : i \in 1..Len(cm) \/ i = Len(cm) + 1
    BY <2>1
  <2> QED
    BY <1>2, <2>1, <2>2 DEF Guardados
<1> QED
  BY <1>1, <1>2 DEF PideOtra

KernelIgual == UNCHANGED <<exec, listos, bloqueados, terminados, vivos, dump, intKC>>
CpuSigue ==
  \/ ContextoListo \/ EjecutarSet \/ EjecutarSuma("SUM") \/ EjecutarSuma("SUB")
  \/ EjecutarJnz \/ EjecutarLog \/ EjecutarReadMem \/ EjecutarWriteMem
  \/ LecturaLista \/ EscrituraLista
  \/ EjecutarSyscall \/ EjecutarProcessExit \/ Retornar \/ CheckInterrupt
  \/ DesalojarPorSyscall \/ DesalojarPorError

LEMMA CpuSigueDeja ==
  CpuSigue => /\ KernelIgual /\ UNCHANGED <<hilo, dispKC, intCK, syscallBloquea>>
              /\ fase \notin {"libre", "nace", "borra", "error", "caida"}
              /\ PideOtra
<1> SUFFICES ASSUME CpuSigue
             PROVE  /\ KernelIgual /\ UNCHANGED <<hilo, dispKC, intCK, syscallBloquea>>
                    /\ fase \notin {"libre", "nace", "borra", "error", "caida"} /\ PideOtra
  OBVIOUS
<1>0. ASSUME Quieto
      PROVE  KernelIgual /\ UNCHANGED <<hilo, dispKC, intCK, syscallBloquea>>
  BY <1>0, QuietoDeja DEF KernelIgual
<1>1. CASE ContextoListo
  BY <1>1, PideLoSuyo DEF ContextoListo, Fetch, KernelIgual, kernVars, memVars
<1>2. CASE EjecutarSet \/ EjecutarSuma("SUM") \/ EjecutarSuma("SUB") \/ EjecutarJnz \/ EjecutarLog
  <2>1. Quieto /\ cm' = cm /\ fase = "fetch"
    BY <1>2 DEF EjecutarSet, EjecutarSuma, EjecutarJnz, EjecutarLog, Ejecuta
  <2> QED
    BY <1>0, <2>1 DEF PideOtra
<1>3. CASE LecturaLista \/ EscrituraLista \/ Retornar \/ DesalojarPorSyscall
  <2>1. Quieto /\ cm' = cm /\ fase \in {"lee", "escribe", "retorno", "desaloja"}
    BY <1>3 DEF LecturaLista, EscrituraLista, Retornar, DesalojarPorSyscall, Desaloja
  <2> QED
    BY <1>0, <2>1 DEF PideOtra
<1>4. CASE EjecutarReadMem
  <2>1. Quieto /\ fase = "fetch"
    BY <1>4 DEF EjecutarReadMem, Ejecuta
  <2>2. cm' = cm \/ \E d : APedir("PEDIDO_LECTURA_CM", <<d>>)
    BY <1>4 DEF EjecutarReadMem
  <2> QED
    BY <1>0, <2>1, <2>2, PideLoSuyo DEF PideOtra
<1>5. CASE EjecutarWriteMem
  <2>1. Quieto /\ fase = "fetch"
    BY <1>5 DEF EjecutarWriteMem, Ejecuta
  <2>2. cm' = cm \/ \E v, d : APedir("PEDIDO_ESCRITURA_CM", <<v, d>>)
    BY <1>5 DEF EjecutarWriteMem
  <2> QED
    BY <1>0, <2>1, <2>2, PideLoSuyo DEF PideOtra
<1>6. CASE EjecutarSyscall \/ EjecutarProcessExit \/ DesalojarPorError
  <2>1. Quieto /\ fase \in {"fetch", "desaloja"}
    BY <1>6 DEF EjecutarSyscall, EjecutarProcessExit, DesalojarPorError, Ejecuta, Desaloja
  <2>2. \E o \in {"DESALOJO_INSTRUCCION_CM", "DESALOJO_ERROR_CM"} : \E c : Guardar(o, c)
    BY <1>6 DEF EjecutarSyscall, EjecutarProcessExit, DesalojarPorError, EnviosDesalojo
  <2> QED
    BY <1>0, <2>1, <2>2, PideLoSuyo DEF Guardar
<1>7. CASE CheckInterrupt
  <2>1. /\ KernelIgual /\ UNCHANGED <<hilo, dispKC, intCK, syscallBloquea>> /\ fase = "chequea"
        /\ cm' = cm \/ Fetch
    BY <1>7 DEF CheckInterrupt, KernelIgual, kernVars, memVars
  <2> QED
    BY <2>1, PideLoSuyo DEF Fetch, PideOtra
<1> QED
  BY <1>1, <1>2, <1>3, <1>4, <1>5, <1>6, <1>7 DEF CpuSigue

\* Whoever has been told to leave still has, and the rest is as it was.
LEMMA ExecQuieto ==
  ASSUME EnExec, UNCHANGED <<exec, hilo, dispKC, intCK>>,
         fase \in {"libre", "borra"} => fase' = fase,
         intCK # <<>> => fase' = fase,
         Despedido => Despedido'
  PROVE  EnExec'
BY DEF EnExec

LEMMA RepartoQuieto ==
  ASSUME Repartidos, UNCHANGED <<exec, listos, bloqueados, terminados, vivos, dump>>
  PROVE  Repartidos'
BY DEF Repartidos

\* The answer that lets a thread go is an answer.
LEMMA EsRespuesta ==
  ASSUME NEW v, EnIntKC(Respuesta(v))
  PROVE  HayFin
BY DEF EnIntKC, Respuesta, Mensaje, HayFin, EsFin

LEMMA CpuSigueExec == CpuInv /\ ExecInv /\ CpuSigue => ExecInv'
<1> SUFFICES ASSUME CpuInv, ExecInv, CpuSigue PROVE ExecInv'
  OBVIOUS
<1>1. /\ UNCHANGED <<exec, listos, bloqueados, terminados, vivos, dump, intKC, hilo, dispKC, intCK, syscallBloquea>>
      /\ fase \notin {"libre", "nace", "borra", "error", "caida"} /\ PideOtra
  BY CpuSigueDeja DEF KernelIgual
<1>2. EnExec'
  <2>1. Despedido => Despedido'
    BY <1>1 DEF Despedido, EnIntKC
  <2>2. intCK = <<>>
    BY <1>1 DEF ExecInv, EnExec
  <2> QED
    BY <1>1, <2>1, <2>2, ExecQuieto DEF ExecInv
<1>3. SinIntr
  <2>1. CASE fase = "contexto"
    <3>1. Wait("contexto")
      BY <2>1 DEF CpuSigue, ContextoListo, EjecutarSet, EjecutarSuma, EjecutarJnz, EjecutarLog, EjecutarReadMem,
         EjecutarWriteMem, LecturaLista, EscrituraLista, EjecutarSyscall, EjecutarProcessExit, Retornar,
         CheckInterrupt, DesalojarPorSyscall, DesalojarPorError, Ejecuta, Desaloja
    <3>2. cm = <<>>
      BY <3>1, PostTomado DEF CpuInv, Tipos, Semaforos
    <3> QED
      BY <3>2 DEF SinIntr
  <2>2. CASE fase # "contexto"
    BY <1>1, <2>2, YaGuardados DEF ExecInv
  <2> QED
    BY <2>1, <2>2
<1>4. Guardados'
  BY <1>1, <1>3, SigueSinIntr DEF CpuInv, Tipos, Canales
<1> QED
  BY <1>1, <1>2, <1>4, RepartoQuieto DEF ExecInv

LEMMA RecibirExec == CpuInv /\ ExecInv /\ Recibir => ExecInv'
<1> SUFFICES ASSUME CpuInv, ExecInv, Recibir PROVE ExecInv'
  OBVIOUS
<1>1. /\ fase = "libre" /\ fase' = "nace" /\ dispKC # <<>> /\ dispKC' = Tail(dispKC)
      /\ hilo' = HiloDe(Head(dispKC).buffer)
      /\ UNCHANGED <<cm, intKC, dispCK, intCK, exec, listos, bloqueados, terminados, dump, vivos>>
  BY DEF Recibir, kernVars, memVars
<1>2. exec # Nadie /\ intCK = <<>> /\ dispKC = <<Lanzado(exec)>> /\ exec \in Hilos
  BY <1>1 DEF ExecInv, EnExec, CpuInv, Tipos, TiposKernel
<1>3. hilo' = exec /\ dispKC' = <<>>
  <2>1. Head(<<Lanzado(exec)>>) = Lanzado(exec) /\ Tail(<<Lanzado(exec)>>) = <<>>
    OBVIOUS
  <2>2. Lanzado(exec).buffer = Campos(exec)
    BY DEF Lanzado, Mensaje
  <2>3. HiloDe(Campos(exec)) = exec
    BY <1>2, CamposDeHilo
  <2> QED
    BY <1>1, <1>2, <2>1, <2>2, <2>3
<1>4. EnExec'
  BY <1>1, <1>2, <1>3 DEF EnExec
<1>5. Guardados'
  BY <1>1 DEF ExecInv, Guardados
<1> QED
  BY <1>1, <1>4, <1>5, RepartoQuieto DEF ExecInv

LEMMA PedirContextoExec == CpuInv /\ ExecInv /\ PedirContexto => ExecInv'
<1> SUFFICES ASSUME CpuInv, ExecInv, PedirContexto PROVE ExecInv'
  OBVIOUS
<1>1. /\ fase = "nace" /\ fase' = "contexto" /\ PideOtra
      /\ UNCHANGED <<hilo, syscallBloquea, dispKC, intKC, dispCK, intCK, exec, listos, bloqueados, terminados,
                     dump, vivos>>
  BY PideLoSuyo DEF PedirContexto, kernVars, memVars
<1>2. EnExec'
  <2>1. Despedido => Despedido'
    BY <1>1 DEF Despedido, EnIntKC
  <2>2. intCK = <<>>
    BY <1>1 DEF ExecInv, EnExec
  <2> QED
    BY <1>1, <2>1, <2>2, ExecQuieto DEF ExecInv
<1>3. Guardados'
  BY <1>1, GuardadosSigue DEF CpuInv, Tipos, Canales, ExecInv
<1> QED
  BY <1>1, <1>2, <1>3, RepartoQuieto DEF ExecInv

\* While the thread in the CPU has not been told to leave, it is the one in EXEC.
LEMMA SigueEnExec ==
  ASSUME ExecInv, fase \notin {"libre", "borra"}, ~Despedido
  PROVE  exec = hilo /\ dispKC = <<>> /\ intCK = <<>> /\ hilo \notin listos \cup bloqueados \cup terminados
BY DEF ExecInv, EnExec, Repartidos

LEMMA DesalojarPorQuantumExec == CpuInv /\ ExecInv /\ DesalojarPorQuantum => ExecInv'
<1> SUFFICES ASSUME CpuInv, ExecInv, DesalojarPorQuantum PROVE ExecInv'
  OBVIOUS
<1>0. PICK m : m = Mensaje("DESALOJO_INTR", Campos(hilo \o [i \in 1..Len(Orden) |-> contexto[Orden[i]]]))
  OBVIOUS
<1>1. /\ fase = "desaloja" /\ ~syscallBloquea
      /\ IF nombre
         THEN cm' = Append(cm, m) /\ intCK' = Append(intCK, Devuelto(hilo)) /\ fase' = "borra"
         ELSE fase' = "caida" /\ UNCHANGED <<cm, intCK>>
      /\ UNCHANGED <<hilo, syscallBloquea, dispKC, intKC, dispCK, exec, listos, bloqueados, terminados, dump, vivos>>
  BY <1>0 DEF DesalojarPorQuantum, Desaloja, PorInterrupcion, Guardar, APedir, Devuelto, kernVars, memVars
<1>2. ~Despedido
  BY <1>1, EsRespuesta DEF CpuInv, ConversaKernel, Despedido
<1>3. /\ exec = hilo /\ dispKC = <<>> /\ intCK = <<>> /\ hilo \notin terminados
      /\ SinIntr
  BY <1>1, <1>2, SigueEnExec, YaGuardados DEF ExecInv
<1>4. hilo \in Hilos /\ hilo # Nadie /\ cm \in Seq(Pedidos)
  <2>1. hilo \in Hilos /\ cm \in Seq(Pedidos)
    BY <1>1 DEF CpuInv, Tipos, TiposCpu, Canales
  <2> QED
    BY <2>1, NadieNoEsHilo
<1>5. CASE nombre
  <2>1. intCK' = <<Devuelto(hilo)>>
    BY <1>1, <1>3, <1>5
  <2>2. EnExec'
    BY <1>1, <1>3, <1>4, <1>5, <2>1 DEF EnExec
  <2>3. HiloDe(m.buffer) = hilo
    <3>1. contexto \in [Nombres -> Word] /\ "DESALOJO_INTR" \in OpsGuardar
      BY DEF CpuInv, Tipos, TiposCpu, OpsGuardar
    <3> QED
      BY <1>0, <1>4, <3>1, PideGuardar
  <2>4. Guardados'
    <3>1. /\ Len(cm') = Len(cm) + 1 /\ Len(cm) \in Nat /\ cm'[Len(cm) + 1] = m
          /\ \A i \in 1..Len(cm) : cm'[i] = cm[i]
      BY <1>1, <1>4, <1>5
    <3>2. \A i \in 1..Len(cm') : i \in 1..Len(cm) \/ i = Len(cm) + 1
      BY <3>1
    <3> QED
      BY <1>1, <1>3, <1>5, <2>3, <3>1, <3>2 DEF Guardados, SinIntr
  <2> QED
    BY <1>1, <2>2, <2>4, RepartoQuieto DEF ExecInv
<1>6. CASE ~nombre
  <2>1. EnExec'
    BY <1>1, <1>3, <1>6 DEF EnExec
  <2>2. Guardados'
    BY <1>1, <1>3, <1>6 DEF Guardados, SinIntr
  <2> QED
    BY <1>1, <2>1, <2>2, RepartoQuieto DEF ExecInv
<1> QED
  BY <1>5, <1>6

LEMMA DeleteContextoExec == ExecInv /\ DeleteContexto => ExecInv'
<1> SUFFICES ASSUME ExecInv, DeleteContexto PROVE ExecInv'
  OBVIOUS
<1>1. /\ fase = "borra" /\ fase' = "libre"
      /\ UNCHANGED <<cm, dispKC, intCK, exec, listos, bloqueados, terminados, dump, vivos>>
  BY DEF DeleteContexto, kernVars, memVars
<1>2. EnExec'
  BY <1>1 DEF ExecInv, EnExec
<1>3. Guardados'
  BY <1>1 DEF ExecInv, Guardados
<1> QED
  BY <1>1, <1>2, <1>3, RepartoQuieto DEF ExecInv

LEMMA CicloExec == CpuInv /\ ExecInv /\ Ciclo => ExecInv'
<1>1. Ciclo => Recibir \/ PedirContexto \/ CpuSigue \/ DesalojarPorQuantum \/ DeleteContexto
  BY Zenon DEF Ciclo, CpuSigue
<1> QED
  BY <1>1, RecibirExec, PedirContextoExec, CpuSigueExec, DesalojarPorQuantumExec, DeleteContextoExec

\* The steps of memoria and of the two threads of the CPU that listen.
LEMMA RespuestasExec == ExecInv /\ Respuestas => ExecInv'
<1> SUFFICES ASSUME ExecInv, Respuestas PROVE ExecInv'
  OBVIOUS
<1>1. UNCHANGED <<fase, hilo, syscallBloquea, cm, dispKC, intKC, dispCK, intCK, exec, listos, bloqueados,
                  terminados, vivos, dump>>
  BY QuedaCpuDeja DEF Respuestas, RecvContexto, RecvInstruction, RecvLectura, RecvEscritura, RecvActualizado
<1>2. Despedido => Despedido'
  BY <1>1 DEF Despedido, EnIntKC
<1>3. Guardados'
  BY <1>1 DEF ExecInv, Guardados
<1> QED
  BY <1>1, <1>2, <1>3, ExecQuieto, RepartoQuieto DEF ExecInv

\* The answers that stay in intKC when its first message leaves it.
LEMMA SacaDeIntKC ==
  ASSUME CpuInv, intKC # <<>>, intKC' = Tail(intKC), NEW v
  PROVE  /\ EnIntKC(Respuesta(v)) /\ Head(intKC) # Respuesta(v) => EnIntKC(Respuesta(v))'
         /\ EnIntKC(Respuesta(v)) /\ EsFin(Head(intKC)) => Head(intKC) = Respuesta(v)
         /\ EnIntKC(Respuesta(v))' => EnIntKC(Respuesta(v))
<1>1. intKC \in Seq(DeHilo("DESALOJO_POR_QUANTUM") \cup Finales)
  BY DEF CpuInv, Tipos, TiposKernel
<1>2. /\ Len(intKC) \in Nat /\ Len(intKC) >= 1 /\ Head(intKC) = intKC[1] /\ Len(intKC') = Len(intKC) - 1
      /\ \A i \in 1..(Len(intKC) - 1) : intKC'[i] = intKC[i + 1]
  BY <1>1
<1>3. ASSUME NEW i \in 1..Len(intKC), intKC[i] = Respuesta(v), i # 1
      PROVE  EnIntKC(Respuesta(v))'
  <2>1. i - 1 \in 1..Len(intKC') /\ i - 1 \in 1..(Len(intKC) - 1) /\ i - 1 + 1 = i
    BY <1>2, <1>3
  <2>2. intKC'[i - 1] = Respuesta(v)
    BY <1>2, <1>3, <2>1
  <2> QED
    BY <2>1, <2>2 DEF EnIntKC
<1>4. EsFin(Respuesta(v))
  BY DEF EsFin, Respuesta, Mensaje
<1>5. \A i, j \in 1..Len(intKC) : EsFin(intKC[i]) /\ EsFin(intKC[j]) => i = j
  BY DEF CpuInv, ConversaKernel
<1>6. 1 \in 1..Len(intKC)
  BY <1>2
<1>7. EnIntKC(Respuesta(v))' => EnIntKC(Respuesta(v))
  <2>1. \A i \in 1..Len(intKC') : i \in 1..(Len(intKC) - 1) /\ i + 1 \in 1..Len(intKC)
    BY <1>2
  <2> QED
    BY <1>2, <2>1 DEF EnIntKC
<1> HIDE DEF EsFin
<1> QED
  BY <1>2, <1>3, <1>4, <1>5, <1>6, <1>7 DEF EnIntKC

LEMMA AvisosExec == CpuInv /\ ExecInv /\ Avisos => ExecInv'
<1> SUFFICES ASSUME CpuInv, ExecInv, Avisos PROVE ExecInv'
  OBVIOUS
<1>1. UNCHANGED <<fase, hilo, cm, dispKC, dispCK, intCK, exec, listos, bloqueados, terminados, vivos, dump>>
  BY QuedaIntDeja DEF Avisos, AtenderRespuesta, InterrupcionMira, InterrupcionMarca
<1>2. Despedido => Despedido'
  <2>1. CASE AtenderRespuesta
    <3>1. /\ intKC # <<>> /\ Head(intKC).op = "FINALIZACION_SYSCALL" /\ intKC' = Tail(intKC)
          /\ syscallBloquea' = (Campo(Head(intKC).buffer, 1) = 0)
      BY <2>1 DEF AtenderRespuesta, LlegaInt
    <3>2. HayFin
      <4>1. intKC \in Seq(DeHilo("DESALOJO_POR_QUANTUM") \cup Finales)
        BY DEF CpuInv, Tipos, TiposKernel
      <4>2. 1 \in 1..Len(intKC) /\ Head(intKC) = intKC[1]
        BY <3>1, <4>1
      <4> QED
        BY <3>1, <4>2 DEF HayFin, EsFin
    <3>3. fase = "retorno" /\ ~syscallBloquea
      BY <3>2 DEF CpuInv, ConversaKernel
    <3>4. EnIntKC(Respuesta(0)) => Head(intKC) = Respuesta(0)
      BY <3>1, SacaDeIntKC DEF EsFin
    <3>5. Head(intKC) = Respuesta(0) => syscallBloquea'
      <4>1. PICK vs : vs = <<0>>
        OBVIOUS
      <4>2. Len(vs) = 1 /\ vs[1] = 0 /\ 1 \in 1..1 /\ 1 \in Nat
        BY <4>1
      <4>3. Campo(Campos(vs), 1) = 0
        BY <4>2, CampoDeCampos
      <4>4. Respuesta(0).buffer = Campos(vs)
        BY <4>1 DEF Respuesta, Mensaje
      <4> QED
        BY <3>1, <4>3, <4>4
    <3> QED
      BY <3>3, <3>4, <3>5 DEF Despedido
  <2>2. CASE InterrupcionMira
    <3>1. /\ intKC # <<>> /\ Head(intKC).op = "DESALOJO_POR_QUANTUM" /\ intKC' = Tail(intKC)
          /\ UNCHANGED syscallBloquea
      BY <2>2 DEF InterrupcionMira, LlegaInt
    <3>2. Head(intKC) # Respuesta(0)
      BY <3>1 DEF Respuesta, Mensaje
    <3>3. EnIntKC(Respuesta(0)) => EnIntKC(Respuesta(0))'
      BY <3>1, <3>2, SacaDeIntKC
    <3> QED
      BY <1>1, <3>1, <3>3 DEF Despedido
  <2>3. CASE InterrupcionMarca
    <3>1. UNCHANGED <<intKC, syscallBloquea>>
      BY <2>3 DEF InterrupcionMarca
    <3> QED
      BY <1>1, <3>1 DEF Despedido, EnIntKC
  <2> QED
    BY <2>1, <2>2, <2>3 DEF Avisos
<1>3. Guardados'
  BY <1>1 DEF ExecInv, Guardados
<1> QED
  BY <1>1, <1>2, <1>3, ExecQuieto, RepartoQuieto DEF ExecInv

LEMMA MemoriaCpuExec == CpuInv /\ ExecInv /\ MemoriaCpu => ExecInv'
<1> SUFFICES ASSUME CpuInv, ExecInv, MemoriaCpu PROVE ExecInv'
  OBVIOUS
<1>1. QuedaMem /\ UNCHANGED vivos /\ (cm' = cm \/ (cm # <<>> /\ cm' = Tail(cm)))
  BY DEF MemoriaCpu, BuscarProceso, PedidoContexto, ActualizarContexto, PedidoInstruccion, NoEncontrado,
     ReadFromDir, WriteInDir, Contesta, Halla, Mia
<1>2. UNCHANGED <<fase, hilo, syscallBloquea, dispKC, intKC, dispCK, intCK, exec, listos, bloqueados,
                  terminados, dump>>
  BY <1>1, QuedaMemDeja
<1>3. Despedido => Despedido'
  BY <1>2 DEF Despedido, EnIntKC
<1>4. Guardados'
  <2>1. CASE cm' = cm
    BY <1>2, <2>1 DEF ExecInv, Guardados
  <2>2. CASE cm # <<>> /\ cm' = Tail(cm)
    <3>1. cm \in Seq(Pedidos)
      BY DEF CpuInv, Tipos, Canales
    <3>2. \A i \in 1..Len(cm') : i + 1 \in 1..Len(cm) /\ cm'[i] = cm[i + 1]
      BY <2>2, <3>1
    <3> QED
      BY <1>2, <3>2 DEF ExecInv, Guardados
  <2> QED
    BY <1>1, <2>1, <2>2
<1> QED
  BY <1>1, <1>2, <1>3, <1>4, ExecQuieto, RepartoQuieto DEF ExecInv

LEMMA MemoriaDumpExec == ExecInv /\ MemoriaDump => ExecInv'
<1> SUFFICES ASSUME ExecInv, MemoriaDump PROVE ExecInv'
  OBVIOUS
<1>1. UNCHANGED <<fase, hilo, syscallBloquea, cm, dispKC, intKC, dispCK, intCK, exec, terminados, vivos>>
  BY DEF MemoriaDump, DumpBusca, DumpResponde, QuedaDump, cpuVars
<1>2. Despedido => Despedido'
  BY <1>1 DEF Despedido, EnIntKC
<1>3. Guardados'
  BY <1>1 DEF ExecInv, Guardados
<1>4. Repartidos'
  <2>1. CASE DumpBusca
    <3>1. /\ dump.paso = "pedido" /\ dump' = [dump EXCEPT !.paso = "busca"] /\ UNCHANGED <<listos, bloqueados>>
      BY <2>1 DEF DumpBusca
    <3>2. dump'.hilo = dump.hilo
      BY <3>1
    <3> QED
      BY <1>1, <3>1, <3>2 DEF ExecInv, Repartidos
  <2>2. CASE DumpResponde
    <3>1. /\ dump.paso = "busca" /\ dump'.paso = "no"
          /\ bloqueados' = bloqueados \ {dump.hilo} /\ listos' = listos \cup {dump.hilo}
      BY <2>2 DEF DumpResponde
    <3> QED
      BY <1>1, <3>1 DEF ExecInv, Repartidos
  <2> QED
    BY <2>1, <2>2 DEF MemoriaDump
<1> QED
  BY <1>1, <1>2, <1>3, <1>4, ExecQuieto DEF ExecInv

\* A new message in intKC.
LEMMA AgregaEnIntKC ==
  ASSUME CpuInv, NEW m, intKC' = Append(intKC, m), NEW v
  PROVE  /\ EnIntKC(Respuesta(v))' <=> EnIntKC(Respuesta(v)) \/ m = Respuesta(v)
<1>1. intKC \in Seq(DeHilo("DESALOJO_POR_QUANTUM") \cup Finales)
  BY DEF CpuInv, Tipos, TiposKernel
<1>2. /\ Len(intKC') = Len(intKC) + 1 /\ Len(intKC) \in Nat /\ intKC'[Len(intKC) + 1] = m
      /\ \A i \in 1..Len(intKC) : intKC'[i] = intKC[i]
  BY <1>1
<1>3. /\ \A i \in 1..Len(intKC') : i \in 1..Len(intKC) \/ i = Len(intKC) + 1
      /\ \A i \in 1..Len(intKC) : i \in 1..Len(intKC')
      /\ Len(intKC) + 1 \in 1..Len(intKC')
  BY <1>2
<1> QED
  BY <1>2, <1>3 DEF EnIntKC

\* The kernel hears of the thread in EXEC: the one in the CPU, which has no leave to go.
LEMMA OyeAlDeExec ==
  ASSUME CpuInv, ExecInv, NEW o \in Syscalls \cup {"ERROR"}, NEW h, RecibeDe(o, h)
  PROVE  /\ h = hilo /\ exec = h /\ h \in Hilos /\ dispKC = <<>> /\ intCK = <<>> /\ dispCK' = <<>>
         /\ fase = IF o = "ERROR" THEN "error" ELSE "retorno"
         /\ h \notin listos \cup bloqueados \cup terminados /\ dump.paso = "no"
         /\ SinIntr /\ ~HayFin /\ ~syscallBloquea /\ sem["retorno"] = 0
<1>1. /\ dump.paso = "no" /\ h = hilo /\ h \in Hilos /\ dispCK' = <<>>
      /\ fase = IF o = "ERROR" THEN "error" ELSE "retorno"
      /\ ~HayFin /\ sem["retorno"] = 0 /\ ~syscallBloquea
  BY AlAtender
<1>2. dispCK \notin Sobras
  <2>1. dispCK # <<>> /\ Head(dispCK) = Codigo(o)
    BY DEF RecibeDe, Recibe, RecvOp
  <2>2. Codigo(o) \in Nat /\ Codigo(o) >= 2
    BY ValoresDeCodigo DEF Syscalls
  <2> QED
    BY <2>1, <2>2 DEF Sobras
<1>3. ~Despedido
  BY <1>1, <1>2, EsRespuesta DEF Despedido
<1>4. fase \notin {"libre", "borra", "nace", "contexto"}
  BY <1>1
<1> QED
  BY <1>1, <1>3, <1>4, SigueEnExec, YaGuardados DEF ExecInv

\* The kernel takes its thread out of EXEC and tells it to leave.
LEMMA DejaExec ==
  ASSUME CpuInv, ExecInv, QuedaKernel, dispKC = <<>>, intCK = <<>>, UNCHANGED <<dispKC, intCK>>,
         Despedido'
  PROVE  EnExec'
BY QuedaKernelDeja DEF EnExec

LEMMA GuardadosSinIntr ==
  ASSUME SinIntr, cm' = cm
  PROVE  Guardados'
BY DEF SinIntr, Guardados

LEMMA AlNegar ==
  ASSUME CpuInv, Contestar(0)
  PROVE  Despedido'
<1>1. EnIntKC(Respuesta(0))'
  BY AgregaEnIntKC DEF Contestar, Respuesta
<1> QED
  BY <1>1 DEF Despedido

\* Threads that end, while no dump is waited for.
LEMMA AlTerminar ==
  ASSUME CpuInv, ExecInv, NEW S \in SUBSET Hilos, Terminar(S), dump.paso = "no", dump' = dump
  PROVE  Repartidos'
<1>1. /\ listos \subseteq Hilos /\ bloqueados \subseteq Hilos /\ terminados \subseteq Hilos /\ vivos \subseteq Hilos
      /\ Nadie \notin Hilos
  BY NadieNoEsHilo DEF CpuInv, Tipos, TiposKernel, TiposMemoria
<1>2. /\ exec' = Nadie /\ terminados' = terminados \cup S /\ vivos' = vivos \ S
      /\ listos' = listos \ S /\ bloqueados' = bloqueados \ S
  BY DEF Terminar, SinExec
<1> QED
  BY <1>1, <1>2 DEF ExecInv, Repartidos

LEMMA KernelRespondeExec ==
  ASSUME CpuInv, ExecInv, NEW h \in Hilos,
         \/ KernelSigue(h) \/ KernelBloquea(h) \/ KernelDump(h) \/ KernelThreadExit(h) \/ KernelProcessExit(h)
  PROVE  ExecInv'
<1>1. /\ Syscalls = {"MUTEX_LOCK", "DUMP_MEMORY", "THREAD_EXIT", "PROCESS_EXIT"}
      /\ listos \subseteq Hilos /\ bloqueados \subseteq Hilos /\ terminados \subseteq Hilos /\ vivos \subseteq Hilos
      /\ Nadie \notin Hilos /\ "ERROR" \notin Syscalls
  BY NadieNoEsHilo DEF Syscalls, CpuInv, Tipos, TiposKernel, TiposMemoria
<1>2. CASE KernelSigue(h)
  <2>1. /\ Contestar(1) /\ QuedaKernel
        /\ UNCHANGED <<exec, listos, bloqueados, terminados, dispKC, intCK, dump, vivos>>
    BY <1>2 DEF KernelSigue, kernVars
  <2>2. PICK o \in Syscalls : RecibeDe(o, h)
    BY <1>1, <1>2 DEF KernelSigue
  <2>3. SinIntr /\ ~HayFin /\ ~syscallBloquea /\ fase = "retorno"
    BY <1>1, <2>2, OyeAlDeExec
  <2>4. ~Despedido
    BY <2>3, EsRespuesta DEF Despedido
  <2>5. UNCHANGED <<fase, hilo, cm>>
    BY <2>1, QuedaKernelDeja
  <2>6. EnExec'
    BY <2>1, <2>4, <2>5, ExecQuieto DEF ExecInv
  <2> QED
    BY <2>1, <2>3, <2>5, <2>6, GuardadosSinIntr, RepartoQuieto DEF ExecInv
<1>3. CASE KernelBloquea(h) \/ KernelDump(h)
  <2>1. /\ exec' = Nadie /\ bloqueados' = bloqueados \cup {h} /\ Contestar(0) /\ QuedaKernel
        /\ UNCHANGED <<listos, terminados, dispKC, intCK, vivos>>
        /\ dump' = dump \/ dump'.hilo = h
    BY <1>3 DEF KernelBloquea, KernelDump, SinExec
  <2>2. PICK o \in Syscalls : RecibeDe(o, h)
    BY <1>1, <1>3 DEF KernelBloquea, KernelDump
  <2>3. /\ dispKC = <<>> /\ intCK = <<>> /\ h \notin listos \cup bloqueados \cup terminados /\ SinIntr
        /\ dump.paso = "no"
    BY <1>1, <2>2, OyeAlDeExec
  <2>4. EnExec'
    BY <2>1, <2>3, AlNegar, DejaExec
  <2>5. Repartidos'
    BY <1>1, <2>1, <2>3 DEF ExecInv, Repartidos
  <2>6. Guardados'
    BY <2>1, <2>3, QuedaKernelDeja, GuardadosSinIntr
  <2> QED
    BY <2>4, <2>5, <2>6 DEF ExecInv
<1>4. CASE KernelThreadExit(h) \/ KernelProcessExit(h)
  <2>1. PICK S : /\ S = {h} \/ S = DelProceso(h[1])
                 /\ Terminar(S) /\ Contestar(0) /\ QuedaKernel /\ UNCHANGED <<dispKC, intCK, dump>>
    BY <1>4 DEF KernelThreadExit, KernelProcessExit
  <2>2. PICK o \in Syscalls : RecibeDe(o, h)
    BY <1>1, <1>4 DEF KernelThreadExit, KernelProcessExit
  <2>3. dispKC = <<>> /\ intCK = <<>> /\ SinIntr /\ dump.paso = "no"
    BY <1>1, <2>2, OyeAlDeExec
  <2>4. EnExec'
    BY <2>1, <2>3, AlNegar, DejaExec
  <2>5. S \subseteq Hilos
    BY <2>1 DEF DelProceso
  <2>6. Repartidos'
    BY <1>1, <2>1, <2>3, <2>5, AlTerminar
  <2>7. Guardados'
    BY <2>1, <2>3, QuedaKernelDeja, GuardadosSinIntr
  <2> QED
    BY <2>4, <2>6, <2>7 DEF ExecInv
<1> QED
  BY <1>2, <1>3, <1>4

LEMMA KernelErrorExec ==
  ASSUME CpuInv, ExecInv, NEW h \in Hilos, KernelError(h)
  PROVE  ExecInv'
<1>1. /\ RecibeDe("ERROR", h) /\ Terminar(DelProceso(h[1])) /\ QuedaKernel /\ UNCHANGED <<dispKC, intKC, intCK, dump>>
  BY DEF KernelError
<1>2. fase = "error" /\ dispCK' = <<>> /\ dispKC = <<>> /\ intCK = <<>> /\ SinIntr /\ dump.paso = "no"
  BY <1>1, OyeAlDeExec
<1>3. UNCHANGED <<fase, cm>>
  BY <1>1, QuedaKernelDeja
<1>4. Despedido'
  BY <1>2, <1>3 DEF Despedido, Sobras
<1>5. DelProceso(h[1]) \subseteq Hilos
  BY DEF DelProceso
<1> QED
  BY <1>1, <1>2, <1>3, <1>4, <1>5, DejaExec, AlTerminar, GuardadosSinIntr DEF ExecInv

LEMMA KernelSinBufferExec == CpuInv /\ ExecInv /\ KernelSinBuffer => ExecInv'
<1> SUFFICES ASSUME CpuInv, ExecInv, KernelSinBuffer PROVE ExecInv'
  OBVIOUS
<1>1. /\ dispCK # <<>> /\ dispCK' = Tail(dispCK) /\ QuedaKernel
      /\ UNCHANGED <<exec, listos, bloqueados, terminados, dispKC, intKC, intCK, dump, vivos>>
  BY DEF KernelSinBuffer, Recibe, TrasOp, kernVars
<1>2. UNCHANGED <<fase, hilo, syscallBloquea, cm>>
  BY <1>1, QuedaKernelDeja
<1>3. dispCK \in Sobras => dispCK' \in Sobras
  <2>1. <<0>> # <<>> /\ <<0>> \in Seq(Nat)
    OBVIOUS
  <2> QED
    BY <1>1, <2>1, Cabezas
<1>4. Despedido => Despedido'
  BY <1>1, <1>2, <1>3 DEF Despedido, EnIntKC
<1>5. Guardados'
  BY <1>1, <1>2 DEF ExecInv, Guardados
<1> QED
  BY <1>1, <1>2, <1>4, <1>5, ExecQuieto, RepartoQuieto DEF ExecInv

LEMMA KernelInterrumpeExec == CpuInv /\ ExecInv /\ KernelInterrumpe => ExecInv'
<1> SUFFICES ASSUME CpuInv, ExecInv, KernelInterrumpe PROVE ExecInv'
  OBVIOUS
<1>1. /\ QuedaKernel /\ intKC' = Append(intKC, Mensaje("DESALOJO_POR_QUANTUM", Campos(exec)))
      /\ UNCHANGED <<exec, listos, bloqueados, terminados, dispKC, dispCK, intCK, dump, vivos>>
  BY DEF KernelInterrumpe, kernVars
<1>2. UNCHANGED <<fase, hilo, syscallBloquea, cm>>
  BY <1>1, QuedaKernelDeja
<1>3. EnIntKC(Respuesta(0)) => EnIntKC(Respuesta(0))'
  BY <1>1, AgregaEnIntKC
<1>4. Despedido => Despedido'
  BY <1>1, <1>2, <1>3 DEF Despedido
<1>5. Guardados'
  BY <1>1, <1>2 DEF ExecInv, Guardados
<1> QED
  BY <1>1, <1>2, <1>4, <1>5, ExecQuieto, RepartoQuieto DEF ExecInv

LEMMA KernelDespachaExec ==
  ASSUME CpuInv, ExecInv, NEW h \in Hilos, KernelDespacha(h)
  PROVE  ExecInv'
<1>1. /\ exec = Nadie /\ h \in listos /\ exec' = h /\ listos' = listos \ {h} /\ QuedaKernel
      /\ dispKC' = Append(dispKC, Lanzado(h))
      /\ UNCHANGED <<bloqueados, terminados, intKC, dispCK, intCK, dump, vivos>>
  BY DEF KernelDespacha, Lanzado
<1>2. UNCHANGED <<fase, hilo, syscallBloquea, cm>>
  BY <1>1, QuedaKernelDeja
<1>3. dispKC = <<>> /\ intCK = <<>> /\ Nadie \notin Hilos
  BY <1>1, NadieNoEsHilo DEF ExecInv, EnExec
<1>4. fase \notin {"libre", "borra"} => Despedido'
  <2>1. fase # "libre" => hilo # Nadie
    BY <1>3 DEF CpuInv, Tipos, TiposCpu
  <2>2. fase \notin {"libre", "borra"} => Despedido
    BY <1>1, <2>1 DEF ExecInv, EnExec
  <2>3. Despedido => Despedido'
    BY <1>1, <1>2 DEF Despedido, EnIntKC
  <2> QED
    BY <2>2, <2>3
<1>5. EnExec'
  <2>1. dispKC' = <<Lanzado(exec')>> /\ intCK' = <<>> /\ exec' # Nadie
    BY <1>1, <1>3
  <2> QED
    BY <1>2, <1>4, <2>1 DEF EnExec, Lanzado
<1>6. Repartidos'
  BY <1>1 DEF ExecInv, Repartidos
<1>7. Guardados'
  BY <1>1, <1>2 DEF ExecInv, Guardados
<1> QED
  BY <1>5, <1>6, <1>7 DEF ExecInv

LEMMA KernelDesbloqueaExec ==
  ASSUME ExecInv, NEW h, KernelDesbloquea(h)
  PROVE  ExecInv'
<1>1. /\ h \in bloqueados /\ dump.hilo # h /\ bloqueados' = bloqueados \ {h} /\ listos' = listos \cup {h} /\ QuedaKernel
      /\ UNCHANGED <<exec, terminados, dispKC, intKC, dispCK, intCK, dump, vivos>>
  BY DEF KernelDesbloquea
<1>2. UNCHANGED <<fase, hilo, syscallBloquea, cm>>
  BY <1>1, QuedaKernelDeja
<1>3. Despedido => Despedido'
  BY <1>1, <1>2 DEF Despedido, EnIntKC
<1>4. Repartidos'
  BY <1>1 DEF ExecInv, Repartidos
<1>5. Guardados'
  BY <1>1, <1>2 DEF ExecInv, Guardados
<1> QED
  BY <1>1, <1>2, <1>3, <1>4, <1>5, ExecQuieto DEF ExecInv

LEMMA KernelQuantumExec == CpuInv /\ ExecInv /\ KernelQuantum => ExecInv'
<1> SUFFICES ASSUME CpuInv, ExecInv, KernelQuantum PROVE ExecInv'
  OBVIOUS
<1>1. /\ intCK # <<>> /\ intCK' = Tail(intCK) /\ exec' = Nadie /\ QuedaKernel
      /\ listos' = listos \cup {HiloDe(Head(intCK).buffer)}
      /\ UNCHANGED <<bloqueados, terminados, dispKC, intKC, dispCK, dump, vivos>>
  BY DEF KernelQuantum, SinExec
<1>2. UNCHANGED <<fase, hilo, syscallBloquea, cm>>
  BY <1>1, QuedaKernelDeja
<1>3. /\ exec # Nadie /\ exec \in Hilos /\ fase \in {"borra", "libre"} /\ intCK = <<Devuelto(exec)>> /\ dispKC = <<>>
  BY <1>1 DEF ExecInv, EnExec, CpuInv, Tipos, TiposKernel
<1>4. intCK' = <<>> /\ HiloDe(Head(intCK).buffer) = exec
  <2>1. Head(<<Devuelto(exec)>>) = Devuelto(exec) /\ Tail(<<Devuelto(exec)>>) = <<>>
    OBVIOUS
  <2>2. Devuelto(exec).buffer = Campos(exec)
    BY DEF Devuelto, Mensaje
  <2> QED
    BY <1>1, <1>3, <2>1, <2>2, CamposDeHilo
<1>5. EnExec'
  BY <1>1, <1>2, <1>3, <1>4 DEF EnExec
<1>6. Repartidos'
  <2>1. Nadie \notin listos' \cup bloqueados \cup terminados
    BY <1>1, <1>3, <1>4, NadieNoEsHilo DEF CpuInv, Tipos, TiposKernel
  <2> QED
    BY <1>1, <1>4, <2>1 DEF ExecInv, Repartidos
<1>7. Guardados'
  BY <1>1, <1>2 DEF ExecInv, Guardados
<1> QED
  BY <1>5, <1>6, <1>7 DEF ExecInv

LEMMA NextExec == CpuInv /\ ExecInv /\ [Next]_vars => ExecInv'
<1> SUFFICES ASSUME CpuInv, ExecInv, [Next]_vars PROVE ExecInv'
  OBVIOUS
<1>1. CASE KernelAtiende
  <2>1. ASSUME NEW h \in Hilos, \/ KernelSigue(h) \/ KernelBloquea(h) \/ KernelDump(h)
                                \/ KernelThreadExit(h) \/ KernelProcessExit(h) \/ KernelError(h)
        PROVE  ExecInv'
    BY <2>1, KernelRespondeExec, KernelErrorExec
  <2> QED
    BY <1>1, <2>1, KernelSinBufferExec DEF KernelAtiende
<1>2. ASSUME NEW h \in Hilos, KernelDespacha(h) \/ KernelDesbloquea(h)
      PROVE  ExecInv'
  BY <1>2, KernelDespachaExec, KernelDesbloqueaExec
<1>3. CASE UNCHANGED vars
  <2>1. UNCHANGED <<fase, hilo, syscallBloquea, cm, dispKC, intKC, dispCK, intCK, exec, listos, bloqueados,
                    terminados, vivos, dump>>
    BY <1>3 DEF vars, cpuVars, kernVars, memVars
  <2>2. Despedido => Despedido'
    BY <2>1 DEF Despedido, EnIntKC
  <2>3. Guardados'
    BY <2>1 DEF ExecInv, Guardados
  <2> QED
    BY <2>1, <2>2, <2>3, ExecQuieto, RepartoQuieto DEF ExecInv
<1> QED
  BY <1>1, <1>2, <1>3, CicloExec, RespuestasExec, AvisosExec, MemoriaCpuExec, MemoriaDumpExec,
     KernelInterrumpeExec, KernelQuantumExec DEF Next

-----------------------------------------------------------------------------
(* The program counters: the CPU *)

\* The instruction at p: a jump goes inside the program, and only an exit is the last.
LEMMA EnElPrograma ==
  ASSUME ProgramasQueTerminan, NEW h \in Hilos, NEW i, NEW p \in Word, EsLaDe(h, i, p)
  PROVE  /\ i.op = "JNZ" \/ (i.op = "SET" /\ i.a = "PC") => i.n < Len(Programa[h])
         /\ i.op \in {"SUM", "SUB", "READ_MEM"} => i.a # "PC"
         /\ ~(i.op = "THREAD_EXIT" \/ (i.op = "PROCESS_EXIT" /\ h[2] = 0)) =>
              (p + 1) % Palabra < Len(Programa[h])
<1>1. /\ p \in Nat /\ Palabra \in Nat /\ Palabra > 1 /\ Len(Programa[h]) \in 1..(Palabra - 1)
      /\ p < Len(Programa[h])
  BY CeroYUno, PesoPositivo DEF ProgramasQueTerminan, EsLaDe
<1>2. p + 1 \in 1..Len(Programa[h]) /\ p + 1 \in Nat /\ p + 1 < Palabra
  BY <1>1
<1>3. i = Programa[h][p + 1]
  BY DEF EsLaDe
<1>4. (p + 1) % Palabra = p + 1
  BY <1>1, <1>2, Modulo
<1>5. /\ i.op = "JNZ" \/ (i.op = "SET" /\ i.a = "PC") => i.n < Len(Programa[h])
      /\ i.op \in {"SUM", "SUB", "READ_MEM"} => i.a # "PC"
      /\ p + 1 = Len(Programa[h]) => i.op = "THREAD_EXIT" \/ (i.op = "PROCESS_EXIT" /\ h[2] = 0)
  BY <1>2, <1>3 DEF ProgramasQueTerminan
<1>6. p + 1 # Len(Programa[h]) => p + 1 < Len(Programa[h])
  BY <1>1
<1> QED
  BY <1>4, <1>5, <1>6

\* Out of a syscall nobody has an answer.
LEMMA RespondidoFuera ==
  ASSUME CpuInv', fase' # "retorno"
  PROVE  Respondido'
<1>1. ~EnIntKC(Respuesta(1))'
  <2>1. ASSUME NEW i \in 1..Len(intKC'), intKC'[i] = Respuesta(1)
        PROVE  FALSE
    <3>1. EsFin(intKC'[i])
      BY <2>1 DEF EsFin, Respuesta, Mensaje
    <3>2. HayFin'
      BY <3>1 DEF HayFin
    <3> QED
      BY <3>2 DEF CpuInv, ConversaKernel
  <2> QED
    BY <2>1 DEF EnIntKC
<1>2. sem'["retorno"] # 1
  BY DEF CpuInv, ConversaKernel
<1> QED
  BY <1>1, <1>2 DEF Respondido, Seguira

\* Who waits for an answer that has not been given.
LEMMA SinRespuesta ==
  ASSUME KernelCallado, UNCHANGED <<intKC, syscallBloquea>>, sem'["retorno"] = sem["retorno"]
  PROVE  Respondido'
<1>1. \A v : ~EnIntKC(Respuesta(v))
  BY EsRespuesta DEF KernelCallado
<1>2. ~EnIntKC(Respuesta(0))' /\ ~EnIntKC(Respuesta(1))'
  BY <1>1 DEF EnIntKC
<1> QED
  BY <1>2 DEF Respondido, Seguira, Despedido, KernelCallado

\* Whoever was leaving still is, unless it comes back from the syscall it leaves by.
LEMMA SalientesSiguen ==
  ASSUME terminados \subseteq terminados', fase # "retorno" \/ UNCHANGED <<fase, hilo, instr>>
  PROVE  Salientes \subseteq Salientes'
BY DEF Salientes

LEMMA CtxSigue ==
  ASSUME CtxDentro, ctx' = ctx, Salientes \subseteq Salientes'
  PROVE  CtxDentro'
BY DEF CtxDentro, Dentro

LEMMA CmSigue ==
  ASSUME CmDentro, Salientes \subseteq Salientes', cm \in Seq(Pedidos),
         \/ cm' = cm
         \/ \E m : /\ cm' = Append(cm, m)
                   /\ m.op \in OpsGuardar => \/ PcGuardado(m) < Len(Programa[HiloDe(m.buffer)])
                                             \/ HiloDe(m.buffer) \in Salientes'
  PROVE  CmDentro'
<1>1. CASE cm' = cm
  BY <1>1 DEF CmDentro, Dentro, PcGuardado
<1>2. ASSUME NEW m, cm' = Append(cm, m),
             m.op \in OpsGuardar => \/ PcGuardado(m) < Len(Programa[HiloDe(m.buffer)])
                                    \/ HiloDe(m.buffer) \in Salientes'
      PROVE  CmDentro'
  <2>1. /\ Len(cm') = Len(cm) + 1 /\ Len(cm) \in Nat /\ cm'[Len(cm) + 1] = m
        /\ \A i \in 1..Len(cm) : cm'[i] = cm[i]
    BY <1>2
  <2>2. \A i \in 1..Len(cm') : i \in 1..Len(cm) \/ i = Len(cm) + 1
    BY <2>1
  <2>3. \A i \in 1..Len(cm) : cm'[i].op \in OpsGuardar =>
           \/ PcGuardado(cm'[i]) < Len(Programa[HiloDe(cm'[i].buffer)])
           \/ HiloDe(cm'[i].buffer) \in Salientes'
    BY <2>1 DEF CmDentro, Dentro
  <2>4. \A i \in 1..Len(cm') : cm'[i].op \in OpsGuardar =>
           \/ PcGuardado(cm'[i]) < Len(Programa[HiloDe(cm'[i].buffer)])
           \/ HiloDe(cm'[i].buffer) \in Salientes'
    BY <1>2, <2>1, <2>2, <2>3
  <2> QED
    BY <2>4 DEF CmDentro, Dentro
<1> QED
  BY <1>1, <1>2

\* A step of the CPU.
LEMMA PcPaso ==
  ASSUME CpuInv, PcInv, Respondido', UNCHANGED <<ctx, cruce>>, Salientes \subseteq Salientes',
         \/ cm' = cm
         \/ \E m : /\ cm' = Append(cm, m)
                   /\ ~cruce /\ m.op \in OpsGuardar => \/ PcGuardado(m) < Len(Programa[HiloDe(m.buffer)])
                                                       \/ HiloDe(m.buffer) \in Salientes',
         ~cruce => PcCargado' /\ PcTraido' /\ EnSuInstruccion'
  PROVE  PcInv'
<1>1. ASSUME ~cruce
      PROVE  CtxDentro' /\ CmDentro'
  <2>1. cm \in Seq(Pedidos) /\ CtxDentro /\ CmDentro
    BY <1>1 DEF CpuInv, Tipos, Canales, PcInv, ContadoresDentro
  <2> QED
    BY <1>1, <2>1, CtxSigue, CmSigue
<1> QED
  BY <1>1 DEF PcInv, ContadoresDentro

\* Nothing about an instruction is on its way in the other phases.
LEMMA SinInstruccion ==
  ASSUME CpuInv', fase' \notin {"fetch", "lee", "retorno"}
  PROVE  EnSuInstruccion'
<1>1. sem'["fetch"] # 1
  <2>1. "fetch" \in Semaforos
    BY DEF Semaforos
  <2>2. sem'["fetch"] = 1 => EsperaPor("fetch")'
    BY <2>1 DEF CpuInv, Conversa
  <2> QED
    BY <2>2 DEF EsperaPor
<1> QED
  BY <1>1 DEF EnSuInstruccion

\* A step that ends inside the CPU.
LEMMA PcEnCpu ==
  ASSUME CpuInv, CpuInv', PcInv, UNCHANGED <<hilo, terminados, ctx, cruce, cm>>, fase # "retorno",
         fase' \notin {"libre", "nace", "contexto", "fetch", "lee", "retorno"},
         ~cruce => contexto'["PC"] < Len(Programa[hilo]) \/ hilo \in Salientes
  PROVE  PcInv'
<1>1. Respondido' /\ EnSuInstruccion' /\ PcTraido'
  BY RespondidoFuera, SinInstruccion DEF PcTraido
<1>2. Salientes \subseteq Salientes'
  BY SalientesSiguen
<1>3. ~cruce => PcCargado'
  BY <1>2 DEF PcCargado, Dentro
<1> QED
  BY <1>1, <1>2, <1>3, PcPaso

\* What the next program counter may be.
LEMMA ElSiguiente ==
  ASSUME CpuInv, PcInv, ProgramasQueTerminan, NEW op, Ejecuta(op), ~cruce
  PROVE  /\ hilo \in Hilos /\ EsLaDe(hilo, instr, contexto["PC"]) /\ instr.op = op /\ fase = "fetch"
         /\ contexto["PC"] \in Word /\ contexto["PC"] < Len(Programa[hilo])
         /\ op = "JNZ" \/ (op = "SET" /\ instr.a = "PC") => instr.n < Len(Programa[hilo])
         /\ op \in {"SUM", "SUB", "READ_MEM"} => instr.a # "PC"
         /\ op \notin {"THREAD_EXIT", "PROCESS_EXIT"} => MasPC(1)["PC"] < Len(Programa[hilo])
<1>1. /\ fase = "fetch" /\ Wait("fetch") /\ instr.op = op /\ hilo \in Hilos /\ contexto \in [Nombres -> Word]
      /\ sem["fetch"] \in {0, 1} /\ "PC" \in Nombres
  BY DEF Ejecuta, CpuInv, Tipos, TiposCpu, Canales, Semaforos, Nombres
<1>2. sem["fetch"] = 1
  BY <1>1 DEF Wait
<1>3. EsLaDe(hilo, instr, contexto["PC"])
  BY <1>2 DEF PcInv, EnSuInstruccion
<1>4. contexto["PC"] \in Word /\ MasPC(1)["PC"] = (contexto["PC"] + 1) % Palabra
  BY <1>1 DEF MasPC
<1> QED
  BY <1>1, <1>3, <1>4, EnElPrograma DEF EsLaDe

LEMMA PcTrasEscribir ==
  ASSUME NEW c \in [Nombres -> Word], NEW r, NEW v
  PROVE  [c EXCEPT ![r] = v]["PC"] = IF r = "PC" THEN v ELSE c["PC"]
<1>1. "PC" \in DOMAIN c
  BY DEF Nombres
<1> QED
  BY <1>1

LEMMA EjecutarSetPc == CpuInv /\ CpuInv' /\ PcInv /\ ProgramasQueTerminan /\ EjecutarSet => PcInv'
<1> SUFFICES ASSUME CpuInv, CpuInv', PcInv, ProgramasQueTerminan, EjecutarSet PROVE PcInv'
  OBVIOUS
<1>1. Ejecuta("SET") /\ fase = "fetch" /\ fase' = "chequea" /\ Quieto /\ cm' = cm
  BY DEF EjecutarSet, Ejecuta
<1>2. contexto' = MasPC(1) \/ (instr.a \in Nombres /\ contexto' = [MasPC(1) EXCEPT ![instr.a] = instr.n])
  BY DEF EjecutarSet, Conocido
<1>3. MasPC(1) \in [Nombres -> Word]
  BY PcAvanzado DEF CpuInv, Tipos, TiposCpu
<1>4. contexto'["PC"] = MasPC(1)["PC"] \/ (instr.a = "PC" /\ contexto'["PC"] = instr.n)
  BY <1>2, <1>3, PcTrasEscribir
<1>5. ~cruce => contexto'["PC"] < Len(Programa[hilo])
  BY <1>1, <1>4, ElSiguiente
<1> QED
  BY <1>1, <1>5, QuietoDeja, PcEnCpu

LEMMA EjecutarSumaPc ==
  ASSUME CpuInv, CpuInv', PcInv, ProgramasQueTerminan, NEW op \in {"SUM", "SUB"}, EjecutarSuma(op)
  PROVE  PcInv'
<1>1. Ejecuta(op) /\ fase = "fetch" /\ fase' \in {"chequea", "nulo"} /\ Quieto /\ cm' = cm
  BY DEF EjecutarSuma, Ejecuta
<1>2. \/ contexto' = MasPC(1)
      \/ \E v : contexto' = [MasPC(1) EXCEPT ![instr.a] = v]
  BY DEF EjecutarSuma
<1>3. instr.a # "PC" => contexto'["PC"] = MasPC(1)["PC"]
  <2>1. MasPC(1) \in [Nombres -> Word]
    BY PcAvanzado DEF CpuInv, Tipos, TiposCpu
  <2> QED
    BY <1>2, <2>1, PcTrasEscribir
<1>4. ~cruce => contexto'["PC"] < Len(Programa[hilo])
  BY <1>1, <1>3, ElSiguiente
<1> QED
  BY <1>1, <1>4, QuietoDeja, PcEnCpu

LEMMA EjecutarJnzPc == CpuInv /\ CpuInv' /\ PcInv /\ ProgramasQueTerminan /\ EjecutarJnz => PcInv'
<1> SUFFICES ASSUME CpuInv, CpuInv', PcInv, ProgramasQueTerminan, EjecutarJnz PROVE PcInv'
  OBVIOUS
<1>1. Ejecuta("JNZ") /\ fase = "fetch" /\ fase' = "chequea" /\ Quieto /\ cm' = cm
  BY DEF EjecutarJnz, Ejecuta
<1>2. contexto' = MasPC(1) \/ contexto' = contexto \/ contexto' = [contexto EXCEPT !["PC"] = instr.n]
  BY DEF EjecutarJnz
<1>3. contexto \in [Nombres -> Word] /\ "PC" \in Nombres
  BY DEF CpuInv, Tipos, TiposCpu, Nombres
<1>4. contexto'["PC"] \in {MasPC(1)["PC"], contexto["PC"], instr.n}
  BY <1>2, <1>3
<1>5. ~cruce => contexto'["PC"] < Len(Programa[hilo])
  BY <1>1, <1>4, ElSiguiente
<1> QED
  BY <1>1, <1>5, QuietoDeja, PcEnCpu

LEMMA EjecutarLogPc == CpuInv /\ CpuInv' /\ PcInv /\ ProgramasQueTerminan /\ EjecutarLog => PcInv'
<1> SUFFICES ASSUME CpuInv, CpuInv', PcInv, ProgramasQueTerminan, EjecutarLog PROVE PcInv'
  OBVIOUS
<1>1. /\ Ejecuta("LOG") /\ fase = "fetch" /\ fase' \in {"chequea", "nulo"} /\ Quieto /\ cm' = cm
      /\ contexto' = MasPC(1)
  BY DEF EjecutarLog, Ejecuta
<1>2. ~cruce => contexto'["PC"] < Len(Programa[hilo])
  BY <1>1, ElSiguiente
<1> QED
  BY <1>1, <1>2, QuietoDeja, PcEnCpu

\* A request for a word, whose context is not among those that are saved.
LEMMA PcAlPedirPalabra ==
  ASSUME CpuInv, CpuInv', PcInv, NEW o \in {"PEDIDO_LECTURA_CM", "PEDIDO_ESCRITURA_CM"}, NEW vs, APedir(o, vs),
         UNCHANGED <<hilo, terminados, ctx, cruce, mc, instr>>, fase = "fetch", fase' \in {"lee", "escribe"},
         ~cruce => contexto'["PC"] < Len(Programa[hilo]),
         ~cruce /\ fase' = "lee" => instr.a # "PC"
  PROVE  PcInv'
<1>1. Respondido'
  BY RespondidoFuera
<1>2. Salientes \subseteq Salientes'
  BY SalientesSiguen
<1>3. sem'["fetch"] # 1
  <2>1. "fetch" \in Semaforos
    BY DEF Semaforos
  <2> QED
    BY <2>1 DEF CpuInv, Conversa, EsperaPor
<1>4. PcTraido' /\ (~cruce => PcCargado' /\ EnSuInstruccion')
  BY <1>3 DEF PcTraido, PcCargado, EnSuInstruccion, Dentro
<1>5. PICK m : cm' = Append(cm, m) /\ m.op = o
  BY DEF APedir, Mensaje
<1>6. m.op \notin OpsGuardar
  BY <1>5 DEF OpsGuardar
<1> QED
  BY <1>1, <1>2, <1>4, <1>5, <1>6, PcPaso

LEMMA EjecutarReadMemPc == CpuInv /\ CpuInv' /\ PcInv /\ ProgramasQueTerminan /\ EjecutarReadMem => PcInv'
<1> SUFFICES ASSUME CpuInv, CpuInv', PcInv, ProgramasQueTerminan, EjecutarReadMem PROVE PcInv'
  OBVIOUS
<1>1. Ejecuta("READ_MEM") /\ fase = "fetch" /\ Quieto /\ contexto' = MasPC(1)
  BY DEF EjecutarReadMem, Ejecuta
<1>2. ~cruce => contexto'["PC"] < Len(Programa[hilo]) /\ instr.a # "PC"
  BY <1>1, ElSiguiente
<1>3. (\E vs : APedir("PEDIDO_LECTURA_CM", vs) /\ fase' = "lee") \/ (cm' = cm /\ fase' \in {"chequea", "nulo"})
  BY DEF EjecutarReadMem
<1>4. CASE cm' = cm /\ fase' \in {"chequea", "nulo"}
  BY <1>1, <1>2, <1>4, QuietoDeja, PcEnCpu
<1>5. CASE \E vs : APedir("PEDIDO_LECTURA_CM", vs) /\ fase' = "lee"
  BY <1>1, <1>2, <1>5, QuietoDeja, PcAlPedirPalabra
<1> QED
  BY <1>3, <1>4, <1>5

LEMMA EjecutarWriteMemPc == CpuInv /\ CpuInv' /\ PcInv /\ ProgramasQueTerminan /\ EjecutarWriteMem => PcInv'
<1> SUFFICES ASSUME CpuInv, CpuInv', PcInv, ProgramasQueTerminan, EjecutarWriteMem PROVE PcInv'
  OBVIOUS
<1>1. Ejecuta("WRITE_MEM") /\ fase = "fetch" /\ Quieto /\ contexto' = MasPC(1)
  BY DEF EjecutarWriteMem, Ejecuta
<1>2. ~cruce => contexto'["PC"] < Len(Programa[hilo])
  BY <1>1, ElSiguiente
<1>3. (\E vs : APedir("PEDIDO_ESCRITURA_CM", vs) /\ fase' = "escribe") \/ (cm' = cm /\ fase' \in {"chequea", "nulo"})
  BY DEF EjecutarWriteMem
<1>4. CASE cm' = cm /\ fase' \in {"chequea", "nulo"}
  BY <1>1, <1>2, <1>4, QuietoDeja, PcEnCpu
<1>5. CASE \E vs : APedir("PEDIDO_ESCRITURA_CM", vs) /\ fase' = "escribe"
  BY <1>1, <1>2, <1>5, QuietoDeja, PcAlPedirPalabra
<1> QED
  BY <1>3, <1>4, <1>5

LEMMA LecturaListaPc == CpuInv /\ CpuInv' /\ PcInv /\ LecturaLista => PcInv'
<1> SUFFICES ASSUME CpuInv, CpuInv', PcInv, LecturaLista PROVE PcInv'
  OBVIOUS
<1>1. /\ fase = "lee" /\ fase' \in {"chequea", "nulo"} /\ Quieto /\ cm' = cm
      /\ contexto' = contexto \/ contexto' = [contexto EXCEPT ![instr.a] = valorLectura]
  BY DEF LecturaLista
<1>2. ~cruce => instr.a # "PC"
  BY <1>1 DEF PcInv, EnSuInstruccion
<1>3. ~cruce => contexto'["PC"] = contexto["PC"]
  <2>1. contexto \in [Nombres -> Word]
    BY DEF CpuInv, Tipos, TiposCpu
  <2> QED
    BY <1>1, <1>2, <2>1, PcTrasEscribir
<1>4. ~cruce => contexto["PC"] < Len(Programa[hilo]) \/ hilo \in Salientes
  BY <1>1 DEF PcInv, ContadoresDentro, PcCargado, Dentro, Corriendo
<1>5. ~cruce => contexto'["PC"] < Len(Programa[hilo]) \/ hilo \in Salientes
  BY <1>3, <1>4
<1> QED
  BY <1>1, <1>5, QuietoDeja, PcEnCpu

LEMMA EscrituraListaPc == CpuInv /\ CpuInv' /\ PcInv /\ EscrituraLista => PcInv'
<1> SUFFICES ASSUME CpuInv, CpuInv', PcInv, EscrituraLista PROVE PcInv'
  OBVIOUS
<1>1. /\ fase = "escribe" /\ fase' = "chequea" /\ Quieto /\ cm' = cm /\ contexto' = contexto
  BY DEF EscrituraLista
<1>2. ~cruce => contexto'["PC"] < Len(Programa[hilo]) \/ hilo \in Salientes
  BY <1>1 DEF PcInv, ContadoresDentro, PcCargado, Dentro, Corriendo
<1> QED
  BY <1>1, <1>2, QuietoDeja, PcEnCpu

LEMMA PcAlBuscar ==
  ASSUME CpuInv, CpuInv', PcInv, Fetch, Corriendo, ~Contestada, SinPosts', fase # "retorno", hilo \in Hilos,
         UNCHANGED <<hilo, contexto, terminados, ctx, cruce, mc, instr>>
  PROVE  PcInv'
<1>1. fase' = "fetch" /\ cm \in Seq(Pedidos) /\ contexto["PC"] \in Word
  <2>1. "PC" \in Nombres
    BY DEF Nombres
  <2> QED
    BY <2>1 DEF Fetch, CpuInv, Tipos, TiposCpu, Canales
<1>2. PICK m : m = Mensaje("PEDIDO_INSTRUCCION", Campos(hilo \o <<contexto["PC"]>>))
  OBVIOUS
<1>3. cm' = Append(cm, m) /\ m.op = "PEDIDO_INSTRUCCION"
  BY <1>2 DEF Fetch, APedir, Mensaje
<1>4. Campo(m.buffer, 3) = contexto["PC"]
  <2>1. PICK p \in Nat : p = contexto["PC"]
    BY <1>1, CeroYUno
  <2>2. PICK vs : vs = <<p>>
    OBVIOUS
  <2>3. vs \in Seq(Nat) /\ 1 \in 1..Len(vs) /\ vs[1] = p
    BY ONLY <2>1, <2>2
  <2>4. \A k \in 1..Len(vs) : Campo(Mensaje("PEDIDO_INSTRUCCION", Campos(hilo \o vs)).buffer, 2 + k) = vs[k]
    BY <2>3, HiloDelPedido
  <2>5. Campo(m.buffer, 2 + 1) = p
    BY <1>2, <2>1, <2>2, <2>3, <2>4
  <2>6. 2 + 1 = 3
    OBVIOUS
  <2> QED
    BY <2>1, <2>5, <2>6
<1>5. Ultimo(cm)' = m
  BY <1>1, <1>3 DEF Ultimo
<1>6. /\ Respondido' /\ PcTraido' /\ Salientes \subseteq Salientes' /\ m.op \notin OpsGuardar
      /\ ~Contestada' /\ sem'["fetch"] # 1
  BY <1>1, <1>3, RespondidoFuera, SalientesSiguen DEF PcTraido, OpsGuardar, Contestada, Pide, Ultimo, SinPosts, Semaforos
<1>7. ~cruce => PcCargado'
  BY <1>6 DEF PcInv, ContadoresDentro, PcCargado, Dentro
<1>8. EnSuInstruccion'
  BY <1>1, <1>4, <1>5, <1>6 DEF EnSuInstruccion
<1> QED
  BY <1>3, <1>6, <1>7, <1>8, PcPaso

LEMMA ContextoListoPc == CpuInv /\ CpuInv' /\ PcInv /\ ContextoListo => PcInv'
<1> SUFFICES ASSUME CpuInv, CpuInv', PcInv, ContextoListo PROVE PcInv'
  OBVIOUS
<1>1. /\ fase = "contexto" /\ Wait("contexto") /\ Fetch
      /\ UNCHANGED <<hilo, contexto, terminados, ctx, cruce, mc, instr>>
  BY DEF ContextoListo, kernVars, memVars
<1>2. hilo \in Hilos /\ Corriendo
  BY <1>1 DEF CpuInv, Tipos, TiposCpu, Canales, Wait, Corriendo, Semaforos
<1>3. ~Contestada /\ SinPosts'
  <2>1. "contexto" \in Semaforos
    BY DEF Semaforos
  <2> QED
    BY <1>1, <2>1, PostTomado DEF CpuInv, Tipos
<1> QED
  BY <1>1, <1>2, <1>3, PcAlBuscar

\* The context that is saved is the one that is loaded.
LEMMA PcDelGuardado ==
  ASSUME CpuInv, NEW o \in OpsGuardar, NEW c \in [Nombres -> Word], Guardar(o, c), hilo \in Hilos
  PROVE  \E m : cm' = Append(cm, m) /\ PcGuardado(m) = c["PC"] /\ HiloDe(m.buffer) = hilo
<1>1. PICK m : m = Mensaje(o, Campos(hilo \o [i \in 1..Len(Orden) |-> c[Orden[i]]]))
  OBVIOUS
<1>2. cm' = Append(cm, m)
  BY <1>1 DEF Guardar, APedir
<1>3. HiloDe(m.buffer) = hilo /\ \A r \in Guardables : Campo(m.buffer, 2 + Lugar(r)) = c[r]
  BY <1>1, PideGuardar
<1>4. PcGuardado(m) = c["PC"]
  BY <1>3 DEF PcGuardado, Guardables
<1> QED
  BY <1>2, <1>3, <1>4

LEMMA EjecutarSyscallPc == CpuInv /\ CpuInv' /\ PcInv /\ ProgramasQueTerminan /\ EjecutarSyscall => PcInv'
<1> SUFFICES ASSUME CpuInv, CpuInv', PcInv, ProgramasQueTerminan, EjecutarSyscall PROVE PcInv'
  OBVIOUS
<1>1. PICK o \in {"MUTEX_LOCK", "DUMP_MEMORY", "THREAD_EXIT"} :
        /\ Ejecuta(o) /\ contexto' = MasPC(1) /\ Guardar("DESALOJO_INSTRUCCION_CM", contexto')
  BY DEF EjecutarSyscall, EnviosDesalojo
<1>2. fase' = "retorno" /\ Quieto /\ instr.op = o /\ fase = "fetch"
  BY <1>1 DEF EjecutarSyscall, Ejecuta
<1>3. UNCHANGED <<hilo, terminados, ctx, cruce, mc, instr, intKC, syscallBloquea>>
  BY <1>2, QuietoDeja
<1>4. KernelCallado /\ sem'["retorno"] = sem["retorno"] /\ hilo \in Hilos
  BY <1>1, <1>2, AlEjecutar DEF CpuInv, Tipos, TiposCpu
<1>5. Respondido' /\ Salientes \subseteq Salientes' /\ (o = "THREAD_EXIT" => hilo \in Salientes') /\ PcTraido'
  BY <1>2, <1>3, <1>4, SinRespuesta, SalientesSiguen DEF Salientes, PcTraido
<1>6. ~cruce => contexto'["PC"] < Len(Programa[hilo]) \/ hilo \in Salientes'
  BY <1>1, <1>5, ElSiguiente
<1>7. sem'["fetch"] # 1
  <2>1. "fetch" \in Semaforos
    BY DEF Semaforos
  <2> QED
    BY <1>2, <2>1 DEF CpuInv, Conversa, EsperaPor
<1>8. ~cruce => PcCargado' /\ EnSuInstruccion'
  BY <1>1, <1>2, <1>3, <1>6, <1>7 DEF PcCargado, Dentro, EnSuInstruccion
<1>9. \E m : cm' = Append(cm, m) /\ PcGuardado(m) = contexto'["PC"] /\ HiloDe(m.buffer) = hilo
  <2>1. contexto' \in [Nombres -> Word] /\ "DESALOJO_INSTRUCCION_CM" \in OpsGuardar
    BY DEF CpuInv, Tipos, TiposCpu, OpsGuardar
  <2> QED
    BY <1>1, <1>4, <2>1, PcDelGuardado
<1> QED
  BY <1>3, <1>5, <1>6, <1>8, <1>9, PcPaso

LEMMA EjecutarProcessExitPc ==
  CpuInv /\ CpuInv' /\ PcInv /\ ProgramasQueTerminan /\ EjecutarProcessExit => PcInv'
<1> SUFFICES ASSUME CpuInv, CpuInv', PcInv, ProgramasQueTerminan, EjecutarProcessExit PROVE PcInv'
  OBVIOUS
<1>1. /\ Ejecuta("PROCESS_EXIT") /\ contexto' = contexto /\ Guardar("DESALOJO_INSTRUCCION_CM", contexto)
      /\ fase' = "retorno" /\ Quieto /\ instr.op = "PROCESS_EXIT" /\ fase = "fetch"
  BY DEF EjecutarProcessExit, EnviosDesalojo, Ejecuta
<1>2. UNCHANGED <<hilo, terminados, ctx, cruce, mc, instr, intKC, syscallBloquea>>
  BY <1>1, QuietoDeja
<1>3. KernelCallado /\ sem'["retorno"] = sem["retorno"] /\ hilo \in Hilos
  BY <1>1, AlEjecutar DEF CpuInv, Tipos, TiposCpu
<1>4. Respondido' /\ Salientes \subseteq Salientes' /\ PcTraido'
  BY <1>1, <1>2, <1>3, SinRespuesta, SalientesSiguen DEF PcTraido
<1>5. ~cruce => EsLaDe(hilo, instr, contexto["PC"]) /\ contexto["PC"] < Len(Programa[hilo])
  BY <1>1, ElSiguiente
<1>6. sem'["fetch"] # 1
  <2>1. "fetch" \in Semaforos
    BY DEF Semaforos
  <2> QED
    BY <1>1, <2>1 DEF CpuInv, Conversa, EsperaPor
<1>7. ~cruce => PcCargado' /\ EnSuInstruccion'
  BY <1>1, <1>2, <1>5, <1>6 DEF PcCargado, Dentro, EnSuInstruccion, EsLaDe
<1>8. \E m : cm' = Append(cm, m) /\ PcGuardado(m) = contexto["PC"] /\ HiloDe(m.buffer) = hilo
  <2>1. contexto \in [Nombres -> Word] /\ "DESALOJO_INSTRUCCION_CM" \in OpsGuardar
    BY DEF CpuInv, Tipos, TiposCpu, OpsGuardar
  <2> QED
    BY <1>1, <1>3, <2>1, PcDelGuardado
<1> QED
  BY <1>2, <1>4, <1>5, <1>7, <1>8, PcPaso

LEMMA RetornarPc == CpuInv /\ CpuInv' /\ PcInv /\ ProgramasQueTerminan /\ Retornar => PcInv'
<1> SUFFICES ASSUME CpuInv, CpuInv', PcInv, ProgramasQueTerminan, Retornar PROVE PcInv'
  OBVIOUS
<1>1. /\ fase = "retorno" /\ fase' = "chequea" /\ Quieto /\ cm' = cm /\ Wait("retorno")
      /\ contexto' = IF instr.op = "PROCESS_EXIT" /\ ~syscallBloquea THEN MasPC(1) ELSE contexto
  BY DEF Retornar
<1>2. UNCHANGED <<hilo, terminados, ctx, cruce>>
  BY <1>1, QuietoDeja
<1>3. sem["retorno"] = 1 /\ hilo \in Hilos /\ contexto \in [Nombres -> Word] /\ "PC" \in Nombres
  BY <1>1 DEF Wait, CpuInv, Tipos, TiposCpu, Canales, Nombres
<1>4. instr.op = "THREAD_EXIT" => hilo \in terminados
  <2>1. ~syscallBloquea => instr.op # "THREAD_EXIT"
    BY <1>3 DEF PcInv, Respondido, Seguira
  <2> QED
    BY <1>1, <2>1 DEF PcInv, Respondido, Despedido
<1>5. Salientes \subseteq Salientes'
  BY <1>1, <1>2, <1>4 DEF Salientes
<1>6. Respondido' /\ EnSuInstruccion' /\ PcTraido'
  BY <1>1, RespondidoFuera, SinInstruccion DEF PcTraido
<1>7. ASSUME ~cruce
      PROVE  contexto'["PC"] < Len(Programa[hilo]) \/ hilo \in Salientes'
  <2>1. CASE instr.op = "PROCESS_EXIT" /\ ~syscallBloquea
    <3>1. hilo[2] # 0
      BY <1>3, <2>1 DEF PcInv, Respondido, Seguira
    <3>2. EsLaDe(hilo, instr, contexto["PC"])
      BY <1>1, <1>7, <2>1 DEF PcInv, EnSuInstruccion
    <3>3. contexto["PC"] \in Word /\ MasPC(1)["PC"] = (contexto["PC"] + 1) % Palabra
      BY <1>3 DEF MasPC
    <3> QED
      BY <1>1, <1>3, <2>1, <3>1, <3>2, <3>3, EnElPrograma
  <2>2. CASE ~(instr.op = "PROCESS_EXIT" /\ ~syscallBloquea)
    <3>1. Dentro(hilo, contexto["PC"])
      BY <1>1, <1>7 DEF PcInv, ContadoresDentro, PcCargado, Corriendo
    <3> QED
      BY <1>1, <1>5, <2>2, <3>1 DEF Dentro
  <2> QED
    BY <2>1, <2>2
<1>8. ~cruce => PcCargado'
  BY <1>2, <1>7 DEF PcCargado, Dentro
<1> QED
  BY <1>1, <1>2, <1>5, <1>6, <1>8, PcPaso

LEMMA CheckInterruptPc == CpuInv /\ CpuInv' /\ PcInv /\ CheckInterrupt => PcInv'
<1> SUFFICES ASSUME CpuInv, CpuInv', PcInv, CheckInterrupt PROVE PcInv'
  OBVIOUS
<1>1. /\ fase = "chequea" /\ UNCHANGED <<hilo, contexto, terminados, ctx, cruce, mc, instr, sem>>
      /\ (fase' = "desaloja" /\ cm' = cm) \/ Fetch
  BY DEF CheckInterrupt, kernVars, memVars
<1>2. hilo \in Hilos /\ Corriendo
  BY <1>1 DEF CpuInv, Tipos, TiposCpu, Corriendo
<1>3. CASE Fetch
  <2>1. ~Contestada /\ SinPosts'
    BY <1>1, NadaEnCamino DEF CpuInv, Tipos, Callada, SinPosts
  <2> QED
    BY <1>1, <1>2, <1>3, <2>1, PcAlBuscar
<1>4. CASE fase' = "desaloja" /\ cm' = cm
  <2>1. ~cruce => contexto'["PC"] < Len(Programa[hilo]) \/ hilo \in Salientes
    BY <1>1, <1>2 DEF PcInv, ContadoresDentro, PcCargado, Dentro
  <2> QED
    BY <1>1, <1>4, <2>1, PcEnCpu
<1> QED
  BY <1>1, <1>3, <1>4

\* The end of a thread's turn: its context leaves as it was.
LEMMA PcAlGuardar ==
  ASSUME CpuInv, CpuInv', PcInv, UNCHANGED <<hilo, contexto, terminados, ctx, cruce>>, fase = "desaloja",
         NEW o \in OpsGuardar, Guardar(o, contexto), fase' \in {"borra", "error"}
  PROVE  PcInv'
<1>1. hilo \in Hilos /\ contexto \in [Nombres -> Word] /\ Corriendo
  BY DEF CpuInv, Tipos, TiposCpu, Corriendo
<1>2. Respondido' /\ EnSuInstruccion' /\ PcTraido' /\ Salientes \subseteq Salientes'
  BY RespondidoFuera, SinInstruccion, SalientesSiguen DEF PcTraido
<1>3. ~cruce => contexto["PC"] < Len(Programa[hilo]) \/ hilo \in Salientes'
  BY <1>1, <1>2 DEF PcInv, ContadoresDentro, PcCargado, Dentro
<1>4. ~cruce => PcCargado'
  BY <1>3 DEF PcCargado, Dentro
<1>5. \E m : cm' = Append(cm, m) /\ PcGuardado(m) = contexto["PC"] /\ HiloDe(m.buffer) = hilo
  BY <1>1, PcDelGuardado
<1> QED
  BY <1>2, <1>3, <1>4, <1>5, PcPaso

LEMMA DesalojarPc ==
  CpuInv /\ CpuInv' /\ PcInv /\ (DesalojarPorQuantum \/ DesalojarPorSyscall \/ DesalojarPorError) => PcInv'
<1> SUFFICES ASSUME CpuInv, CpuInv', PcInv, DesalojarPorQuantum \/ DesalojarPorSyscall \/ DesalojarPorError
             PROVE  PcInv'
  OBVIOUS
<1>1. /\ fase = "desaloja" /\ UNCHANGED <<hilo, contexto, terminados, ctx, cruce>>
  BY QuietoDeja DEF DesalojarPorQuantum, DesalojarPorSyscall, DesalojarPorError, Desaloja, kernVars, memVars
<1>2. \/ \E o \in OpsGuardar : Guardar(o, contexto) /\ fase' \in {"borra", "error"}
      \/ cm' = cm /\ fase' \in {"borra", "caida"}
  BY DEF DesalojarPorQuantum, DesalojarPorSyscall, DesalojarPorError, EnviosDesalojo, OpsGuardar
<1>3. ~cruce => contexto'["PC"] < Len(Programa[hilo]) \/ hilo \in Salientes
  BY <1>1 DEF PcInv, ContadoresDentro, PcCargado, Dentro, Corriendo
<1> QED
  BY <1>1, <1>2, <1>3, PcAlGuardar, PcEnCpu

\* No context is loaded.
LEMMA PcSinContexto ==
  ASSUME CpuInv, CpuInv', PcInv, UNCHANGED <<terminados, ctx, cruce>>, fase # "retorno",
         fase' \in {"libre", "nace"} \/ (fase' = "contexto" /\ cm' # <<>>),
         cm' = cm \/ \E m : cm' = Append(cm, m) /\ m.op \notin OpsGuardar
  PROVE  PcInv'
<1>1. Respondido' /\ EnSuInstruccion' /\ Salientes \subseteq Salientes'
  BY RespondidoFuera, SinInstruccion, SalientesSiguen
<1>2. PcTraido' /\ PcCargado'
  <2>1. sem'["contexto"] # 1
    <3>1. "contexto" \in Semaforos
      BY DEF Semaforos
    <3> QED
      BY <3>1 DEF CpuInv, Conversa, EsperaPor
  <2>2. fase' = "contexto" => ~Contestada'
    BY DEF CpuInv, Conversa
  <2> QED
    BY <2>1, <2>2 DEF PcTraido, PcCargado, Corriendo
<1> QED
  BY <1>1, <1>2, PcPaso

LEMMA EntreHilosPc ==
  CpuInv /\ CpuInv' /\ PcInv /\ (DeleteContexto \/ Recibir \/ PedirContexto) => PcInv'
<1> SUFFICES ASSUME CpuInv, CpuInv', PcInv, DeleteContexto \/ Recibir \/ PedirContexto PROVE PcInv'
  OBVIOUS
<1>1. CASE DeleteContexto \/ Recibir
  <2>1. UNCHANGED <<terminados, ctx, cruce, cm>> /\ fase # "retorno" /\ fase' \in {"libre", "nace"}
    BY <1>1 DEF DeleteContexto, Recibir, kernVars, memVars
  <2> QED
    BY <2>1, PcSinContexto
<1>2. CASE PedirContexto
  <2>1. UNCHANGED <<terminados, ctx, cruce>> /\ fase = "nace" /\ fase' = "contexto"
    BY <1>2 DEF PedirContexto, kernVars, memVars
  <2>2. PICK m : cm' = Append(cm, m) /\ m.op = "PEDIDO_CONTEXTO_CM"
    BY <1>2 DEF PedirContexto, APedir, Mensaje
  <2>3. m.op \notin OpsGuardar
    BY <2>2 DEF OpsGuardar
  <2>4. cm' # <<>>
    <3>1. cm \in Seq(Pedidos)
      BY DEF CpuInv, Tipos, Canales
    <3> QED
      BY <2>2, <3>1
  <2> QED
    BY <2>1, <2>2, <2>3, <2>4, PcSinContexto
<1> QED
  BY <1>1, <1>2

LEMMA CicloPc == CpuInv /\ CpuInv' /\ PcInv /\ ProgramasQueTerminan /\ Ciclo => PcInv'
BY ContextoListoPc, EjecutarSetPc, EjecutarSumaPc, EjecutarJnzPc, EjecutarLogPc, EjecutarReadMemPc,
   EjecutarWriteMemPc, LecturaListaPc, EscrituraListaPc, EjecutarSyscallPc, EjecutarProcessExitPc,
   RetornarPc, CheckInterruptPc, DesalojarPc, EntreHilosPc DEF Ciclo

-----------------------------------------------------------------------------
(* The program counters: the other actors *)

LEMMA RespondidoQuieto ==
  ASSUME Respondido, UNCHANGED <<intKC, syscallBloquea, fase, instr, hilo>>,
         sem'["retorno"] = sem["retorno"], terminados \subseteq terminados'
  PROVE  Respondido'
BY DEF Respondido, Seguira, Despedido, EnIntKC

\* The CPU has nothing new.
LEMMA PcQuieto ==
  ASSUME PcInv, Respondido', terminados \subseteq terminados', cruce => cruce',
         UNCHANGED <<fase, hilo, contexto, instr, ctx, cm>>,
         sem'["fetch"] = 1 => sem["fetch"] = 1, sem'["contexto"] = 1 => sem["contexto"] = 1,
         Contestada' => Contestada /\ Ultimo(mc)' = Ultimo(mc)
  PROVE  PcInv'
<1> SUFFICES ASSUME ~cruce' PROVE ContadoresDentro' /\ EnSuInstruccion'
  BY DEF PcInv
<1>1. ContadoresDentro /\ EnSuInstruccion /\ Salientes \subseteq Salientes'
  BY DEF PcInv, Salientes
<1>2. CtxDentro' /\ CmDentro'
  BY <1>1 DEF ContadoresDentro, CtxDentro, CmDentro, Dentro, PcGuardado
<1>3. PcCargado' /\ PcTraido'
  BY <1>1 DEF ContadoresDentro, PcCargado, PcTraido, Dentro, Corriendo
<1>4. EnSuInstruccion'
  BY <1>1 DEF EnSuInstruccion, Pregunta, Pide, Ultimo
<1> QED
  BY <1>2, <1>3, <1>4 DEF ContadoresDentro

LEMMA RecvContextoPc == CpuInv /\ CpuInv' /\ PcInv /\ RecvContexto => PcInv'
<1> SUFFICES ASSUME CpuInv, CpuInv', PcInv, RecvContexto PROVE PcInv'
  OBVIOUS
<1>1. /\ Llega("RESPUESTA_CONTEXTO_CM") /\ Post("contexto") /\ QuedaCpu
      /\ contexto' = [r \in Nombres |-> Campo(Head(mc).buffer, Lugar(r))]
  BY DEF RecvContexto, Lugar
<1>2. /\ "RESPUESTA_CONTEXTO_CM" \in OpsDato /\ "contexto" \in Semaforos
      /\ EsperaPor("RESPUESTA_CONTEXTO_CM") => EsperaPor("contexto")
      /\ EsperaPor("RESPUESTA_CONTEXTO_CM") => fase = "contexto"
  BY DEF OpsDato, Semaforos, EsperaPor
<1>3. ~Contestada' /\ Contestada /\ Ultimo(mc) = Head(mc) /\ fase = "contexto" /\ fase' = fase
  BY <1>1, <1>2, AlRecibir
<1>4. UNCHANGED <<hilo, terminados, ctx, cruce, cm>>
  BY <1>1, QuedaCpuDeja
<1>5. Respondido' /\ EnSuInstruccion' /\ Salientes \subseteq Salientes' /\ PcTraido'
  BY <1>3, <1>4, RespondidoFuera, SinInstruccion, SalientesSiguen DEF PcTraido
<1>6. ~cruce => PcCargado'
  <2>1. contexto'["PC"] = Campo(Ultimo(mc).buffer, Lugar("PC"))
    BY <1>1, <1>3 DEF Nombres
  <2> QED
    BY <1>3, <1>4, <1>5, <2>1 DEF PcInv, ContadoresDentro, PcTraido, PcCargado, Dentro
<1> QED
  BY <1>4, <1>5, <1>6, PcPaso

LEMMA RecvInstructionPc == CpuInv /\ CpuInv' /\ PcInv /\ RecvInstruction => PcInv'
<1> SUFFICES ASSUME CpuInv, CpuInv', PcInv, RecvInstruction PROVE PcInv'
  OBVIOUS
<1>1. /\ Llega("RESPUESTA_INSTRUCCION") /\ Post("fetch") /\ QuedaCpu
      /\ instr' = Campo(Head(mc).buffer, 1) /\ contexto' = contexto
  BY DEF RecvInstruction
<1>2. /\ "RESPUESTA_INSTRUCCION" \in OpsDato /\ "fetch" \in Semaforos
      /\ EsperaPor("RESPUESTA_INSTRUCCION") => EsperaPor("fetch")
      /\ EsperaPor("RESPUESTA_INSTRUCCION") => fase = "fetch"
  BY DEF OpsDato, Semaforos, EsperaPor
<1>3. ~Contestada' /\ ~Pregunta' /\ Contestada /\ Ultimo(mc) = Head(mc) /\ fase = "fetch" /\ fase' = fase
  BY <1>1, <1>2, AlRecibir
<1>4. UNCHANGED <<hilo, terminados, ctx, cruce, cm>>
  BY <1>1, QuedaCpuDeja
<1>5. Respondido' /\ Salientes \subseteq Salientes' /\ PcTraido'
  BY <1>3, <1>4, RespondidoFuera, SalientesSiguen DEF PcTraido
<1>6. ~cruce => PcCargado'
  BY <1>1, <1>3, <1>4, <1>5 DEF PcInv, ContadoresDentro, PcCargado, Dentro, Corriendo
<1>7. ~cruce => EnSuInstruccion'
  BY <1>1, <1>3, <1>4 DEF PcInv, EnSuInstruccion, EsLaDe
<1> QED
  BY <1>4, <1>5, <1>6, <1>7, PcPaso

LEMMA RespuestasPc == CpuInv /\ CpuInv' /\ PcInv /\ Respuestas => PcInv'
<1> SUFFICES ASSUME CpuInv, CpuInv', PcInv, Respuestas PROVE PcInv'
  OBVIOUS
<1>1. CASE RecvLectura \/ RecvEscritura
  <2>1. PICK o \in {"RTA_PEDIDO_LECTURA_CM", "RTA_PEDIDO_ESCRITURA_CM"} :
          /\ Llega(o) /\ QuedaCpu /\ UNCHANGED <<contexto, instr>>
          /\ Post(IF o = "RTA_PEDIDO_LECTURA_CM" THEN "lectura" ELSE "escritura")
    BY <1>1 DEF RecvLectura, RecvEscritura
  <2>2. PICK s \in {"lectura", "escritura"} : Post(s) /\ (EsperaPor(o) => EsperaPor(s))
    BY <2>1 DEF EsperaPor
  <2>3. o \in OpsDato /\ s \in Semaforos
    BY DEF OpsDato, Semaforos
  <2>4. ~Contestada' /\ fase' = fase /\ sem'["retorno"] = sem["retorno"]
    BY <2>1, <2>2, <2>3, AlRecibir
  <2>5. sem'["fetch"] = sem["fetch"] /\ sem'["contexto"] = sem["contexto"]
    BY <2>2 DEF Post, CpuInv, Tipos, Canales, Semaforos
  <2>6. UNCHANGED <<hilo, terminados, ctx, cruce, cm, intKC, syscallBloquea>>
    BY <2>1, QuedaCpuDeja
  <2>7. Respondido'
    BY <2>1, <2>4, <2>6, RespondidoQuieto DEF PcInv
  <2> QED
    BY <2>1, <2>4, <2>5, <2>6, <2>7, PcQuieto
<1>2. CASE RecvActualizado
  <2>1. Llega("RTA_ACTUALIZAR_CONTEXTO_CM") /\ QuedaCpu /\ UNCHANGED <<contexto, instr, sem>>
    BY <1>2 DEF RecvActualizado
  <2>2. UNCHANGED <<fase, hilo, terminados, ctx, cruce, cm, intKC, syscallBloquea>>
    BY <2>1, QuedaCpuDeja
  <2>3. (Contestada' <=> Contestada) /\ (Contestada' => Ultimo(mc)' = Ultimo(mc))
    BY <2>1, <2>2, ConversaAlEnterarse DEF CpuInv, Tipos, Llega, OpsAviso
  <2>4. Respondido'
    BY <2>1, <2>2, RespondidoQuieto DEF PcInv
  <2> QED
    BY <2>1, <2>2, <2>3, <2>4, PcQuieto
<1> QED
  BY <1>1, <1>2, RecvContextoPc, RecvInstructionPc DEF Respuestas

LEMMA AvisosPc == CpuInv /\ PcInv /\ Avisos => PcInv'
<1> SUFFICES ASSUME CpuInv, PcInv, Avisos PROVE PcInv'
  OBVIOUS
<1>1. UNCHANGED <<fase, hilo, contexto, instr, cm, mc, terminados, ctx, cruce>>
  BY QuedaIntDeja DEF Avisos, AtenderRespuesta, InterrupcionMira, InterrupcionMarca
<1>2. sem'["fetch"] = sem["fetch"] /\ sem'["contexto"] = sem["contexto"]
  BY DEF Avisos, AtenderRespuesta, InterrupcionMira, InterrupcionMarca, Post, CpuInv, Tipos, Canales, Semaforos
<1>3. ASSUME Seguira' => Seguira, (syscallBloquea' \/ EnIntKC(Respuesta(0))') => Despedido
      PROVE  Respondido'
  BY <1>1, <1>3 DEF PcInv, Respondido, Despedido
<1>4. ASSUME AtenderRespuesta
      PROVE  Respondido'
  <2>1. /\ intKC # <<>> /\ intKC' = Tail(intKC) /\ EsFin(Head(intKC)) /\ Post("retorno")
        /\ syscallBloquea' = (Campo(Head(intKC).buffer, 1) = 0)
    BY <1>4 DEF AtenderRespuesta, LlegaInt, EsFin
  <2>2. intKC \in Seq(DeHilo("DESALOJO_POR_QUANTUM") \cup Finales)
    BY DEF CpuInv, Tipos, TiposKernel
  <2>3. PICK v \in {0, 1} : Head(intKC) = Respuesta(v)
    <3>1. Head(intKC) \in DeHilo("DESALOJO_POR_QUANTUM") \cup Finales
      BY <2>1, <2>2
    <3> QED
      BY <2>1, <3>1 DEF DeHilo, Finales, EsFin, Mensaje, Respuesta
  <2>4. EnIntKC(Respuesta(v))
    BY <2>1, <2>2, <2>3, SacaDelKernel DEF EnIntKC
  <2>5. syscallBloquea' = (v = 0)
    <3>1. PICK w : w = <<v>>
      OBVIOUS
    <3>2. Len(w) = 1 /\ w[1] = v /\ 1 \in 1..Len(w) /\ Len(w) \in Nat
      BY <3>1
    <3>3. Campo(Campos(w), 1) = v
      BY <3>2, CampoDeCampos
    <3> QED
      BY <2>1, <2>3, <3>1, <3>3 DEF Respuesta, Mensaje
  <2>6. ~syscallBloquea
    BY <2>4, EsRespuesta DEF CpuInv, ConversaKernel
  <2>7. \A u : EnIntKC(Respuesta(u))' => EnIntKC(Respuesta(u))
    BY <2>1, SacaDeIntKC
  <2>8. Seguira' => Seguira
    <3>1. ~syscallBloquea' => v = 1
      BY <2>5
    <3> QED
      BY <2>4, <2>7, <3>1 DEF Seguira
  <2>9. syscallBloquea' \/ EnIntKC(Respuesta(0))' => Despedido
    BY <2>4, <2>5, <2>7 DEF Despedido
  <2> QED
    BY <1>3, <2>8, <2>9
<1>5. ASSUME InterrupcionMira \/ InterrupcionMarca
      PROVE  Respondido'
  <2>1. UNCHANGED <<sem, syscallBloquea>> /\ (intKC' = intKC \/ (intKC # <<>> /\ intKC' = Tail(intKC)))
    BY <1>5 DEF InterrupcionMira, InterrupcionMarca, LlegaInt
  <2>2. \A u : EnIntKC(Respuesta(u))' => EnIntKC(Respuesta(u))
    <3>1. CASE intKC' = intKC
      BY <3>1 DEF EnIntKC
    <3>2. CASE intKC # <<>> /\ intKC' = Tail(intKC)
      BY <3>2, SacaDeIntKC
    <3> QED
      BY <2>1, <3>1, <3>2
  <2>3. (Seguira' => Seguira) /\ (syscallBloquea' \/ EnIntKC(Respuesta(0))' => Despedido)
    BY <2>1, <2>2 DEF Seguira, Despedido
  <2> QED
    BY <1>3, <2>3
<1>6. Respondido'
  BY <1>4, <1>5 DEF Avisos
<1>7. Contestada' => Contestada /\ Ultimo(mc)' = Ultimo(mc)
  BY <1>1 DEF Contestada, Pide, Ultimo
<1> QED
  BY <1>1, <1>2, <1>6, <1>7, PcQuieto

\* Until two searches cross, memoria finds the thread of the request.
LEMMA HallaElDelPedido ==
  ASSUME CpuInv, servicio, ~cruce
  PROVE  Hallado = HiloPedido
BY DEF CpuInv, Busqueda, Hallado, HiloPedido, HiloDe

\* A question is the last of the requests, and of the thread that is loaded.
LEMMA ElQuePregunta ==
  ASSUME CpuInv, cm # <<>>, Pedido.op \notin OpsGuardar
  PROVE  /\ Pregunta /\ Ultimo(cm) = Pedido /\ Tail(cm) = <<>>
         /\ EsperaPor(Pedido.op) /\ HiloPedido = hilo /\ hilo \in Hilos /\ ~Contestada
<1>1. cm \in Seq(Pedidos) /\ SoloAlFinal(cm, OpsGuardar) /\ Pedido = Head(cm)
  BY DEF CpuInv, Tipos, Canales, Conversa, Pedido
<1>2. Pregunta /\ Ultimo(cm) = Pedido /\ Tail(cm) = <<>>
  BY <1>1, SacaDelPrincipio DEF Pregunta
<1>3. EsperaPor(Pedido.op) /\ HiloPedido = hilo /\ ~Contestada
  BY <1>2 DEF CpuInv, Conversa, HiloPedido
<1>4. fase # "libre"
  BY <1>3 DEF EsperaPor
<1> QED
  BY <1>2, <1>3, <1>4 DEF CpuInv, Tipos, TiposCpu

LEMMA CmSacado ==
  ASSUME CmDentro, cm \in Seq(Pedidos), cm # <<>>, cm' = Tail(cm), Salientes \subseteq Salientes'
  PROVE  CmDentro'
<1>1. \A i \in 1..Len(cm') : i + 1 \in 1..Len(cm) /\ cm'[i] = cm[i + 1]
  OBVIOUS
<1>2. \A i \in 1..Len(cm') : cm'[i].op \in OpsGuardar =>
        PcGuardado(cm'[i]) < Len(Programa[HiloDe(cm'[i].buffer)]) \/ HiloDe(cm'[i].buffer) \in Salientes'
  BY <1>1 DEF CmDentro, Dentro
<1> QED
  BY <1>2 DEF CmDentro, Dentro

\* memoria takes a request.
LEMMA PcAlContestar ==
  ASSUME CpuInv, PcInv, QuedaMem, Mia, cm' = Tail(cm), cruce' = cruce, ~cruce => CtxDentro',
         NEW r, mc' = Append(mc, r),
         \/ Pedido.op \in OpsGuardar /\ r.op \in OpsAviso
         \/ /\ Pedido.op \notin OpsGuardar
            /\ ~cruce /\ fase = "contexto" => Dentro(hilo, Campo(r.buffer, Lugar("PC")))
            /\ ~cruce /\ fase = "fetch" => EsLaDe(hilo, Campo(r.buffer, 1), contexto["PC"])
  PROVE  PcInv'
<1>1. /\ UNCHANGED <<fase, hilo, contexto, instr, syscallBloquea, sem, intKC, terminados>>
      /\ cm # <<>> /\ cm \in Seq(Pedidos) /\ mc \in Seq(Contestaciones)
  BY QuedaMemDeja DEF Mia, CpuInv, Tipos, Canales
<1>2. Respondido' /\ Salientes' = Salientes
  BY <1>1, RespondidoQuieto DEF PcInv, Salientes
<1>3. Ultimo(mc)' = r
  BY <1>1 DEF Ultimo
<1>4. Pregunta' => Pregunta /\ Ultimo(cm)' = Ultimo(cm)
  <2>1. SoloAlFinal(cm, OpsGuardar) /\ Pedido = Head(cm)
    BY DEF CpuInv, Conversa, Pedido
  <2>2. Pide(Tail(cm), OpsGuardar) => Pide(cm, OpsGuardar) /\ Ultimo(Tail(cm)) = Ultimo(cm)
    BY <1>1, <2>1, SacaDelPrincipio DEF Pide
  <2> QED
    BY <2>2 DEF Pregunta, Ultimo
<1>5. ASSUME ~cruce
      PROVE  ContadoresDentro' /\ EnSuInstruccion'
  <2>1. ContadoresDentro /\ EnSuInstruccion
    BY <1>5 DEF PcInv
  <2>2. CtxDentro' /\ CmDentro'
    BY <1>1, <1>2, <1>5, <2>1, CmSacado DEF ContadoresDentro
  <2>3. PcCargado'
    BY <1>1, <1>2, <2>1 DEF ContadoresDentro, PcCargado, Dentro, Corriendo
  <2>4. Contestada' => Pedido.op \notin OpsGuardar
    BY <1>3 DEF Contestada, Pide, Ultimo
  <2>5. PcTraido'
    BY <1>1, <1>2, <1>3, <1>5, <2>4 DEF PcTraido, Dentro
  <2>6. EnSuInstruccion'
    BY <1>1, <1>3, <1>4, <1>5, <2>1, <2>4 DEF EnSuInstruccion, EsLaDe
  <2> QED
    BY <2>2, <2>3, <2>5, <2>6 DEF ContadoresDentro
<1> QED
  BY <1>2, <1>5 DEF PcInv

LEMMA PedidoContextoPc == CpuInv /\ PcInv /\ PedidoContexto => PcInv'
<1> SUFFICES ASSUME CpuInv, PcInv, PedidoContexto PROVE PcInv'
  OBVIOUS
<1>0. PICK c, p, r :
        /\ c = ctx[Hallado] /\ p = pidBuscado
        /\ r = Mensaje("RESPUESTA_CONTEXTO_CM",
                       Campos(<<c["PC"]>> \o [i \in 1..Len(Generales) |-> c[Generales[i]]]
                                \o <<Base[p], Limite[p]>>))
  OBVIOUS
<1>1. /\ Mia /\ servicio /\ Pedido.op = "PEDIDO_CONTEXTO_CM" /\ Hallado \in vivos
      /\ mc' = Append(mc, r) /\ cm' = Tail(cm) /\ UNCHANGED <<ctx, cruce>> /\ QuedaMem
  BY <1>0 DEF PedidoContexto, Halla, Contesta
<1>2. c \in [Guardables -> Word] /\ p \in Pids
  <2>1. Hallado \in Hilos /\ Hallado[1] = p
    BY <1>0, <1>1 DEF CpuInv, Tipos, TiposMemoria, Hallado
  <2> QED
    BY <1>0, <2>1 DEF CpuInv, Tipos, TiposMemoria, Pids
<1>3. Campo(r.buffer, Lugar("PC")) = c["PC"]
  <2>1. "PC" \in Guardables
    BY DEF Guardables
  <2> QED
    BY <1>0, <1>2, <2>1, ContextoEnviado
<1>4. Pedido.op \notin OpsGuardar /\ cm # <<>>
  BY <1>1 DEF OpsGuardar, Mia
<1>5. fase = "contexto" /\ HiloPedido = hilo /\ hilo \in Hilos
  BY <1>1, <1>4, ElQuePregunta DEF EsperaPor
<1>6. ~cruce => Dentro(hilo, c["PC"])
  BY <1>0, <1>1, <1>5, HallaElDelPedido DEF PcInv, ContadoresDentro, CtxDentro
<1>7. ~cruce => CtxDentro'
  <2>1. Salientes' = Salientes
    BY <1>1, QuedaMemDeja DEF Salientes
  <2> QED
    BY <1>1, <2>1, CtxSigue DEF PcInv, ContadoresDentro
<1> QED
  BY <1>1, <1>3, <1>4, <1>5, <1>6, <1>7, PcAlContestar

LEMMA PedidoInstruccionPc == CpuInv /\ PcInv /\ PedidoInstruccion => PcInv'
<1> SUFFICES ASSUME CpuInv, PcInv, PedidoInstruccion PROVE PcInv'
  OBVIOUS
<1>0. PICK i, w, r : /\ i = Programa[Hallado][PcPedido + 1] /\ w = <<i>>
                     /\ r = Mensaje("RESPUESTA_INSTRUCCION", Campos(w))
  OBVIOUS
<1>1. /\ Mia /\ servicio /\ Pedido.op = "PEDIDO_INSTRUCCION" /\ PcPedido < Len(Programa[Hallado])
      /\ mc' = Append(mc, r) /\ cm' = Tail(cm) /\ UNCHANGED <<ctx, cruce>> /\ QuedaMem
  BY <1>0 DEF PedidoInstruccion, Halla, Contesta
<1>2. Campo(r.buffer, 1) = i
  <2>1. Len(w) = 1 /\ w[1] = i /\ 1 \in 1..Len(w) /\ Len(w) \in Nat
    BY <1>0
  <2>2. Campo(Campos(w), 1) = i
    BY <2>1, CampoDeCampos
  <2> QED
    BY <1>0, <2>2 DEF Mensaje
<1>3. Pedido.op \notin OpsGuardar /\ cm # <<>>
  BY <1>1 DEF OpsGuardar, Mia
<1>4. fase = "fetch" /\ HiloPedido = hilo /\ Pregunta /\ Ultimo(cm) = Pedido
  BY <1>1, <1>3, ElQuePregunta DEF EsperaPor
<1>5. ~cruce => PcPedido = contexto["PC"]
  BY <1>4 DEF PcInv, EnSuInstruccion, PcPedido
<1>6. ~cruce => EsLaDe(hilo, i, contexto["PC"])
  BY <1>0, <1>1, <1>4, <1>5, HallaElDelPedido DEF EsLaDe
<1>7. ~cruce => CtxDentro'
  <2>1. Salientes' = Salientes
    BY <1>1, QuedaMemDeja DEF Salientes
  <2> QED
    BY <1>1, <2>1, CtxSigue DEF PcInv, ContadoresDentro
<1> QED
  BY <1>1, <1>2, <1>3, <1>4, <1>6, <1>7, PcAlContestar

LEMMA LeerYEscribirPc == CpuInv /\ PcInv /\ (ReadFromDir \/ WriteInDir) => PcInv'
<1> SUFFICES ASSUME CpuInv, PcInv, ReadFromDir \/ WriteInDir PROVE PcInv'
  OBVIOUS
<1>1. PICK r : mc' = Append(mc, r)
  BY DEF ReadFromDir, WriteInDir, Contesta
<1>2. /\ Mia /\ Pedido.op \in {"PEDIDO_LECTURA_CM", "PEDIDO_ESCRITURA_CM"}
      /\ cm' = Tail(cm) /\ UNCHANGED <<ctx, cruce>> /\ QuedaMem
  BY DEF ReadFromDir, WriteInDir, Contesta
<1>3. Pedido.op \notin OpsGuardar /\ cm # <<>>
  BY <1>2 DEF OpsGuardar, Mia
<1>4. fase \in {"lee", "escribe"}
  BY <1>2, <1>3, ElQuePregunta DEF EsperaPor
<1>5. ~cruce => CtxDentro'
  <2>1. Salientes' = Salientes
    BY <1>2, QuedaMemDeja DEF Salientes
  <2> QED
    BY <1>2, <2>1, CtxSigue DEF PcInv, ContadoresDentro
<1> QED
  BY <1>1, <1>2, <1>3, <1>4, <1>5, PcAlContestar

LEMMA ActualizarContextoPc == CpuInv /\ PcInv /\ ActualizarContexto => PcInv'
<1> SUFFICES ASSUME CpuInv, PcInv, ActualizarContexto PROVE PcInv'
  OBVIOUS
<1>0. PICK r, b : r = Mensaje("RTA_ACTUALIZAR_CONTEXTO_CM", Campos(<<1>>)) /\ b = Pedido.buffer
  OBVIOUS
<1>1. /\ Mia /\ servicio /\ Pedido.op \in OpsGuardar /\ Hallado \in vivos
      /\ mc' = Append(mc, r) /\ cm' = Tail(cm) /\ cruce' = cruce /\ QuedaMem
      /\ ctx' = [ctx EXCEPT ![Hallado] = [g \in DOMAIN ctx[Hallado] |-> Campo(b, 2 + Lugar(g))]]
  BY <1>0 DEF ActualizarContexto, Halla, Contesta, OpsGuardar, Lugar
<1>2. r.op \in OpsAviso
  BY <1>0 DEF Mensaje, OpsAviso
<1>3. ASSUME ~cruce
      PROVE  CtxDentro'
  <2>1. Hallado = HiloPedido /\ Salientes' = Salientes
    BY <1>1, <1>3, HallaElDelPedido, QuedaMemDeja DEF Salientes
  <2>2. Dentro(HiloPedido, Campo(b, 2 + Lugar("PC")))
    <3>1. cm \in Seq(Pedidos) /\ cm # <<>>
      BY <1>1 DEF CpuInv, Tipos, Canales, Mia
    <3>2. 1 \in 1..Len(cm) /\ cm[1] = Pedido
      BY <3>1 DEF Pedido
    <3>3. Dentro(HiloDe(cm[1].buffer), PcGuardado(cm[1]))
      BY <1>1, <1>3, <3>2 DEF PcInv, ContadoresDentro, CmDentro
    <3> QED
      BY <1>0, <3>2, <3>3 DEF PcGuardado, HiloPedido
  <2>3. /\ ctx \in [Hilos -> [Guardables -> Word]] /\ Hallado \in Hilos /\ "PC" \in Guardables
    BY <1>1 DEF CpuInv, Tipos, TiposMemoria, Guardables
  <2>4. ctx'[Hallado]["PC"] = Campo(b, 2 + Lugar("PC"))
    BY <1>1, <2>3
  <2>5. \A h \in Hilos : h # Hallado => ctx'[h] = ctx[h]
    BY <1>1, <2>3
  <2>6. \A h \in Hilos : ctx'[h]["PC"] < Len(Programa[h]) \/ h \in Salientes
    BY <1>3, <2>1, <2>2, <2>4, <2>5 DEF PcInv, ContadoresDentro, CtxDentro, Dentro
  <2> QED
    BY <2>1, <2>6 DEF CtxDentro, Dentro
<1> QED
  BY <1>1, <1>2, <1>3, PcAlContestar

LEMMA MemoriaPc == CpuInv /\ PcInv /\ (MemoriaCpu \/ MemoriaDump) => PcInv'
<1> SUFFICES ASSUME CpuInv, PcInv, BuscarProceso \/ NoEncontrado \/ MemoriaDump PROVE PcInv'
  BY PedidoContextoPc, ActualizarContextoPc, PedidoInstruccionPc, LeerYEscribirPc DEF MemoriaCpu
<1>1. /\ UNCHANGED <<fase, hilo, contexto, instr, syscallBloquea, sem, cm, mc, intKC, ctx, terminados>>
      /\ cruce => cruce'
  <2>1. ASSUME cruce
        PROVE  cruce'
    <3>1. CASE BuscarProceso
      BY <2>1, <3>1, Zenon DEF BuscarProceso
    <3>2. CASE DumpBusca
      BY <2>1, <3>2, Zenon DEF DumpBusca
    <3>3. CASE NoEncontrado \/ DumpResponde
      BY <2>1, <3>3 DEF NoEncontrado, DumpResponde
    <3> QED
      BY <3>1, <3>2, <3>3 DEF MemoriaDump
  <2>2. CASE BuscarProceso \/ NoEncontrado
    <3>1. QuedaMem /\ UNCHANGED <<cm, mc, ctx>>
      BY <2>2 DEF BuscarProceso, NoEncontrado
    <3> QED
      BY <2>1, <3>1, QuedaMemDeja
  <2>3. CASE MemoriaDump
    <3>1. QuedaDump
      BY <2>3 DEF MemoriaDump, DumpBusca, DumpResponde
    <3> QED
      BY <2>1, <3>1 DEF QuedaDump, cpuVars
  <2> QED
    BY <2>2, <2>3
<1>2. Respondido'
  BY <1>1, RespondidoQuieto DEF PcInv
<1>3. Contestada' => Contestada /\ Ultimo(mc)' = Ultimo(mc)
  BY <1>1 DEF Contestada, Pide, Ultimo
<1> QED
  BY <1>1, <1>2, <1>3, PcQuieto

LEMMA PcDelKernel ==
  ASSUME PcInv, QuedaKernel, Respondido', terminados \subseteq terminados'
  PROVE  PcInv'
<1>1. /\ UNCHANGED <<fase, hilo, contexto, instr, ctx, cm, mc, sem>>
      /\ cruce => cruce'
  BY QuedaKernelDeja
<1>2. Contestada' => Contestada /\ Ultimo(mc)' = Ultimo(mc)
  BY <1>1 DEF Contestada, Pide, Ultimo
<1> QED
  BY <1>1, <1>2, PcQuieto

\* What the kernel answers to whom.
LEMMA AlDarRespuesta ==
  ASSUME CpuInv, NEW o \in Syscalls, NEW h, RecibeDe(o, h), QuedaKernel, NEW v \in {0, 1}, Contestar(v),
         v = 1 => o = "MUTEX_LOCK" \/ (o = "PROCESS_EXIT" /\ h[2] # 0),
         o = "THREAD_EXIT" => h \in terminados'
  PROVE  Respondido'
<1>1. h = hilo /\ ~HayFin /\ sem["retorno"] = 0 /\ instr.op = o
  <2>1. o # "ERROR"
    BY DEF Syscalls
  <2> QED
    BY <2>1, AlAtender
<1>2. UNCHANGED <<fase, hilo, instr, sem>>
  BY QuedaKernelDeja
<1>3. EnIntKC(Respuesta(1))' => v = 1
  <2>1. ~EnIntKC(Respuesta(1))
    BY <1>1, EsRespuesta
  <2>2. Respuesta(v) = Respuesta(1) => v = 1
    <3>1. PICK a, b : a = <<v>> /\ b = <<1>>
      OBVIOUS
    <3>2. /\ Len(a) = 1 /\ Len(b) = 1 /\ a[1] = v /\ b[1] = 1 /\ 1 \in 1..Len(a) /\ 1 \in 1..Len(b)
          /\ Len(a) \in Nat /\ Len(b) \in Nat
      BY <3>1
    <3>3. Campo(Campos(a), 1) = v /\ Campo(Campos(b), 1) = 1
      BY <3>2, CampoDeCampos
    <3>4. Respuesta(v).buffer = Campos(a) /\ Respuesta(1).buffer = Campos(b)
      BY <3>1 DEF Respuesta, Mensaje
    <3> QED
      BY <3>3, <3>4
  <2>3. EnIntKC(Respuesta(1))' => Respuesta(v) = Respuesta(1)
    BY <2>1, AgregaEnIntKC DEF Contestar, Respuesta
  <2> QED
    BY <2>2, <2>3
<1>4. Seguira' => v = 1
  BY <1>1, <1>2, <1>3 DEF Seguira
<1> QED
  BY <1>1, <1>2, <1>4 DEF Respondido

LEMMA KernelRespondePc ==
  ASSUME CpuInv, PcInv, NEW h \in Hilos,
         \/ KernelSigue(h) \/ KernelBloquea(h) \/ KernelDump(h) \/ KernelThreadExit(h) \/ KernelProcessExit(h)
  PROVE  PcInv'
<1>1. Syscalls = {"MUTEX_LOCK", "DUMP_MEMORY", "THREAD_EXIT", "PROCESS_EXIT"}
  BY DEF Syscalls
<1>2. QuedaKernel /\ terminados \subseteq terminados'
  BY DEF KernelSigue, KernelBloquea, KernelDump, KernelThreadExit, KernelProcessExit, kernVars, Terminar
<1>3. PICK o \in Syscalls, v \in {0, 1} :
        /\ RecibeDe(o, h) /\ Contestar(v)
        /\ v = 1 => o = "MUTEX_LOCK" \/ (o = "PROCESS_EXIT" /\ h[2] # 0)
        /\ o = "THREAD_EXIT" => h \in terminados'
  <2>1. CASE KernelSigue(h)
    BY <1>1, <2>1 DEF KernelSigue
  <2>2. CASE KernelBloquea(h)
    BY <1>1, <2>2 DEF KernelBloquea
  <2>3. CASE KernelDump(h)
    BY <1>1, <2>3 DEF KernelDump
  <2>4. CASE KernelThreadExit(h)
    BY <1>1, <2>4 DEF KernelThreadExit, Terminar
  <2>5. CASE KernelProcessExit(h)
    BY <1>1, <2>5 DEF KernelProcessExit
  <2> QED
    BY <2>1, <2>2, <2>3, <2>4, <2>5
<1>4. Respondido'
  BY <1>2, <1>3, AlDarRespuesta
<1> QED
  BY <1>2, <1>4, PcDelKernel

LEMMA KernelErrorPc ==
  ASSUME CpuInv, CpuInv', PcInv, NEW h \in Hilos, KernelError(h)
  PROVE  PcInv'
<1>1. QuedaKernel /\ terminados \subseteq terminados' /\ RecibeDe("ERROR", h)
  BY DEF KernelError, Terminar
<1>2. fase' # "retorno"
  <2>1. fase = "error"
    BY <1>1, AlAtender
  <2> QED
    BY <1>1, <2>1, QuedaKernelDeja
<1> QED
  BY <1>1, <1>2, RespondidoFuera, PcDelKernel

\* The kernel answers nothing.
LEMMA KernelCallaPc ==
  ASSUME CpuInv, PcInv, QuedaKernel, terminados' = terminados,
         intKC' = intKC \/ \E m : intKC' = Append(intKC, m) /\ ~EsFin(m)
  PROVE  PcInv'
<1>1. UNCHANGED <<fase, hilo, instr, sem, syscallBloquea>>
  BY QuedaKernelDeja
<1>2. \A v : EnIntKC(Respuesta(v))' => EnIntKC(Respuesta(v))
  <2>1. CASE intKC' = intKC
    BY <2>1 DEF EnIntKC
  <2>2. ASSUME NEW m, intKC' = Append(intKC, m), ~EsFin(m), NEW v, EnIntKC(Respuesta(v))'
        PROVE  EnIntKC(Respuesta(v))
    <3>1. m # Respuesta(v)
      BY <2>2 DEF EsFin, Respuesta, Mensaje
    <3> QED
      BY <2>2, <3>1, AgregaEnIntKC
  <2> QED
    BY <2>1, <2>2
<1>3. Seguira' => Seguira
  BY <1>1, <1>2 DEF Seguira
<1>4. fase = "retorno" /\ Despedido' => Despedido
  BY <1>1, <1>2 DEF Despedido
<1>5. Respondido'
  BY <1>1, <1>3, <1>4 DEF PcInv, Respondido
<1> QED
  BY <1>5, PcDelKernel

LEMMA KernelPc ==
  ASSUME CpuInv, CpuInv', PcInv,
         \/ KernelInterrumpe \/ KernelAtiende \/ KernelQuantum
         \/ \E h \in Hilos : KernelDespacha(h) \/ KernelDesbloquea(h)
  PROVE  PcInv'
<1>1. ASSUME KernelSinBuffer \/ KernelQuantum \/ \E h \in Hilos : KernelDespacha(h) \/ KernelDesbloquea(h)
      PROVE  PcInv'
  <2>1. QuedaKernel /\ UNCHANGED <<terminados, intKC>>
    BY <1>1 DEF KernelSinBuffer, KernelQuantum, KernelDespacha, KernelDesbloquea, kernVars
  <2> QED
    BY <2>1, KernelCallaPc
<1>2. CASE KernelInterrumpe
  <2>1. PICK m : intKC' = Append(intKC, m) /\ m.op = "DESALOJO_POR_QUANTUM" /\ QuedaKernel /\ terminados' = terminados
    BY <1>2 DEF KernelInterrumpe, Mensaje, kernVars
  <2>2. ~EsFin(m)
    BY <2>1 DEF EsFin
  <2> QED
    BY <2>1, <2>2, KernelCallaPc
<1>3. CASE KernelAtiende
  BY <1>1, <1>3, KernelRespondePc, KernelErrorPc DEF KernelAtiende
<1> QED
  BY <1>1, <1>2, <1>3

LEMMA NextPc == CpuInv /\ PcInv /\ ProgramasQueTerminan /\ [Next]_vars => PcInv'
<1> SUFFICES ASSUME CpuInv, PcInv, ProgramasQueTerminan, [Next]_vars PROVE PcInv'
  OBVIOUS
<1>1. CpuInv'
  BY NextTipos
<1>2. CASE UNCHANGED vars
  <2>1. UNCHANGED <<fase, hilo, contexto, instr, syscallBloquea, sem, cm, mc, intKC, ctx, terminados, cruce>>
    BY <1>2 DEF vars, cpuVars, kernVars, memVars
  <2>2. Respondido'
    BY <2>1, RespondidoQuieto DEF PcInv
  <2>3. Contestada' => Contestada /\ Ultimo(mc)' = Ultimo(mc)
    BY <2>1 DEF Contestada, Pide, Ultimo
  <2> QED
    BY <2>1, <2>2, <2>3, PcQuieto
<1> QED
  BY <1>1, <1>2, CicloPc, RespuestasPc, AvisosPc, MemoriaPc, KernelPc DEF Next

LEMMA PcInvInicial == ProgramasQueTerminan /\ Init => PcInv
<1> SUFFICES ASSUME ProgramasQueTerminan, Init PROVE PcInv
  OBVIOUS
<1>1. /\ fase = "libre" /\ cm = <<>> /\ mc = <<>> /\ intKC = <<>> /\ ~syscallBloquea
      /\ ctx = [h \in Hilos |-> [r \in Guardables |-> 0]]
      /\ sem = [s \in {"contexto", "fetch", "lectura", "escritura", "retorno"} |-> 0]
  BY DEF Init, Guardables
<1>2. sem["retorno"] = 0 /\ sem["fetch"] = 0 /\ sem["contexto"] = 0
  BY <1>1
<1>3. Respondido
  BY <1>1, <1>2 DEF Respondido, Seguira, EnIntKC
<1>4. CtxDentro
  <2>1. \A h \in Hilos : ctx[h]["PC"] = 0 /\ 0 < Len(Programa[h])
    <3>1. "PC" \in Guardables
      BY DEF Guardables
    <3>2. \A h \in Hilos : Len(Programa[h]) \in 1..(Palabra - 1)
      BY DEF ProgramasQueTerminan
    <3>3. Palabra \in Nat
      BY PesoPositivo
    <3> QED
      BY <1>1, <3>1, <3>2, <3>3
  <2> QED
    BY <2>1 DEF CtxDentro, Dentro
<1>5. CmDentro /\ PcCargado /\ PcTraido
  BY <1>1, <1>2 DEF CmDentro, PcCargado, PcTraido, Corriendo
<1>6. EnSuInstruccion
  BY <1>1, <1>2 DEF EnSuInstruccion
<1> QED
  BY <1>3, <1>4, <1>5, <1>6 DEF PcInv, ContadoresDentro

-----------------------------------------------------------------------------
(* The end of memoria *)

\* Programs that end within themselves write no register of their partition.
LEMMA LosQueTerminan == ProgramasQueTerminan => RespetanLaParticion
BY DEF ProgramasQueTerminan, RespetanLaParticion

CicloInv == CpuInv /\ ExecInv /\ PcInv

\* The thread that waits for its context or for an instruction has not ended.
LEMMA ElQuePreguntaVive ==
  ASSUME CpuInv, ExecInv, cm # <<>>, Pedido.op \in {"PEDIDO_CONTEXTO_CM", "PEDIDO_INSTRUCCION"}
  PROVE  /\ HiloPedido = hilo /\ HiloPedido \in vivos \ terminados /\ Pregunta /\ Ultimo(cm) = Pedido
         /\ fase = IF Pedido.op = "PEDIDO_CONTEXTO_CM" THEN "contexto" ELSE "fetch"
<1>1. Pedido.op \notin OpsGuardar
  BY DEF OpsGuardar
<1>2. /\ HiloPedido = hilo /\ hilo \in Hilos /\ Pregunta /\ Ultimo(cm) = Pedido
      /\ fase = IF Pedido.op = "PEDIDO_CONTEXTO_CM" THEN "contexto" ELSE "fetch"
  BY <1>1, ElQuePregunta DEF EsperaPor
<1>3. ~Despedido
  <2>1. ~syscallBloquea /\ ~HayFin
    BY <1>2 DEF CpuInv, ConversaKernel
  <2> QED
    BY <1>2, <2>1, EsRespuesta DEF Despedido
<1>4. hilo \notin terminados
  BY <1>2, <1>3, SigueEnExec
<1> QED
  BY <1>2, <1>4 DEF ExecInv, Repartidos

\* What memoria does not find is a context that arrives after its thread has ended.
LEMMA NoEncuentra ==
  ASSUME CpuInv, ExecInv, PcInv, NoEncontrado, ~cruce
  PROVE  /\ cm # <<>> /\ HiloPedido \in terminados
         /\ Pedido.op \in {"DESALOJO_INSTRUCCION_CM", "DESALOJO_ERROR_CM"}
<1>1. /\ Mia /\ servicio /\ cm # <<>>
      /\ Hallado \in vivos => Pedido.op = "PEDIDO_INSTRUCCION" /\ PcPedido >= Len(Programa[Hallado])
  BY DEF NoEncontrado, Mia
<1>2. /\ Hallado = HiloPedido /\ HiloPedido \in Hilos /\ Busca
      /\ cm \in Seq(Pedidos) /\ Pedido \in Pedidos /\ Pedido = cm[1] /\ 1 \in 1..Len(cm)
  BY <1>1, HallaElDelPedido, LoQuePiden DEF CpuInv, Busqueda, Tipos, Canales, Pedido
<1>3. Pedido.op \notin {"PEDIDO_CONTEXTO_CM", "PEDIDO_INSTRUCCION"}
  <2>1. SUFFICES ASSUME Pedido.op \in {"PEDIDO_CONTEXTO_CM", "PEDIDO_INSTRUCCION"} PROVE FALSE
    OBVIOUS
  <2>2. HiloPedido = hilo /\ HiloPedido \in vivos \ terminados /\ Pregunta /\ Ultimo(cm) = Pedido
    BY <1>1, <2>1, ElQuePreguntaVive
  <2>3. fase = "fetch" /\ PcPedido >= Len(Programa[hilo])
    BY <1>1, <1>2, <2>1, <2>2, ElQuePreguntaVive
  <2>4. PcPedido = contexto["PC"]
    BY <2>2, <2>3 DEF PcInv, EnSuInstruccion, PcPedido
  <2>5. contexto["PC"] < Len(Programa[hilo])
    <3>1. Dentro(hilo, contexto["PC"])
      BY <2>3 DEF PcInv, ContadoresDentro, PcCargado, Corriendo
    <3>2. hilo \notin Salientes
      BY <2>2, <2>3 DEF Salientes
    <3> QED
      BY <3>1, <3>2 DEF Dentro
  <2>6. PcPedido \in Nat /\ Len(Programa[hilo]) \in Nat
    <3>1. PcPedido \in Word /\ hilo \in Hilos
      BY <1>2, <2>2, <2>3, <2>4 DEF CpuInv, Tipos, TiposCpu, Nombres
    <3> QED
      BY <3>1, CeroYUno DEF CpuInv, ProgramasTipados
  <2> QED
    BY <2>3, <2>4, <2>5, <2>6
<1>4. Pedido.op \in OpsGuardar /\ Hallado \notin vivos
  BY <1>1, <1>2, <1>3 DEF Pedidos, OpsGuardar, OpsConsulta, Busca
<1>5. HiloPedido \in terminados
  BY <1>2, <1>4 DEF ExecInv, Repartidos
<1>6. Pedido.op # "DESALOJO_INTR"
  BY <1>2, <1>5 DEF ExecInv, Guardados, HiloPedido
<1> QED
  BY <1>1, <1>4, <1>5, <1>6 DEF OpsGuardar

\* A dump finds its process, whose thread is blocked.
LEMMA EncuentraAlDelDump ==
  ASSUME CpuInv, ExecInv, DumpResponde, ~cruce
  PROVE  memoriaViva'
<1>1. dump.paso = "busca" /\ pidBuscado = dump.hilo[1] /\ dump.hilo \in Hilos
  BY DEF DumpResponde, CpuInv, Busqueda, Tipos, TiposMemoria
<1>2. dump.hilo \in vivos
  BY <1>1 DEF ExecInv, Repartidos
<1>3. DelProceso(pidBuscado) \cap vivos # {}
  BY <1>1, <1>2 DEF DelProceso
<1>4. memoriaViva' = (DelProceso(pidBuscado) \cap vivos # {})
  BY DEF DumpResponde
<1> QED
  BY <1>3, <1>4

LEMMA QuienTerminaMemoria ==
  ASSUME [Next]_vars, memoriaViva, ~memoriaViva'
  PROVE  NoEncontrado \/ DumpResponde
<1>1. Ciclo => memoriaViva' = memoriaViva
  BY DEF Ciclo, Recibir, PedirContexto, ContextoListo, EjecutarSet, EjecutarSuma, EjecutarJnz, EjecutarLog,
     EjecutarReadMem, EjecutarWriteMem, LecturaLista, EscrituraLista, EjecutarSyscall, EjecutarProcessExit,
     Retornar, CheckInterrupt, DesalojarPorQuantum, DesalojarPorSyscall, DesalojarPorError, DeleteContexto,
     Quieto, memVars
<1>2. Respuestas \/ Avisos => memoriaViva' = memoriaViva
  BY DEF Respuestas, RecvContexto, RecvInstruction, RecvLectura, RecvEscritura, RecvActualizado, QuedaCpu,
     Avisos, AtenderRespuesta, InterrupcionMira, InterrupcionMarca, QuedaInt, memVars
<1>3. MemoriaCpu \/ MemoriaDump => NoEncontrado \/ DumpResponde \/ memoriaViva' = memoriaViva
  BY DEF MemoriaCpu, BuscarProceso, PedidoContexto, ActualizarContexto, PedidoInstruccion, ReadFromDir,
     WriteInDir, MemoriaDump, DumpBusca
<1>4. KernelInterrumpe \/ KernelAtiende \/ KernelQuantum => memoriaViva' = memoriaViva
  BY DEF KernelInterrumpe, KernelAtiende, KernelQuantum, KernelSinBuffer, KernelSigue, KernelBloquea,
     KernelDump, KernelThreadExit, KernelProcessExit, KernelError, QuedaKernel
<1>5. \A h \in Hilos : KernelDespacha(h) \/ KernelDesbloquea(h) => memoriaViva' = memoriaViva
  BY DEF KernelDespacha, KernelDesbloquea, QuedaKernel
<1>6. UNCHANGED vars => memoriaViva' = memoriaViva
  BY DEF vars, memVars
<1> QED
  BY <1>1, <1>2, <1>3, <1>4, <1>5, <1>6 DEF Next

\* The CPU brings memoria down only with the last context of a thread that is
\* ending: programs that end within themselves ask for no context of a thread
\* that has ended and for no instruction that is not there, whatever the kernel
\* decides, until two searches cross.
THEOREM UltimoContexto == ProgramasQueTerminan /\ Spec => SoloFallaElUltimoContexto
<1> SUFFICES ASSUME ProgramasQueTerminan PROVE Spec => SoloFallaElUltimoContexto
  OBVIOUS
<1> DEFINE A == memoriaViva /\ ~memoriaViva' /\ ~cruce' =>
                  /\ cm # <<>> /\ HiloPedido \in terminados
                  /\ Pedido.op \in {"DESALOJO_INSTRUCCION_CM", "DESALOJO_ERROR_CM"}
<1>1. Init => CicloInv
  BY LosQueTerminan, ProgramasBien, CpuInvInicial, ExecInvInicial, PcInvInicial DEF CicloInv
<1>2. CicloInv /\ [Next]_vars => CicloInv'
  BY NextTipos, NextExec, NextPc DEF CicloInv
<1>3. CicloInv /\ [Next]_vars => A
  <2> SUFFICES ASSUME CicloInv, [Next]_vars, memoriaViva, ~memoriaViva', ~cruce'
               PROVE  /\ cm # <<>> /\ HiloPedido \in terminados
                      /\ Pedido.op \in {"DESALOJO_INSTRUCCION_CM", "DESALOJO_ERROR_CM"}
    OBVIOUS
  <2>1. NoEncontrado \/ DumpResponde
    BY QuienTerminaMemoria
  <2>2. cruce' = cruce
    BY <2>1 DEF NoEncontrado, DumpResponde
  <2>3. ~cruce
    BY <2>2
  <2> QED
    BY <2>1, <2>3, NoEncuentra, EncuentraAlDelDump DEF CicloInv
<1>4. Spec => [][A]_vars
  <2> HIDE DEF A
  <2> QED
    BY <1>1, <1>2, <1>3, PTL DEF Spec
<1> QED
  BY <1>4 DEF SoloFallaElUltimoContexto
=============================================================================
