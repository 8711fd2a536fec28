--------------------------- MODULE Despacho_proofs ---------------------------
(***************************************************************************)
(* Proofs about Despacho, for any number of processes, threads, algorithms *)
(* and programs: type correctness, the exclusive use of                    *)
(* lista_execute_thread, the answers of the syscalls, the one place each   *)
(* thread is in, the order of the dispatches and the wakeups of pcp.       *)
(***************************************************************************)
EXTENDS Despacho, Listas_proofs, FiniteSetTheorems, TLAPS

\* The list in the order of a permutation is a list over the same elements.
LEMMA EnOrdenTipo ==
  ASSUME NEW S, NEW l \in Seq(S), NEW p \in [1..Len(l) -> 1..Len(l)]
  PROVE  EnOrden(l, p) \in Seq(S) /\ Len(EnOrden(l, p)) = Len(l)
BY DEF EnOrden

\* Appending an element of S, or leaving the list alone, keeps it over S.
LEMMA AgregarTipo ==
  ASSUME NEW S, NEW l \in Seq(S), NEW x \in S, NEW m, m = l \/ m = Append(l, x)
  PROVE  m \in Seq(S)
<1>1. Append(l, x) \in Seq(S)
  OBVIOUS
<1> QED
  BY <1>1, Zenon

\* What a dispatch leaves in READY, EXEC and on the way to the CPU.
LEMMA DespacharTipo ==
  ASSUME NEW h \in Hilos, NEW r \in Seq(Hilos), TypeOK, Despachar(h, r)
  PROVE  /\ ready' \in Seq(Hilos) /\ exec' \in Seq(Hilos) /\ dispKC' \in Seq(Hilos)
         /\ estado' \in [Hilos -> Estados]
BY DEF Despachar, TypeOK, TipoListas, TipoCanales, Estados

\* The steps of pcp keep the types.
LEMMA TipoPcp == TypeOK /\ PasoPcp => TypeOK'
<1> USE DEF TypeOK, TipoListas, TipoKernel, TipoCanales, TipoCpu, TipoMemoria,
            hilosVars, cpuVars, memVars
<1>1. ASSUME TypeOK, PcpDespierta  PROVE TypeOK'
  BY <1>1 DEF PcpDespierta, listasVars, canalVars
<1>2. ASSUME TypeOK, PcpMira  PROVE TypeOK'
  BY <1>2 DEF PcpMira, listasVars, canalVars
<1>3. ASSUME TypeOK, AtenderFIFO  PROVE TypeOK'
  <2>1. CASE exec = <<>> /\ ready # <<>>
    <3>1. ready[1] \in Hilos /\ SinIndice(ready, 1) \in Seq(Hilos)
      BY <1>3, <2>1, SinIndiceTipo
    <3>2. Despachar(ready[1], SinIndice(ready, 1))
      BY <1>3, <2>1 DEF AtenderFIFO
    <3> QED
      BY <1>3, <3>1, <3>2, DespacharTipo DEF AtenderFIFO
  <2>2. CASE ~(exec = <<>> /\ ready # <<>>)
    BY <1>3, <2>2 DEF AtenderFIFO, NoDespachar
  <2> QED
    BY <1>3, <2>1, <2>2
<1>4. ASSUME TypeOK, AtenderRR  PROVE TypeOK'
  <2>1. CASE exec = <<>> /\ ready # <<>>
    <3>1. PICK p \in OrdenesEstables(ready, prioridad) :
            /\ Despachar(EnOrden(ready, p)[1], SinIndice(EnOrden(ready, p), 1))
            /\ temporizador' = {"vigente"} \cup Envejecidos
      BY <1>4, <2>1 DEF AtenderRR
    <3>2. p \in [1..Len(ready) -> 1..Len(ready)]
      BY <1>4 DEF OrdenesEstables
    <3>3. EnOrden(ready, p) \in Seq(Hilos) /\ Len(EnOrden(ready, p)) = Len(ready)
      BY <1>4, <3>2, EnOrdenTipo
    <3>4. 1 \in 1..Len(EnOrden(ready, p))
      BY <1>4, <2>1, <3>3
    <3>5. EnOrden(ready, p)[1] \in Hilos /\ SinIndice(EnOrden(ready, p), 1) \in Seq(Hilos)
      BY <1>4, <3>3, <3>4, SinIndiceTipo
    <3> QED
      BY <1>4, <3>1, <3>5, DespacharTipo DEF AtenderRR, Envejecidos
  <2>2. CASE ~(exec = <<>> /\ ready # <<>>)
    BY <1>4, <2>2 DEF AtenderRR, NoDespachar
  <2> QED
    BY <1>4, <2>1, <2>2
<1>5. ASSUME TypeOK, AtenderPRIORIDADES  PROVE TypeOK'
  <2>1. CASE NoDespachar
    BY <1>5, <2>1 DEF AtenderPRIORIDADES, NoDespachar
  <2>2. ASSUME NEW k \in 1..Len(ready), Despachar(ready[k], SinIndice(ready, k)),
               kernel' = kernel
        PROVE  TypeOK'
    <3>1. ready[k] \in Hilos /\ SinIndice(ready, k) \in Seq(Hilos)
      BY <1>5, SinIndiceTipo
    <3> QED
      BY <1>5, <2>2, <3>1, DespacharTipo DEF AtenderPRIORIDADES
  <2> QED
    BY <1>5, <2>1, <2>2 DEF AtenderPRIORIDADES
<1> QED
  BY <1>1, <1>2, <1>3, <1>4, <1>5 DEF PasoPcp

\* So do the timer, the interrupt it asks for and the eviction's answer.
LEMMA TipoQuantum == TypeOK /\ (TemporizadorVence \/ GestionarInterrupt \/ AtenderDesalojoQuantum) => TypeOK'
<1>1. ASSUME TypeOK, TemporizadorVence  PROVE TypeOK'
  <2>1. semInterr \in Nat
    BY <1>1 DEF TypeOK, TipoKernel
  <2>2. /\ temporizador' = temporizador \ {"vigente"}
        /\ semInterr' = IF exec # <<>> THEN semInterr + 1 ELSE semInterr
    BY <1>1, Zenon DEF TemporizadorVence
  <2>3. UNCHANGED <<algoritmo, prioridad, kernel, listasVars, semCpu, pcp, hilosVars, canalVars,
                    cpuVars, memVars>>
    BY <1>1 DEF TemporizadorVence
  <2>4. semInterr' \in Nat
    <3>1. CASE exec # <<>>
      BY <2>1, <2>2, <3>1
    <3>2. CASE exec = <<>>
      BY <2>1, <2>2, <3>2
    <3> QED
      BY <3>1, <3>2
  <2>5. TipoKernel'
    BY <1>1, <2>2, <2>3, <2>4 DEF TypeOK, TipoKernel, hilosVars
  <2> QED
    BY <1>1, <2>3, <2>5 DEF TypeOK, TipoListas, TipoCanales, TipoCpu, TipoMemoria,
                            listasVars, canalVars, cpuVars, memVars
<1> USE DEF TypeOK, TipoListas, TipoKernel, TipoCanales, TipoCpu, TipoMemoria
<1>2. ASSUME TypeOK, GestionarInterrupt  PROVE TypeOK'
  BY <1>2 DEF GestionarInterrupt, Quantum, Avisos, listasVars, hilosVars, cpuVars, memVars
<1>3. ASSUME TypeOK, AtenderDesalojoQuantum  PROVE TypeOK'
  BY <1>3, QuitarTipo DEF AtenderDesalojoQuantum, Postear, Estados, hilosVars, cpuVars, memVars
<1> QED
  BY <1>1, <1>2, <1>3

\* So do the stale timers, the deadlock and the searches that overlap.
LEMMA TipoDetiene ==
  TypeOK /\ (TemporizadorViejoVence \/ Abrazo \/ BusquedasCruzadas) => TypeOK'
<1> USE DEF TypeOK, TipoListas, TipoKernel, TipoCanales, TipoCpu, TipoMemoria
<1>1. ASSUME TypeOK, TemporizadorViejoVence  PROVE TypeOK'
  BY <1>1 DEF TemporizadorViejoVence, listasVars, hilosVars, canalVars, cpuVars, memVars
<1>2. ASSUME TypeOK, Abrazo \/ BusquedasCruzadas  PROVE TypeOK'
  BY <1>2 DEF Abrazo, BusquedasCruzadas, listasVars, planifVars, hilosVars, canalVars, cpuVars,
              memVars
<1> QED
  BY <1>1, <1>2

\* So do the threads that wait out an IO.
LEMMA TipoIo == TypeOK /\ (\E h \in Hilos : PasoIo(h)) => TypeOK'
<1> USE DEF TypeOK, TipoListas, TipoKernel, TipoCanales, TipoCpu, TipoMemoria
<1>1. ASSUME TypeOK, \E h \in Hilos : IoToma(h)  PROVE TypeOK'
  BY <1>1 DEF IoToma, listasVars, planifVars, canalVars, cpuVars, memVars
<1>2. ASSUME TypeOK, \E h \in Hilos : IoTermina(h)  PROVE TypeOK'
  BY <1>2, QuitarTipo DEF IoTermina, Estados, planifVars, canalVars, cpuVars, memVars
<1>3. ASSUME TypeOK, \E h \in Hilos : IoAvisa(h)  PROVE TypeOK'
  BY <1>3 DEF IoAvisa, Postear, NoPostear, listasVars, canalVars, cpuVars, memVars
<1> QED
  BY <1>1, <1>2, <1>3 DEF PasoIo

\* So does the CPU's main thread.
LEMMA TipoCpuSigue == TypeOK /\ PasoCpu => TypeOK'
<1>1. ASSUME TypeOK, CpuInstruccion  PROVE TypeOK'
  <2>1. intCK' = Append(intCK, cpuHilo) /\ cpuFase' = "libre"
        /\ interruptFlag' = FALSE /\ syscallBloquea' = FALSE
    BY <1>1 DEF CpuInstruccion, DesalojarPorQuantum
  <2>2. UNCHANGED <<algoritmo, prioridad, kernel, listasVars, planifVars, hilosVars, dispKC, dispCK,
                    intKC, cpuHilo, semRetorno, memVars>>
    BY <1>1 DEF CpuInstruccion
  <2>3. TipoCanales'
    BY <1>1, <2>1, <2>2 DEF TypeOK, TipoCanales, TipoCpu
  <2>4. TipoCpu'
    BY <1>1, <2>1, <2>2 DEF TypeOK, TipoCpu, Fases
  <2> QED
    BY <1>1, <2>2, <2>3, <2>4 DEF TypeOK, TipoListas, TipoKernel, TipoMemoria,
                                  listasVars, planifVars, hilosVars, memVars
<1>2. ASSUME TypeOK, CpuRetorna  PROVE TypeOK'
  <2>1. UNCHANGED <<algoritmo, prioridad, kernel, listasVars, planifVars, hilosVars, dispKC, intKC,
                    cpuHilo, memVars>>
    BY <1>2 DEF CpuRetorna
  <2>2. semRetorno \in Nat /\ semRetorno > 0 /\ semRetorno' = semRetorno - 1
    BY <1>2 DEF CpuRetorna, TypeOK, TipoCpu
  <2>3. /\ cpuFase' \in {"libre", "ejecuta"}
        /\ interruptFlag' \in BOOLEAN /\ syscallBloquea' \in BOOLEAN
    BY <1>2 DEF CpuRetorna, DesalojarPorQuantum, TypeOK, TipoCpu
  <2>4. /\ dispCK' = dispCK \/ dispCK' = Append(dispCK, Desalojo)
        /\ intCK' = intCK \/ intCK' = Append(intCK, cpuHilo)
    BY <1>2 DEF CpuRetorna, DesalojarPorQuantum
  <2>5. TipoCanales'
    <3>1. TipoCanales /\ cpuHilo \in Hilos /\ UNCHANGED <<dispKC, intKC>>
      BY <1>2, <2>1 DEF TypeOK, TipoCpu
    <3>2. dispCK' \in Seq(Mensajes \cup {Desalojo})
      BY <3>1, <2>4, AgregarTipo, Zenon DEF TipoCanales
    <3>3. intCK' \in Seq(Hilos)
      BY <3>1, <2>4, AgregarTipo, Zenon DEF TipoCanales
    <3> QED
      BY <3>1, <3>2, <3>3 DEF TipoCanales
  <2>6. TipoCpu'
    BY <1>2, <2>1, <2>2, <2>3 DEF TypeOK, TipoCpu, Fases
  <2> QED
    BY <1>2, <2>1, <2>5, <2>6 DEF TypeOK, TipoListas, TipoKernel, TipoMemoria,
                            listasVars, planifVars, hilosVars, memVars
<1> USE DEF TypeOK, TipoListas, TipoKernel, TipoCanales, TipoCpu, TipoMemoria
<1>3. ASSUME TypeOK, CpuRecibe  PROVE TypeOK'
  BY <1>3 DEF CpuRecibe, Fases, listasVars, planifVars, hilosVars, memVars
<1>4. ASSUME TypeOK, CpuContexto  PROVE TypeOK'
  BY <1>4 DEF CpuContexto, Fases, listasVars, planifVars, hilosVars, canalVars, memVars
<1> QED
  BY <1>1, <1>2, <1>3, <1>4 DEF PasoCpu

\* So do its syscalls and its errors.
LEMMA TipoCpuPide == TypeOK /\ (\E o \in Syscalls : CpuSyscall(o) \/ CpuError(o)) => TypeOK'
<1>1. ASSUME TypeOK, NEW o \in Syscalls  PROVE Pedido(cpuHilo, o) \in Mensajes \cup {Desalojo}
  BY <1>1, ConstantesOK DEF Pedido, Mensajes, TypeOK, TipoCpu
<1>2. ASSUME TypeOK, NEW o \in Syscalls, CpuSyscall(o)  PROVE TypeOK'
  <2>1. dispCK' = Append(dispCK, Pedido(cpuHilo, o)) /\ cpuFase' = "retorno"
    BY <1>2 DEF CpuSyscall
  <2>2. UNCHANGED <<algoritmo, prioridad, kernel, listasVars, planifVars, hilosVars, dispKC, intKC,
                    intCK, cpuHilo, interruptFlag, syscallBloquea, semRetorno, memVars>>
    BY <1>2 DEF CpuSyscall
  <2> QED
    BY <1>2, <1>1, <2>1, <2>2 DEF TypeOK, TipoListas, TipoKernel, TipoCanales, TipoCpu, TipoMemoria,
                            Fases, listasVars, planifVars, hilosVars, memVars
<1>3. ASSUME TypeOK, NEW o \in Syscalls, CpuError(o)  PROVE TypeOK'
  <2>1. UNCHANGED <<algoritmo, prioridad, kernel, listasVars, planifVars, hilosVars, dispKC, intKC,
                    cpuHilo, semRetorno, memVars>>
    BY <1>3 DEF CpuError
  <2>2. /\ dispCK' = dispCK \/ dispCK' = Append(dispCK, Pedido(cpuHilo, o))
        /\ intCK' = intCK \/ intCK' = Append(intCK, cpuHilo)
    BY <1>3 DEF CpuError, DesalojarPorQuantum
  <2>3. /\ cpuFase' \in {"libre", "error"}
        /\ interruptFlag' \in BOOLEAN /\ syscallBloquea' \in BOOLEAN
    BY <1>3 DEF CpuError, DesalojarPorQuantum, TypeOK, TipoCpu
  <2>4. TipoCanales'
    <3>1. TipoCanales /\ cpuHilo \in Hilos /\ UNCHANGED <<dispKC, intKC>>
      BY <1>3, <2>1 DEF TypeOK, TipoCpu
    <3>2. dispCK' \in Seq(Mensajes \cup {Desalojo})
      BY <1>1, <1>3, <3>1, <2>2, AgregarTipo, Zenon DEF TipoCanales
    <3>3. intCK' \in Seq(Hilos)
      BY <3>1, <2>2, AgregarTipo, Zenon DEF TipoCanales
    <3> QED
      BY <3>1, <3>2, <3>3 DEF TipoCanales
  <2>5. TipoCpu'
    BY <1>3, <2>1, <2>3 DEF TypeOK, TipoCpu, Fases
  <2> QED
    BY <1>3, <2>1, <2>4, <2>5 DEF TypeOK, TipoListas, TipoKernel, TipoMemoria,
                            listasVars, planifVars, hilosVars, memVars
<1> QED
  BY <1>2, <1>3

\* So does its interrupt thread.
LEMMA TipoCpuAvisos == TypeOK /\ CpuAvisos => TypeOK'
<1> USE DEF TypeOK, TipoListas, TipoKernel, TipoCanales, TipoCpu, TipoMemoria
<1>1. ASSUME TypeOK, CpuRespuesta  PROVE TypeOK'
  BY <1>1 DEF CpuRespuesta, Avisos, listasVars, planifVars, hilosVars, memVars
<1>2. ASSUME TypeOK, CpuInterrupcion  PROVE TypeOK'
  BY <1>2 DEF CpuInterrupcion, Avisos, listasVars, planifVars, hilosVars, memVars
<1> QED
  BY <1>1, <1>2 DEF CpuAvisos

\* So does memoria.
LEMMA TipoMemoriaSigue == TypeOK /\ ((\E h \in Hilos : MemoriaCreaHilo(h)) \/ MemoriaNoEncuentra) => TypeOK'
<1> USE DEF TypeOK, TipoListas, TipoKernel, TipoCanales, TipoCpu, TipoMemoria
<1>1. ASSUME TypeOK, \E h \in Hilos : MemoriaCreaHilo(h)  PROVE TypeOK'
  BY <1>1 DEF MemoriaCreaHilo, listasVars, planifVars, hilosVars, canalVars, cpuVars
<1>2. ASSUME TypeOK, MemoriaNoEncuentra  PROVE TypeOK'
  BY <1>2 DEF MemoriaNoEncuentra, listasVars, planifVars, hilosVars, canalVars, cpuVars
<1> QED
  BY <1>1, <1>2

\* What taking a message, answering it and going on to the next part of its
\* handler leave behind.
LEMMA AtiendeTipo ==
  ASSUME TypeOK, NEW m, Atiende(m)
  PROVE  dispCK' \in Seq(Mensajes \cup {Desalojo})
BY DEF Atiende, TypeOK, TipoCanales

LEMMA RespondeTipo ==
  ASSUME TypeOK, NEW v \in {0, 1}, Responde(v)
  PROVE  intKC' \in Seq(Avisos)
<1>1. Fin(v) \in Avisos
  BY DEF Fin, Avisos
<1> QED
  BY <1>1 DEF Responde, TypeOK, TipoCanales

LEMMA SigueTipo ==
  ASSUME NEW m \in Mensajes, NEW paso \in Pasos, Sigue(paso, m)
  PROVE  kd' \in [paso : Pasos, hilo : Hilos, op : TodasLasOps, i : Nat]
BY DEF Sigue, Mensajes

\* Taking a thread out of READY and EXEC.
LEMMA SacarTipo ==
  ASSUME TypeOK, NEW h
  PROVE  /\ Quitar(ready, h) \in Seq(Hilos)
         /\ Quitar(exec, h) \in Seq(Hilos)
BY QuitarTipo DEF TypeOK, TipoListas

\* The handler's thread waits for the next message.
LEMMA RecibeTipo == Recibe \in [paso : Pasos, hilo : Hilos, op : TodasLasOps, i : Nat]
BY ConstantesOK DEF Recibe, Pasos, TodasLasOps

\* The start of every handler keeps the types.
LEMMA TipoMensaje ==
  ASSUME NEW m \in Mensajes, TypeOK, AtenderMensaje(m)
  PROVE  TypeOK'
<1>1. CASE AtenderYSeguir(m)
  BY <1>1, AtiendeTipo, RespondeTipo DEF AtenderYSeguir, TypeOK, TipoListas, TipoKernel, TipoCanales, TipoCpu, TipoMemoria,
      listasVars, planifVars, hilosVars, canalVars, cpuVars, memVars
<1>2. CASE AtenderYCaer(m)
  <2>1. /\ kernel' = "caido" /\ dispCK' \in Seq(Mensajes \cup {Desalojo})
        /\ UNCHANGED <<algoritmo, prioridad, listasVars, planifVars, hilosVars, dispKC, intKC, intCK, cpuVars, memVars>>
    BY <1>2, AtiendeTipo DEF AtenderYCaer
  <2> QED
    BY <2>1 DEF TypeOK, TipoListas, TipoKernel, TipoCanales, TipoCpu, TipoMemoria,
        listasVars, planifVars, hilosVars, cpuVars, memVars
<1>3. CASE AtenderYBloquear(m)
  <2>1. TipoListas'
    BY <1>3, SacarTipo DEF AtenderYBloquear, Mensajes, Estados, TypeOK, TipoListas
  <2>2. dispCK' \in Seq(Mensajes \cup {Desalojo}) /\ intKC' \in Seq(Avisos)
    BY <1>3, AtiendeTipo, RespondeTipo DEF AtenderYBloquear
  <2>3. UNCHANGED <<algoritmo, prioridad, kernel, planifVars, hilosVars, dispKC, intCK, cpuVars, memVars>>
    BY <1>3 DEF AtenderYBloquear
  <2> QED
    BY <2>1, <2>2, <2>3 DEF TypeOK, TipoKernel, TipoCanales, TipoCpu, TipoMemoria,
                            planifVars, hilosVars, cpuVars, memVars
<1>4. CASE AtenderYDespertar(m)
  <2>1. PICK h \in espera : /\ ready' = Append(ready, h)
                            /\ estado' = [estado EXCEPT ![h] = "READY"]
                            /\ espera' = espera \ {h}
    BY <1>4 DEF AtenderYDespertar
  <2>2. TipoListas'
    BY <1>4, <2>1 DEF AtenderYDespertar, TypeOK, TipoListas, Estados
  <2>3. dispCK' \in Seq(Mensajes \cup {Desalojo}) /\ intKC' \in Seq(Avisos)
    BY <1>4, AtiendeTipo, RespondeTipo DEF AtenderYDespertar
  <2>4. UNCHANGED <<algoritmo, prioridad, kernel, planifVars, hilosVars, dispKC, intCK, cpuVars, memVars>>
    BY <1>4 DEF AtenderYDespertar
  <2> QED
    BY <2>2, <2>3, <2>4 DEF TypeOK, TipoKernel, TipoCanales, TipoCpu, TipoMemoria,
                            planifVars, hilosVars, cpuVars, memVars
<1>5. CASE AtenderThreadCreate(m)
  <2> DEFINE h == ProximoHilo(m.hilo[1])
  <2>1. /\ h \in Hilos /\ altas' = altas \cup {h} /\ ready' = Append(ready, h)
        /\ UNCHANGED <<algoritmo, prioridad, listaNew, pcbs, exec, espera, planifVars, hilosVars,
                       dispKC, intCK, cpuVars, procesosMem, hilosMem, memoriaViva>>
    BY <1>5 DEF AtenderThreadCreate
  <2>2. \/ estado' = [estado EXCEPT ![h] = "READY"] /\ Responde(1) /\ kernel' = kernel
        \/ estado' = [estado EXCEPT ![h] = "NEW"] /\ intKC' = intKC /\ kernel' = "caido"
    BY <1>5 DEF AtenderThreadCreate
  <2> HIDE DEF h
  <2>3. TipoListas'
    BY <2>1, <2>2 DEF TypeOK, TipoListas, Estados
  <2>4. TipoKernel'
    BY <2>1, <2>2 DEF TypeOK, TipoKernel, planifVars, hilosVars
  <2>5. intKC' \in Seq(Avisos)
    BY <2>2, RespondeTipo DEF TypeOK, TipoCanales
  <2>6. dispCK' \in Seq(Mensajes \cup {Desalojo})
    BY <1>5, AtiendeTipo DEF AtenderThreadCreate
  <2> QED
    BY <2>1, <2>3, <2>4, <2>5, <2>6 DEF TypeOK, TipoCanales, TipoCpu, TipoMemoria,
                                        cpuVars
<1>6. CASE AtenderIO(m)
  <2>1. TipoListas'
    BY <1>6, SacarTipo DEF AtenderIO, Mensajes, Estados, TypeOK, TipoListas
  <2>2. dispCK' \in Seq(Mensajes \cup {Desalojo}) /\ intKC' \in Seq(Avisos)
    BY <1>6, AtiendeTipo, RespondeTipo DEF AtenderIO
  <2>3. TipoKernel'
    BY <1>6 DEF AtenderIO, Mensajes, TypeOK, TipoKernel, planifVars
  <2>4. UNCHANGED <<algoritmo, prioridad, dispKC, intCK, cpuVars, memVars>>
    BY <1>6 DEF AtenderIO
  <2> QED
    BY <2>1, <2>2, <2>3, <2>4 DEF TypeOK, TipoCanales, TipoCpu, TipoMemoria, cpuVars, memVars
<1>7. CASE AtenderDump(m)
  <2>1. TipoListas'
    BY <1>7, SacarTipo DEF AtenderDump, Mensajes, Estados, TypeOK, TipoListas
  <2>2. dispCK' \in Seq(Mensajes \cup {Desalojo}) /\ intKC' \in Seq(Avisos)
    BY <1>7, AtiendeTipo, RespondeTipo DEF AtenderDump
  <2>3. TipoKernel'
    BY <1>7, SigueTipo DEF AtenderDump, Mensajes, Pasos, TypeOK, TipoKernel, planifVars
  <2>4. UNCHANGED <<algoritmo, prioridad, dispKC, intCK, cpuVars, memVars>>
    BY <1>7 DEF AtenderDump
  <2> QED
    BY <2>1, <2>2, <2>3, <2>4 DEF TypeOK, TipoCanales, TipoCpu, TipoMemoria, cpuVars, memVars
<1>8. CASE AtenderThreadExit(m)
  <2>1. TipoListas'
    BY <1>8, SacarTipo DEF AtenderThreadExit, TypeOK, TipoListas
  <2>2. dispCK' \in Seq(Mensajes \cup {Desalojo})
    BY <1>8, AtiendeTipo DEF AtenderThreadExit
  <2>3. TipoKernel'
    BY <1>8, SigueTipo DEF AtenderThreadExit, Pasos, TypeOK, TipoKernel, planifVars
  <2>4. UNCHANGED <<algoritmo, prioridad, dispKC, intKC, intCK, cpuVars, memVars>>
    BY <1>8 DEF AtenderThreadExit
  <2> QED
    BY <2>1, <2>2, <2>3, <2>4 DEF TypeOK, TipoCanales, TipoCpu, TipoMemoria, cpuVars, memVars
<1>9. CASE AtenderFinDeProceso(m)
  BY <1>9, AtiendeTipo, SigueTipo DEF AtenderFinDeProceso, Pasos, TypeOK, TipoListas, TipoKernel, TipoCanales, TipoCpu, TipoMemoria,
      listasVars, planifVars, hilosVars, canalVars, cpuVars, memVars
<1>10. CASE AtenderProcessCreate(m)
  BY <1>10, AtiendeTipo, SigueTipo, SMTT(30) DEF AtenderProcessCreate, Estados, Pasos, TypeOK, TipoListas, TipoKernel, TipoCanales, TipoCpu, TipoMemoria,
      listasVars, planifVars, hilosVars, canalVars, cpuVars, memVars
<1>11. CASE AtenderYDespertarMal(m)
  <2>1. PICK h \in espera :
          /\ espera' = espera \ {h}
          /\ \/ Sigue("colgado", m) /\ UNCHANGED <<estado, intKC>>
             \/ estado' = [estado EXCEPT ![h] = "READY"] /\ Responde(1) /\ UNCHANGED kd
    BY <1>11 DEF AtenderYDespertarMal
  <2>2. UNCHANGED <<algoritmo, prioridad, kernel, listaNew, pcbs, ready, exec, planifVars, io,
                    dispKC, intCK, cpuVars, memVars>>
    BY <1>11 DEF AtenderYDespertarMal
  <2>3. TipoListas'
    BY <2>1, <2>2 DEF TypeOK, TipoListas, Estados
  <2>4. "colgado" \in Pasos
    BY DEF Pasos
  <2>5. TipoKernel'
    BY <2>1, <2>2, <2>4, SigueTipo DEF TypeOK, TipoKernel, planifVars
  <2>6. dispCK' \in Seq(Mensajes \cup {Desalojo}) /\ intKC' \in Seq(Avisos)
    BY <1>11, <2>1, AtiendeTipo, RespondeTipo DEF AtenderYDespertarMal, TypeOK, TipoCanales
  <2> QED
    BY <2>2, <2>3, <2>5, <2>6 DEF TypeOK, TipoCanales, TipoCpu, TipoMemoria, cpuVars, memVars
<1> QED
  BY <1>1, <1>2, <1>3, <1>4, <1>5, <1>6, <1>7, <1>8, <1>9, <1>10, <1>11 DEF AtenderMensaje

\* A part of a handler that goes on with its next part.
LEMMA KdTipo ==
  ASSUME TypeOK, NEW paso \in Pasos, NEW i \in Nat
  PROVE  [kd EXCEPT !.paso = paso, !.i = i] \in [paso : Pasos, hilo : Hilos, op : TodasLasOps, i : Nat]
BY DEF TypeOK, TipoKernel

\* What TerminaHandler leaves behind.
LEMMA TerminaHandlerTipo ==
  ASSUME TypeOK, TerminaHandler
  PROVE  /\ kd' \in [paso : Pasos, hilo : Hilos, op : TodasLasOps, i : Nat]
         /\ intKC' \in Seq(Avisos)
         /\ semCpu' \in Nat
<1>1. Fin(0) \in Avisos /\ Fin(1) \in Avisos
  BY DEF Fin, Avisos
<1>2. intKC' = intKC \/ intKC' = Append(intKC, Fin(0)) \/ intKC' = Append(intKC, Fin(1))
  BY DEF TerminaHandler
<1>3. intKC' \in Seq(Avisos)
  BY <1>1, <1>2, AgregarTipo, Zenon DEF TypeOK, TipoCanales
<1>4. semCpu' = semCpu \/ semCpu' = semCpu + 1
  BY DEF TerminaHandler, Postear, NoPostear
<1>5. semCpu' \in Nat
  BY <1>4 DEF TypeOK, TipoKernel
<1> QED
  BY <1>3, <1>5, RecibeTipo DEF TerminaHandler

\* The later parts of the handlers keep the types.
LEMMA TipoDispatch == TypeOK /\ PasoDispatch => TypeOK'
<1>1. ASSUME TypeOK, AtenderDesalojoSyscall  PROVE TypeOK'
  <2>1. /\ dispCK' \in Seq(Mensajes \cup {Desalojo})
        /\ UNCHANGED <<algoritmo, prioridad, kernel, listasVars, pcp, temporizador, semInterr,
                       hilosVars, dispKC, intKC, intCK, cpuVars, memVars>>
    BY <1>1, AtiendeTipo DEF AtenderDesalojoSyscall
  <2>2. semCpu' \in Nat
    BY <1>1 DEF AtenderDesalojoSyscall, Postear, TypeOK, TipoKernel
  <2> QED
    BY <1>1, <2>1, <2>2 DEF TypeOK, TipoListas, TipoKernel, TipoCanales, TipoCpu, TipoMemoria,
        listasVars, hilosVars, cpuVars, memVars
<1>2. ASSUME TypeOK, DumpRespondido  PROVE TypeOK'
  <2>1. kd.hilo \in Hilos /\ kd \in [paso : Pasos, hilo : Hilos, op : TodasLasOps, i : Nat]
    BY <1>2 DEF TypeOK, TipoKernel
  <2>2. UNCHANGED <<algoritmo, prioridad, kernel, listaNew, pcbs, espera, planifVars, io,
                    canalVars, cpuVars, memVars>>
    BY <1>2 DEF DumpRespondido
  <2>3. \/ /\ exec' = Quitar(exec, kd.hilo)
           /\ ready' = Append(Quitar(ready, kd.hilo), kd.hilo)
           /\ estado' = [estado EXCEPT ![kd.hilo] = "READY"]
           /\ kd' = [kd EXCEPT !.paso = "avisa"]
        \/ /\ kd' = [kd EXCEPT !.paso = "saca"]
           /\ UNCHANGED <<exec, ready, estado>>
    BY <1>2 DEF DumpRespondido
  <2>4. TipoListas'
    <3>1. CASE exec' = Quitar(exec, kd.hilo) /\ ready' = Append(Quitar(ready, kd.hilo), kd.hilo)
               /\ estado' = [estado EXCEPT ![kd.hilo] = "READY"]
      BY <1>2, <2>1, <2>2, <3>1, SacarTipo DEF TypeOK, TipoListas, Estados
    <3>2. CASE UNCHANGED <<exec, ready, estado>>
      BY <1>2, <2>2, <3>2 DEF TypeOK, TipoListas
    <3> QED
      BY <2>3, <3>1, <3>2
  <2>5. kd' \in [paso : Pasos, hilo : Hilos, op : TodasLasOps, i : Nat]
    BY <2>1, <2>3 DEF Pasos
  <2> QED
    BY <1>2, <2>2, <2>4, <2>5 DEF TypeOK, TipoKernel, TipoCanales, TipoCpu, TipoMemoria,
                                  planifVars, canalVars, cpuVars, memVars
<1>3. ASSUME TypeOK, DumpAvisa  PROVE TypeOK'
  BY <1>3, RecibeTipo DEF DumpAvisa, Postear, NoPostear, TypeOK, TipoListas, TipoKernel, TipoCanales, TipoCpu, TipoMemoria, 
      listasVars, planifVars, hilosVars, canalVars, cpuVars, memVars
<1>4. ASSUME TypeOK, HiloFinalizado  PROVE TypeOK'
  <2>1. PICK W \in SUBSET {h \in espera : h[1] = kd.hilo[1] /\ h # kd.hilo} :
          \E orden \in [1..Cardinality(W) -> W] :
            /\ ready' = ready \o orden
            /\ espera' = espera \ W
            /\ estado' = [h \in Hilos |-> IF h = kd.hilo THEN "EXIT"
                                          ELSE IF h \in W THEN "READY" ELSE estado[h]]
    BY <1>4 DEF HiloFinalizado
  <2>2. PICK orden \in [1..Cardinality(W) -> W] : ready' = ready \o orden
    BY <2>1
  <2>3. Cardinality(W) \in Nat /\ W \subseteq Hilos
    BY <1>4, ConstantesOK, FS_Subset, FS_CardinalityType DEF TypeOK, TipoListas
  <2>4. orden \in Seq(Hilos)
    BY <2>2, <2>3
  <2>5. ready' \in Seq(Hilos)
    BY <1>4, <2>2, <2>4 DEF TypeOK, TipoListas
  <2>6. estado' \in [Hilos -> Estados]
    BY <1>4, <2>1 DEF TypeOK, TipoListas, Estados
  <2>7. TipoListas'
    BY <1>4, <2>1, <2>5, <2>6 DEF HiloFinalizado, TypeOK, TipoListas
  <2>8. intKC' \in Seq(Avisos)
    BY <1>4, RespondeTipo DEF HiloFinalizado
  <2>9. TipoKernel'
    BY <1>4, RecibeTipo DEF HiloFinalizado, TypeOK, TipoKernel, planifVars
  <2> QED
    BY <1>4, <2>7, <2>8, <2>9 DEF HiloFinalizado, TypeOK, TipoCanales, TipoCpu, TipoMemoria,
                                  cpuVars
<1>5. ASSUME TypeOK, SacarHilo  PROVE TypeOK'
  <2> DEFINE h == <<kd.hilo[1], kd.i>>
  <2>1. UNCHANGED <<algoritmo, prioridad, kernel, listaNew, pcbs, planifVars, io, canalVars, cpuVars,
                    memVars>>
    BY <1>5 DEF SacarHilo
  <2>2. \/ /\ h \in Creados(kd.hilo[1])
           /\ ready' = Quitar(ready, h)
           /\ exec' = Quitar(exec, h)
           /\ estado' = [estado EXCEPT ![h] = "EXIT"]
           /\ espera' = espera \ {h}
           /\ kd' = [kd EXCEPT !.i = @ + 1]
        \/ /\ kd' = [kd EXCEPT !.paso = "finProceso", !.i = 0]
           /\ UNCHANGED <<ready, exec, estado, espera>>
    BY <1>5 DEF SacarHilo
  <2> HIDE DEF h
  <2>3. TipoListas'
    BY <1>5, <2>1, <2>2, SacarTipo DEF TypeOK, TipoListas, Estados
  <2>4. kd' \in [paso : Pasos, hilo : Hilos, op : TodasLasOps, i : Nat]
    <3>1. kd \in [paso : Pasos, hilo : Hilos, op : TodasLasOps, i : Nat]
      BY <1>5 DEF TypeOK, TipoKernel
    <3>2. CASE kd' = [kd EXCEPT !.i = @ + 1]
      BY <3>1, <3>2
    <3>3. CASE kd' = [kd EXCEPT !.paso = "finProceso", !.i = 0]
      BY <3>1, <3>3 DEF Pasos
    <3> QED
      BY <2>2, <3>2, <3>3
  <2> QED
    BY <1>5, <2>1, <2>3, <2>4 DEF TypeOK, TipoKernel, TipoCanales, TipoCpu, TipoMemoria,
                                  planifVars, canalVars, cpuVars, memVars
<1>6. ASSUME TypeOK, ProcesoFinalizado  PROVE TypeOK'
  BY <1>6 DEF ProcesoFinalizado, Pasos, TypeOK, TipoListas, TipoKernel, TipoCanales, TipoCpu, TipoMemoria, 
      listasVars, planifVars, hilosVars, canalVars, cpuVars, memVars
<1>7. ASSUME TypeOK, PlpAdmite  PROVE TypeOK'
  <2>1. Head(listaNew) \in Hilos /\ Tail(listaNew) \in Seq(Hilos)
    BY <1>7 DEF PlpAdmite, TypeOK, TipoListas
  <2>2. Head(listaNew)[1] \in Nat
    BY <2>1, ConstantesOK
  <2>3. TipoListas'
    <3>1. listaNew' \in Seq(Hilos) /\ ready' \in Seq(Hilos) /\ exec' \in Seq(Hilos)
      BY <1>7, <2>1 DEF PlpAdmite, TypeOK, TipoListas
    <3>2. estado' \in [Hilos -> Estados]
      BY <1>7, <2>1 DEF PlpAdmite, TypeOK, TipoListas, Estados
    <3>3. pcbs' \subseteq Nat /\ espera' \subseteq Hilos
      BY <1>7, <2>2 DEF PlpAdmite, TypeOK, TipoListas
    <3> QED
      BY <3>1, <3>2, <3>3 DEF TipoListas
  <2>4. TipoMemoria'
    BY <1>7, <2>1, <2>2 DEF PlpAdmite, TypeOK, TipoMemoria
  <2>5. TerminaHandler \/ UNCHANGED <<kd, intKC, semCpu>>
    BY <1>7 DEF PlpAdmite
  <2>6. /\ kd' \in [paso : Pasos, hilo : Hilos, op : TodasLasOps, i : Nat]
        /\ intKC' \in Seq(Avisos)
        /\ semCpu' \in Nat
    BY <1>7, <2>5, TerminaHandlerTipo DEF TypeOK, TipoKernel, TipoCanales
  <2> QED
    BY <1>7, <2>3, <2>4, <2>6 DEF PlpAdmite, TypeOK, TipoKernel, TipoCanales, TipoCpu, cpuVars
<1>8. ASSUME TypeOK, PlpTermina  PROVE TypeOK'
  BY <1>8, TerminaHandlerTipo DEF PlpTermina, TypeOK, TipoListas, TipoKernel, TipoCanales, TipoCpu, TipoMemoria, 
      listasVars, planifVars, hilosVars, canalVars, cpuVars, memVars
<1>9. ASSUME TypeOK, HiloColgado  PROVE TypeOK'
  <2>1. kd \in [paso : Pasos, hilo : Hilos, op : TodasLasOps, i : Nat] /\ "colgado" \in Pasos
    BY <1>9 DEF TypeOK, TipoKernel, Pasos
  <2>2. kd' = [kd EXCEPT !.paso = "colgado"]
    BY <1>9 DEF HiloColgado
  <2>3. kd' \in [paso : Pasos, hilo : Hilos, op : TodasLasOps, i : Nat]
    BY <2>1, <2>2
  <2>4. hilosMem' = hilosMem \ {kd.hilo}
        /\ UNCHANGED <<algoritmo, prioridad, kernel, listasVars, planifVars, io, canalVars, cpuVars,
                       procesosMem, altas, memoriaViva>>
    BY <1>9 DEF HiloColgado
  <2> QED
    BY <1>9, <2>3, <2>4 DEF TypeOK, TipoListas, TipoKernel, TipoCanales, TipoCpu, TipoMemoria,
                            listasVars, planifVars, canalVars, cpuVars
<1> QED
  BY <1>1, <1>2, <1>3, <1>4, <1>5, <1>6, <1>7, <1>8, <1>9, TipoMensaje DEF PasoDispatch

\* Type correctness, for every configuration: no handler, early return or list
\* operation of the kernel, the CPU or memoria leaves a value out of its type.
THEOREM TiposCorrectos == Spec => []TypeOK
<1>1. Init => TypeOK
  <2> SUFFICES ASSUME Init PROVE TypeOK
    OBVIOUS
  <2>1. Inicial \in Hilos /\ Inicial[1] \in Nat
    BY ConstantesOK
  <2>2. TipoListas
    <3>1. listaNew \in Seq(Hilos) /\ exec \in Seq(Hilos) /\ ready \in Seq(Hilos)
      BY <2>1 DEF Init
    <3>2. estado \in [Hilos -> Estados] /\ espera \subseteq Hilos
      BY DEF Init, Estados
    <3>3. pcbs \subseteq Nat
      BY <2>1 DEF Init
    <3> QED
      BY <3>1, <3>2, <3>3 DEF TipoListas
  <2>3. TipoKernel
    BY RecibeTipo DEF Init, TipoKernel
  <2>4. TipoCanales
    BY DEF Init, TipoCanales
  <2>5. TipoCpu
    BY <2>1 DEF Init, TipoCpu, Fases
  <2>6. TipoMemoria
    <3>1. hilosMem \subseteq Hilos /\ procesosMem \subseteq Nat
      BY <2>1 DEF Init
    <3> QED
      BY <3>1 DEF Init, TipoMemoria
  <2> QED
    BY <2>2, <2>3, <2>4, <2>5, <2>6 DEF TypeOK
<1>2. TypeOK /\ [Next]_vars => TypeOK'
  <2>1. TypeOK /\ Next => TypeOK'
    BY TipoPcp, TipoQuantum, TipoDetiene, TipoDispatch, TipoIo, TipoCpuSigue, TipoCpuPide,
       TipoCpuAvisos, TipoMemoriaSigue DEF Next
  <2>2. TypeOK /\ UNCHANGED vars => TypeOK'
    BY DEF vars, listasVars, planifVars, hilosVars, canalVars, cpuVars, memVars,
           TypeOK, TipoListas, TipoKernel, TipoCanales, TipoCpu, TipoMemoria
  <2> QED
    BY <2>1, <2>2
<1> QED
  BY <1>1, <1>2, PTL DEF Spec

\* Removing threads never grows EXEC.
LEMMA QuitarNoAgranda ==
  ASSUME TypeOK, Len(exec) <= 1, NEW h, exec' = Quitar(exec, h)
  PROVE  Len(exec') <= 1
<1>1. Len(Quitar(exec, h)) <= Len(exec) /\ Quitar(exec, h) \in Seq(Hilos)
  BY QuitarTipo DEF TypeOK, TipoListas
<1> QED
  BY <1>1 DEF TypeOK, TipoListas

\* A dispatch, made with EXEC empty, leaves one thread there.
LEMMA DespacharUno ==
  ASSUME NEW h, NEW r, exec = <<>>, Despachar(h, r)
  PROVE  Len(exec') <= 1
BY DEF Despachar

\* The steps of the dispatch thread's handlers.
LEMMA UnoMensaje ==
  ASSUME NEW m \in Mensajes, TypeOK, UnoEnEjecucion, AtenderMensaje(m)
  PROVE  UnoEnEjecucion'
<1>1. exec' = exec \/ exec' = Quitar(exec, m.hilo)
  BY DEF AtenderMensaje, AtenderYSeguir, AtenderYCaer, AtenderYBloquear, AtenderYDespertar, AtenderYDespertarMal,
         AtenderThreadCreate, AtenderIO, AtenderDump, AtenderThreadExit,
         AtenderFinDeProceso, AtenderProcessCreate, listasVars
<1> QED
  BY <1>1, QuitarNoAgranda DEF UnoEnEjecucion

\* lista_execute_thread never holds two threads, whatever the number of
\* processes and of extra posts of sem_cpu_disponible: every dispatcher checks
\* that it is empty in the section in which it appends to it.
THEOREM UnSoloHiloEnEjecucion == Spec => []UnoEnEjecucion
<1>1. Init => UnoEnEjecucion
  BY DEF Init, UnoEnEjecucion
<1>2. ASSUME TypeOK, UnoEnEjecucion, Next  PROVE UnoEnEjecucion'
  <2>1. CASE AtenderFIFO
    BY <1>2, <2>1, DespacharUno DEF AtenderFIFO, NoDespachar, UnoEnEjecucion
  <2>2. CASE AtenderRR
    BY <1>2, <2>2, DespacharUno DEF AtenderRR, NoDespachar, UnoEnEjecucion
  <2>3. CASE AtenderPRIORIDADES
    BY <1>2, <2>3, DespacharUno DEF AtenderPRIORIDADES, NoDespachar, UnoEnEjecucion
  <2>4. CASE AtenderDesalojoQuantum
    BY <1>2, <2>4, QuitarNoAgranda DEF AtenderDesalojoQuantum, UnoEnEjecucion
  <2>5. CASE \E m \in Mensajes : AtenderMensaje(m)
    BY <1>2, <2>5, UnoMensaje
  <2>6. CASE DumpRespondido \/ SacarHilo
    BY <1>2, <2>6, QuitarNoAgranda DEF DumpRespondido, SacarHilo, UnoEnEjecucion
  <2>7. CASE \E h \in Hilos : PasoIo(h)
    BY <1>2, <2>7, QuitarNoAgranda
       DEF PasoIo, IoToma, IoTermina, IoAvisa, UnoEnEjecucion, listasVars
  <2>8. CASE PcpDespierta \/ PcpMira \/ TemporizadorVence \/ GestionarInterrupt
    BY <1>2, <2>8 DEF PcpDespierta, PcpMira, TemporizadorVence, GestionarInterrupt,
                      UnoEnEjecucion, listasVars
  <2>9. CASE AtenderDesalojoSyscall \/ DumpAvisa \/ HiloFinalizado \/ HiloColgado \/ ProcesoFinalizado
    BY <1>2, <2>9 DEF AtenderDesalojoSyscall, DumpAvisa, HiloFinalizado, HiloColgado, ProcesoFinalizado,
                      UnoEnEjecucion, listasVars
  <2>10. CASE PlpAdmite \/ PlpTermina
    BY <1>2, <2>10 DEF PlpAdmite, PlpTermina, UnoEnEjecucion, listasVars
  <2>11. CASE PasoCpu \/ CpuAvisos
    BY <1>2, <2>11 DEF PasoCpu, CpuAvisos, CpuRecibe, CpuContexto, CpuInstruccion, CpuRetorna,
                       CpuRespuesta, CpuInterrupcion, UnoEnEjecucion, listasVars
  <2>12. CASE \E o \in Syscalls : CpuSyscall(o) \/ CpuError(o)
    BY <1>2, <2>12 DEF CpuSyscall, CpuError, UnoEnEjecucion, listasVars
  <2>13. CASE (\E h \in Hilos : MemoriaCreaHilo(h)) \/ MemoriaNoEncuentra
    BY <1>2, <2>13 DEF MemoriaCreaHilo, MemoriaNoEncuentra, UnoEnEjecucion, listasVars
  <2>14. CASE TemporizadorViejoVence \/ Abrazo \/ BusquedasCruzadas
    BY <1>2, <2>14 DEF TemporizadorViejoVence, Abrazo, BusquedasCruzadas, UnoEnEjecucion, listasVars
  <2> QED
    BY <1>2, <2>1, <2>2, <2>3, <2>4, <2>5, <2>6, <2>7, <2>8, <2>9, <2>10, <2>11, <2>12, <2>13,
       <2>14
       DEF Next, PasoPcp, PasoDispatch
<1>3. UnoEnEjecucion /\ UNCHANGED vars => UnoEnEjecucion'
  BY DEF vars, listasVars, UnoEnEjecucion
<1> QED
  BY <1>1, <1>2, <1>3, TiposCorrectos, PTL DEF Spec

-----------------------------------------------------------------------------
(* The conversation between the CPU and the dispatch thread *)

\* A syscall is in one place at a time: its request on the way to the kernel,
\* its handler in the middle of it, its answer on the way back, or the
\* semaphore the CPU's main thread waits in.
Fines == [tipo : {"FIN"}, rta : {0, 1}]

\* The handler in course has still to answer (one of an error never does).
DebeRespuesta ==
  kd.paso \in {"finHilo", "saca", "finProceso", "plp", "colgado"} /\ kd.op # "DUMP_MEMORY"

\* Request, handler, answer and semaphore exclude each other.
UnaFichaSola ==
  /\ AloSumoUno(dispCK, Mensajes)
  /\ AloSumoUno(intKC, Fines)
  /\ semRetorno \in {0, 1}
  /\ DebeRespuesta => Ninguno(dispCK, Mensajes)
  /\ ~Ninguno(intKC, Fines) => Ninguno(dispCK, Mensajes) /\ ~DebeRespuesta
  /\ semRetorno = 1 => Ninguno(dispCK, Mensajes) /\ ~DebeRespuesta /\ Ninguno(intKC, Fines)

\* The CPU waits while the syscall is in any of the four, and the ones that are
\* errors are those that have no answer.
EsperaSuRespuesta ==
  /\ ~Ninguno(intKC, Fines) \/ semRetorno = 1 => cpuFase = "retorno"
  /\ \A i \in 1..Len(dispCK) : dispCK[i] \in Mensajes =>
       /\ cpuFase \in {"retorno", "error"}
       /\ dispCK[i].op \in Errores <=> cpuFase = "error"
  /\ DebeRespuesta =>
       /\ cpuFase \in {"retorno", "error"}
       /\ kd.op \in Errores <=> cpuFase = "error"

\* Which handlers stop in the middle.
PasosDelHandler ==
  /\ kd.paso = "dump" => kd.op = "DUMP_MEMORY"
  /\ kd.paso = "finHilo" => kd.op \in {"THREAD_EXIT", "MUTEX_LOCK"}

Conversacion == UnaFichaSola /\ EsperaSuRespuesta /\ PasosDelHandler

\* A step that leaves the four places and the CPU's phase alone.
LEMMA ConversacionQuieta ==
  ASSUME Conversacion, UNCHANGED <<dispCK, intKC, kd, semRetorno, cpuFase>>
  PROVE  Conversacion'
BY DEF Conversacion, UnaFichaSola, EsperaSuRespuesta, PasosDelHandler, DebeRespuesta

\* The kernel's interrupts are no answers.
LEMMA QuantumNoEsFin ==
  /\ \A h : Quantum(h) \notin Fines
  /\ \A v \in {0, 1} : Fin(v) \in Fines /\ Fin(v) \in Avisos
  /\ \A a \in Avisos : a \in Fines <=> a.tipo = "FIN"
  /\ \A h \in Hilos : Quantum(h) \in Avisos
BY DEF Quantum, Fin, Fines, Avisos

\* The eviction is no request.
LEMMA DesalojoNoEsPedido ==
  /\ Desalojo \notin Mensajes
  /\ \A o \in TodasLasOps, h \in Hilos : Pedido(h, o) \in Mensajes /\ Pedido(h, o).op = o
BY DEF Desalojo, Mensajes, Pedido, TodasLasOps, DeMutex, Errores

\* An interrupt asked for.
LEMMA ConversacionInterrupt ==
  TypeOK /\ Conversacion /\ GestionarInterrupt => Conversacion'
<1> SUFFICES ASSUME TypeOK, Conversacion, GestionarInterrupt PROVE Conversacion'
  OBVIOUS
<1>1. UNCHANGED <<dispCK, kd, semRetorno, cpuFase>>
  BY DEF GestionarInterrupt, hilosVars, cpuVars
<1>2. intKC \in Seq(Avisos) /\ exec \in Seq(Hilos)
  BY DEF TypeOK, TipoCanales, TipoListas
<1>3. intKC' = intKC \/ \E h \in Hilos : intKC' = Append(intKC, Quantum(h))
  BY <1>2 DEF GestionarInterrupt
<1>4. /\ AloSumoUno(intKC, Fines) => AloSumoUno(intKC', Fines)
      /\ Ninguno(intKC', Fines) <=> Ninguno(intKC, Fines)
  BY <1>2, <1>3, QuantumNoEsFin, AgregarAjeno
<1> QED
  BY <1>1, <1>4 DEF Conversacion, UnaFichaSola, EsperaSuRespuesta, PasosDelHandler,
                    DebeRespuesta

\* What the handler that takes a request finds and leaves.
LEMMA PedidoTomado ==
  ASSUME TypeOK, Conversacion, NEW m \in Mensajes, Atiende(m)
  PROVE  /\ Ninguno(dispCK', Mensajes) /\ AloSumoUno(dispCK', Mensajes)
         /\ dispCK' \in Seq(Mensajes \cup {Desalojo})
         /\ Ninguno(intKC, Fines) /\ semRetorno = 0 /\ ~DebeRespuesta
         /\ cpuFase \in {"retorno", "error"}
         /\ m.op \in Errores <=> cpuFase = "error"
         /\ kd.paso = "recibe"
<1>1. /\ dispCK # <<>> /\ m = Head(dispCK) /\ dispCK' = Tail(dispCK) /\ kd.paso = "recibe"
      /\ dispCK \in Seq(Mensajes \cup {Desalojo})
  BY DEF Atiende, TypeOK, TipoCanales
<1>2. m = dispCK[1] /\ 1 \in 1..Len(dispCK)
  BY <1>1
<1>3. ~Ninguno(dispCK, Mensajes)
  BY <1>2 DEF Ninguno
<1>4. /\ Ninguno(dispCK', Mensajes) /\ AloSumoUno(dispCK', Mensajes)
      /\ dispCK' \in Seq(Mensajes \cup {Desalojo})
  BY <1>1, SacarPrimero DEF Conversacion, UnaFichaSola
<1>5. Ninguno(intKC, Fines) /\ semRetorno = 0 /\ ~DebeRespuesta
  BY <1>3 DEF Conversacion, UnaFichaSola
<1>6. /\ cpuFase \in {"retorno", "error"}
      /\ m.op \in Errores <=> cpuFase = "error"
  BY <1>2 DEF Conversacion, EsperaSuRespuesta
<1> QED
  BY <1>1, <1>4, <1>5, <1>6

\* An answer on its way.
LEMMA RespuestaEnviada ==
  ASSUME TypeOK, AloSumoUno(intKC, Fines), Ninguno(intKC, Fines), NEW v \in {0, 1},
         intKC' = Append(intKC, Fin(v))
  PROVE  AloSumoUno(intKC', Fines)
BY QuantumNoEsFin, AgregarPrimero DEF TypeOK, TipoCanales

\* The start of a handler.
LEMMA ConversacionMensaje ==
  ASSUME TypeOK, Conversacion, NEW m \in Mensajes, AtenderMensaje(m)
  PROVE  Conversacion'
<1>1. Atiende(m)
  BY DEF AtenderMensaje, AtenderYSeguir, AtenderYCaer, AtenderYBloquear, AtenderYDespertar,
         AtenderYDespertarMal, AtenderThreadCreate, AtenderIO, AtenderDump,
         AtenderThreadExit, AtenderFinDeProceso, AtenderProcessCreate
<1>2. /\ Ninguno(dispCK', Mensajes) /\ AloSumoUno(dispCK', Mensajes)
      /\ Ninguno(intKC, Fines) /\ semRetorno = 0 /\ ~DebeRespuesta
      /\ cpuFase \in {"retorno", "error"}
      /\ m.op \in Errores <=> cpuFase = "error"
      /\ kd.paso = "recibe"
  BY <1>1, PedidoTomado
<1>3. UNCHANGED <<semRetorno, cpuFase>>
  BY DEF AtenderMensaje, AtenderYSeguir, AtenderYCaer, AtenderYBloquear, AtenderYDespertar,
         AtenderYDespertarMal, AtenderThreadCreate, AtenderIO, AtenderDump,
         AtenderThreadExit, AtenderFinDeProceso, AtenderProcessCreate, cpuVars
\* It answers and ends, it ends without an answer, it goes on having answered,
\* or it goes on.
<1>4. \/ m.op \notin Errores /\ (\E v \in {0, 1} : Responde(v)) /\ kd' = kd
      \/ intKC' = intKC /\ kd' = kd
      \/ m.op = "DUMP_MEMORY" /\ Responde(0) /\ Sigue("dump", m)
      \/ /\ intKC' = intKC
         /\ \E paso \in {"finHilo", "saca", "plp", "colgado"} :
              /\ Sigue(paso, m)
              /\ m.op # "DUMP_MEMORY"
              /\ paso = "finHilo" => m.op \in {"THREAD_EXIT", "MUTEX_LOCK"}
  <2> USE DEF DeMutex, DeEspera, Errores
  <2>1. CASE AtenderYSeguir(m) \/ AtenderYCaer(m) \/ AtenderYBloquear(m)
    BY <2>1 DEF AtenderYSeguir, AtenderYCaer, AtenderYBloquear, hilosVars
  <2>2. CASE AtenderYDespertar(m) \/ AtenderYDespertarMal(m)
    BY <2>2 DEF AtenderYDespertar, AtenderYDespertarMal, hilosVars
  <2>3. CASE AtenderThreadCreate(m)
    BY <2>3 DEF AtenderThreadCreate, hilosVars
  <2>4. CASE AtenderIO(m) \/ AtenderDump(m)
    BY <2>4 DEF AtenderIO, AtenderDump
  <2>5. CASE AtenderThreadExit(m)
    BY <2>5 DEF AtenderThreadExit
  <2>6. CASE AtenderFinDeProceso(m)
    BY <2>6 DEF AtenderFinDeProceso
  <2>7. CASE AtenderProcessCreate(m)
    BY <2>7 DEF AtenderProcessCreate
  <2> QED
    BY <2>1, <2>2, <2>3, <2>4, <2>5, <2>6, <2>7 DEF AtenderMensaje
<1>5. \A i \in 1..Len(dispCK') : dispCK'[i] \notin Mensajes
  BY <1>2 DEF Ninguno
<1>6. AloSumoUno(intKC, Fines)
  BY DEF Conversacion, UnaFichaSola
<1>7. CASE m.op \notin Errores /\ (\E v \in {0, 1} : Responde(v)) /\ kd' = kd
  <2>1. AloSumoUno(intKC', Fines)
    BY <1>2, <1>6, <1>7, RespuestaEnviada DEF Responde
  <2>2. cpuFase = "retorno"
    BY <1>2, <1>7
  <2> QED
    BY <1>2, <1>3, <1>5, <1>7, <2>1, <2>2
       DEF Conversacion, UnaFichaSola, EsperaSuRespuesta, PasosDelHandler, DebeRespuesta
<1>8. CASE intKC' = intKC /\ kd' = kd
  BY <1>2, <1>3, <1>5, <1>8
     DEF Conversacion, UnaFichaSola, EsperaSuRespuesta, PasosDelHandler, DebeRespuesta
<1>9. CASE m.op = "DUMP_MEMORY" /\ Responde(0) /\ Sigue("dump", m)
  <2>1. AloSumoUno(intKC', Fines)
    BY <1>2, <1>6, <1>9, RespuestaEnviada DEF Responde
  <2>2. cpuFase = "retorno"
    BY <1>2, <1>9 DEF Errores
  <2>3. kd'.paso = "dump" /\ kd'.op = "DUMP_MEMORY"
    BY <1>9 DEF Sigue
  <2> QED
    BY <1>2, <1>3, <1>5, <2>1, <2>2, <2>3
       DEF Conversacion, UnaFichaSola, EsperaSuRespuesta, PasosDelHandler, DebeRespuesta
<1>10. ASSUME intKC' = intKC, NEW paso \in {"finHilo", "saca", "plp", "colgado"},
              Sigue(paso, m), m.op # "DUMP_MEMORY",
              paso = "finHilo" => m.op \in {"THREAD_EXIT", "MUTEX_LOCK"}
       PROVE  Conversacion'
  <2>1. kd'.paso = paso /\ kd'.op = m.op
    BY <1>10 DEF Sigue
  <2>2. Ninguno(intKC', Fines) /\ AloSumoUno(intKC', Fines) /\ semRetorno' = 0
    BY <1>2, <1>3, <1>6, <1>10
  <2>3. UnaFichaSola'
    BY <1>2, <2>2 DEF UnaFichaSola
  <2>4. EsperaSuRespuesta'
    BY <1>2, <1>3, <1>5, <2>1, <2>2 DEF EsperaSuRespuesta
  <2>5. PasosDelHandler'
    BY <1>10, <2>1 DEF PasosDelHandler
  <2> QED
    BY <2>3, <2>4, <2>5 DEF Conversacion
<1> QED
  BY <1>4, <1>7, <1>8, <1>9, <1>10

\* The eviction after a blocking answer carries no request.
LEMMA ConversacionDesalojo ==
  TypeOK /\ Conversacion /\ AtenderDesalojoSyscall => Conversacion'
<1> SUFFICES ASSUME TypeOK, Conversacion, AtenderDesalojoSyscall PROVE Conversacion'
  OBVIOUS
<1>1. /\ dispCK # <<>> /\ Head(dispCK) = Desalojo /\ dispCK' = Tail(dispCK)
      /\ dispCK \in Seq(Mensajes \cup {Desalojo})
      /\ UNCHANGED <<intKC, kd, semRetorno, cpuFase>>
  BY DEF AtenderDesalojoSyscall, Atiende, TypeOK, TipoCanales, hilosVars, cpuVars
<1>2. /\ AloSumoUno(dispCK, Mensajes) => AloSumoUno(dispCK', Mensajes)
      /\ Ninguno(dispCK', Mensajes) <=> Ninguno(dispCK, Mensajes)
  BY <1>1, SacarPrimero, DesalojoNoEsPedido
<1>3. \A i \in 1..Len(dispCK') : dispCK'[i] = dispCK[i + 1] /\ i + 1 \in 1..Len(dispCK)
  BY <1>1
<1>4. UnaFichaSola'
  BY <1>1, <1>2 DEF Conversacion, UnaFichaSola, DebeRespuesta
<1>5. EsperaSuRespuesta'
  BY <1>1, <1>3 DEF Conversacion, EsperaSuRespuesta, DebeRespuesta
<1> QED
  BY <1>1, <1>4, <1>5 DEF Conversacion, PasosDelHandler

\* A handler that goes on: with the same request, or with nothing pending.
LEMMA ConversacionSigue ==
  ASSUME TypeOK, Conversacion, UNCHANGED <<dispCK, intKC, semRetorno, cpuFase>>,
         \/ kd'.paso \in {"recibe", "avisa"}
         \/ kd'.paso \in {"saca", "finProceso", "plp"} /\ kd'.op = "DUMP_MEMORY"
         \/ /\ DebeRespuesta /\ kd'.op = kd.op
            /\ kd'.paso \in {"saca", "finProceso", "plp", "colgado"}
  PROVE  Conversacion'
<1>1. DebeRespuesta' => DebeRespuesta /\ kd'.op = kd.op
  BY DEF DebeRespuesta
<1>2. UnaFichaSola'
  BY <1>1 DEF Conversacion, UnaFichaSola
<1>3. EsperaSuRespuesta'
  BY <1>1 DEF Conversacion, EsperaSuRespuesta
<1> QED
  BY <1>2, <1>3 DEF Conversacion, PasosDelHandler

\* The handler ends, with the answer it owed or without any.
LEMMA ConversacionTermina ==
  ASSUME TypeOK, Conversacion, UNCHANGED <<dispCK, semRetorno, cpuFase>>,
         kd' = Recibe,
         \/ intKC' = intKC
         \/ /\ DebeRespuesta /\ kd.op \notin Errores
            /\ \E v \in {0, 1} : intKC' = Append(intKC, Fin(v))
  PROVE  Conversacion'
<1>1. ~DebeRespuesta' /\ kd'.paso = "recibe"
  BY DEF DebeRespuesta, Recibe
<1>2. CASE intKC' = intKC
  BY <1>1, <1>2, ConversacionSigue
<1>3. CASE /\ DebeRespuesta /\ kd.op \notin Errores
           /\ \E v \in {0, 1} : intKC' = Append(intKC, Fin(v))
  <2>1. /\ Ninguno(dispCK, Mensajes) /\ Ninguno(intKC, Fines) /\ semRetorno = 0
        /\ AloSumoUno(intKC, Fines) /\ AloSumoUno(dispCK, Mensajes)
    BY <1>3 DEF Conversacion, UnaFichaSola
  <2>2. AloSumoUno(intKC', Fines)
    BY <1>3, <2>1, RespuestaEnviada
  <2>3. cpuFase = "retorno"
    BY <1>3 DEF Conversacion, EsperaSuRespuesta
  <2>4. UnaFichaSola'
    BY <1>1, <2>1, <2>2 DEF UnaFichaSola
  <2>5. EsperaSuRespuesta'
    BY <1>1, <2>1, <2>3 DEF EsperaSuRespuesta, Ninguno
  <2> QED
    BY <1>1, <2>4, <2>5 DEF Conversacion, PasosDelHandler
<1> QED
  BY <1>2, <1>3

\* The rest of the steps of the dispatch thread.
LEMMA ConversacionDispatch ==
  TypeOK /\ Conversacion /\ PasoDispatch => Conversacion'
<1> SUFFICES ASSUME TypeOK, Conversacion, PasoDispatch PROVE Conversacion'
  OBVIOUS
<1>1. kd \in [paso : Pasos, hilo : Hilos, op : TodasLasOps, i : Nat]
  BY DEF TypeOK, TipoKernel
<1>2. CASE DumpRespondido
  <2>1. /\ UNCHANGED <<dispCK, intKC, semRetorno, cpuFase>>
        /\ kd.paso = "dump" /\ kd.op = "DUMP_MEMORY"
        /\ \/ kd' = [kd EXCEPT !.paso = "avisa"]
           \/ kd' = [kd EXCEPT !.paso = "saca"]
    BY <1>2 DEF DumpRespondido, canalVars, cpuVars, Conversacion, PasosDelHandler
  <2>2. kd'.paso \in {"avisa", "saca"} /\ kd'.op = "DUMP_MEMORY"
    BY <1>1, <2>1
  <2> QED
    BY <2>1, <2>2, ConversacionSigue
<1>3. CASE DumpAvisa
  <2>1. UNCHANGED <<dispCK, intKC, semRetorno, cpuFase>> /\ kd' = Recibe
    BY <1>3 DEF DumpAvisa, canalVars, cpuVars
  <2> QED
    BY <2>1, ConversacionTermina
<1>4. CASE HiloFinalizado
  <2>1. /\ UNCHANGED <<dispCK, semRetorno, cpuFase>> /\ kd' = Recibe
        /\ intKC' = Append(intKC, Fin(0)) /\ kd.paso = "finHilo"
    BY <1>4 DEF HiloFinalizado, Responde, cpuVars
  <2>2. kd.op \in {"THREAD_EXIT", "MUTEX_LOCK"}
    BY <2>1 DEF Conversacion, PasosDelHandler
  <2>3. DebeRespuesta /\ kd.op \notin Errores
    BY <2>1, <2>2 DEF DebeRespuesta, Errores
  <2> QED
    BY <2>1, <2>3, ConversacionTermina
<1>5. CASE HiloColgado
  <2>1. /\ UNCHANGED <<dispCK, intKC, semRetorno, cpuFase>> /\ kd.paso = "finHilo"
        /\ kd' = [kd EXCEPT !.paso = "colgado"]
    BY <1>5 DEF HiloColgado, canalVars, cpuVars
  <2>2. kd.op \in {"THREAD_EXIT", "MUTEX_LOCK"}
    BY <2>1 DEF Conversacion, PasosDelHandler
  <2>3. DebeRespuesta /\ kd'.op = kd.op /\ kd'.paso = "colgado"
    BY <1>1, <2>1, <2>2 DEF DebeRespuesta
  <2> QED
    BY <2>1, <2>3, ConversacionSigue
<1>6. CASE SacarHilo
  <2>1. /\ UNCHANGED <<dispCK, intKC, semRetorno, cpuFase>> /\ kd.paso = "saca"
        /\ kd' = [kd EXCEPT !.i = @ + 1] \/ kd' = [kd EXCEPT !.paso = "finProceso", !.i = 0]
    BY <1>6 DEF SacarHilo, canalVars, cpuVars
  <2>2. kd'.paso \in {"saca", "finProceso"} /\ kd'.op = kd.op
    BY <1>1, <2>1
  <2>3. kd.op = "DUMP_MEMORY" \/ DebeRespuesta
    BY <2>1 DEF DebeRespuesta
  <2> QED
    BY <2>1, <2>2, <2>3, ConversacionSigue
<1>7. CASE ProcesoFinalizado
  <2>1. /\ UNCHANGED <<dispCK, intKC, semRetorno, cpuFase>> /\ kd.paso = "finProceso"
        /\ kd' = [kd EXCEPT !.paso = "plp"]
    BY <1>7 DEF ProcesoFinalizado, canalVars, cpuVars
  <2>2. kd'.paso = "plp" /\ kd'.op = kd.op
    BY <1>1, <2>1
  <2>3. kd.op = "DUMP_MEMORY" \/ DebeRespuesta
    BY <2>1 DEF DebeRespuesta
  <2> QED
    BY <2>1, <2>2, <2>3, ConversacionSigue
<1>8. ASSUME TerminaHandler, kd.paso = "plp", UNCHANGED <<dispCK, semRetorno, cpuFase>>
      PROVE  Conversacion'
  <2>1. /\ kd' = Recibe
        /\ \/ intKC' = intKC
           \/ /\ kd.op \in {"PROCESS_CREATE", "PROCESS_EXIT"}
              /\ \E v \in {0, 1} : intKC' = Append(intKC, Fin(v))
    BY <1>8 DEF TerminaHandler
  <2>2. kd.op \in {"PROCESS_CREATE", "PROCESS_EXIT"} => DebeRespuesta /\ kd.op \notin Errores
    BY <1>8 DEF DebeRespuesta, Errores
  <2> QED
    BY <1>8, <2>1, <2>2, ConversacionTermina
<1>9. CASE PlpAdmite
  <2>1. /\ UNCHANGED <<dispCK, semRetorno, cpuFase>> /\ kd.paso = "plp"
        /\ TerminaHandler \/ UNCHANGED <<kd, intKC, semCpu>>
    BY <1>9 DEF PlpAdmite, cpuVars
  <2> QED
    BY <1>8, <2>1, ConversacionQuieta
<1>10. CASE PlpTermina
  BY <1>8, <1>10 DEF PlpTermina, cpuVars
<1> QED
  BY <1>2, <1>3, <1>4, <1>5, <1>6, <1>7, <1>9, <1>10, ConversacionDesalojo,
     ConversacionMensaje DEF PasoDispatch

\* The CPU asks, with nothing of its last syscall left anywhere.
LEMMA ConversacionPide ==
  ASSUME TypeOK, Conversacion, NEW o \in Syscalls, CpuSyscall(o) \/ CpuError(o)
  PROVE  Conversacion'
<1>1. /\ cpuFase = "ejecuta" /\ UNCHANGED <<intKC, kd, semRetorno>>
      /\ dispCK \in Seq(Mensajes \cup {Desalojo}) /\ cpuHilo \in Hilos
  BY DEF CpuSyscall, CpuError, hilosVars, TypeOK, TipoCanales, TipoCpu
<1>2. \/ dispCK' = dispCK /\ cpuFase' = "libre"
      \/ /\ dispCK' = Append(dispCK, Pedido(cpuHilo, o))
         /\ cpuFase' = IF o \in Errores THEN "error" ELSE "retorno"
  BY DEF CpuSyscall, CpuError, DesalojarPorQuantum
<1>3. Pedido(cpuHilo, o) \in Mensajes /\ Pedido(cpuHilo, o).op = o
  BY <1>1, DesalojoNoEsPedido, ConstantesOK
<1>4. /\ Ninguno(dispCK, Mensajes) /\ Ninguno(intKC, Fines) /\ semRetorno = 0 /\ ~DebeRespuesta
      /\ AloSumoUno(dispCK, Mensajes) /\ AloSumoUno(intKC, Fines)
  BY <1>1 DEF Conversacion, UnaFichaSola, EsperaSuRespuesta, Ninguno
<1>5. ~DebeRespuesta'
  BY <1>1, <1>4 DEF DebeRespuesta
<1>6. CASE dispCK' = dispCK /\ cpuFase' = "libre"
  BY <1>1, <1>4, <1>5, <1>6
     DEF Conversacion, UnaFichaSola, EsperaSuRespuesta, PasosDelHandler, Ninguno
<1>7. CASE /\ dispCK' = Append(dispCK, Pedido(cpuHilo, o))
           /\ cpuFase' = IF o \in Errores THEN "error" ELSE "retorno"
  <2>1. AloSumoUno(dispCK', Mensajes)
    BY <1>1, <1>3, <1>4, <1>7, AgregarPrimero
  <2>2. \A i \in 1..Len(dispCK') : dispCK'[i] \in Mensajes => dispCK'[i] = Pedido(cpuHilo, o)
    <3>1. \A i \in 1..Len(dispCK') :
            dispCK'[i] = Pedido(cpuHilo, o) \/ (i \in 1..Len(dispCK) /\ dispCK'[i] = dispCK[i])
      BY <1>1, <1>3, <1>7
    <3> QED
      BY <1>4, <3>1 DEF Ninguno
  <2>3. UnaFichaSola'
    BY <1>1, <1>4, <1>5, <2>1 DEF UnaFichaSola
  <2>4. EsperaSuRespuesta'
    BY <1>1, <1>3, <1>4, <1>5, <1>7, <2>2 DEF EsperaSuRespuesta
  <2> QED
    BY <1>1, <2>3, <2>4 DEF Conversacion, PasosDelHandler
<1> QED
  BY <1>2, <1>6, <1>7

\* The other steps of the CPU's main thread.
LEMMA ConversacionCpu ==
  TypeOK /\ Conversacion /\ PasoCpu => Conversacion'
<1> SUFFICES ASSUME TypeOK, Conversacion, PasoCpu PROVE Conversacion'
  OBVIOUS
\* Not in a syscall, before and after.
<1>1. ASSUME cpuFase \notin {"retorno", "error"},
             UNCHANGED <<dispCK, intKC, kd, semRetorno>>
      PROVE  Conversacion'
  <2>1. /\ Ninguno(dispCK, Mensajes) /\ Ninguno(intKC, Fines) /\ semRetorno = 0 /\ ~DebeRespuesta
    BY <1>1 DEF Conversacion, UnaFichaSola, EsperaSuRespuesta, Ninguno
  <2>2. ~DebeRespuesta'
    BY <1>1, <2>1 DEF DebeRespuesta
  <2> QED
    BY <1>1, <2>1, <2>2
       DEF Conversacion, UnaFichaSola, EsperaSuRespuesta, PasosDelHandler, Ninguno
<1>2. CASE CpuRecibe \/ CpuContexto \/ CpuInstruccion
  BY <1>1, <1>2 DEF CpuRecibe, CpuContexto, CpuInstruccion, hilosVars, canalVars
<1>3. CASE CpuRetorna
  <2>1. /\ semRetorno > 0 /\ semRetorno' = semRetorno - 1 /\ UNCHANGED <<intKC, kd>>
        /\ dispCK' = dispCK \/ dispCK' = Append(dispCK, Desalojo)
    BY <1>3 DEF CpuRetorna, hilosVars
  <2>2. /\ semRetorno = 1 /\ Ninguno(dispCK, Mensajes) /\ ~DebeRespuesta /\ Ninguno(intKC, Fines)
        /\ AloSumoUno(dispCK, Mensajes) /\ AloSumoUno(intKC, Fines)
    BY <2>1 DEF Conversacion, UnaFichaSola
  <2>3. ~DebeRespuesta' /\ semRetorno' = 0
    BY <2>1, <2>2 DEF DebeRespuesta
  <2>4. Ninguno(dispCK', Mensajes) /\ AloSumoUno(dispCK', Mensajes)
    <3>1. dispCK \in Seq(Mensajes \cup {Desalojo})
      BY DEF TypeOK, TipoCanales
    <3>2. Desalojo \in Mensajes \cup {Desalojo} /\ Desalojo \notin Mensajes
      BY DesalojoNoEsPedido
    <3>3. /\ AloSumoUno(dispCK, Mensajes) => AloSumoUno(Append(dispCK, Desalojo), Mensajes)
          /\ Ninguno(Append(dispCK, Desalojo), Mensajes) <=> Ninguno(dispCK, Mensajes)
      BY <3>1, <3>2, AgregarAjeno
    <3> QED
      BY <2>1, <2>2, <3>3
  <2> QED
    BY <2>1, <2>2, <2>3, <2>4
       DEF Conversacion, UnaFichaSola, EsperaSuRespuesta, PasosDelHandler, Ninguno
<1> QED
  BY <1>2, <1>3 DEF PasoCpu

\* The CPU's interrupt thread.
LEMMA ConversacionAvisos ==
  TypeOK /\ Conversacion /\ CpuAvisos => Conversacion'
<1> SUFFICES ASSUME TypeOK, Conversacion, CpuAvisos PROVE Conversacion'
  OBVIOUS
<1>1. /\ intKC \in Seq(Avisos) /\ intKC # <<>> /\ intKC' = Tail(intKC)
      /\ UNCHANGED <<dispCK, kd, cpuFase>>
  BY DEF CpuAvisos, CpuRespuesta, CpuInterrupcion, TypeOK, TipoCanales, hilosVars
<1>2. /\ Head(intKC) \in Avisos
      /\ AloSumoUno(intKC, Fines) => AloSumoUno(intKC', Fines)
      /\ Head(intKC) \notin Fines => (Ninguno(intKC', Fines) <=> Ninguno(intKC, Fines))
      /\ AloSumoUno(intKC, Fines) /\ Head(intKC) \in Fines => Ninguno(intKC', Fines)
      /\ Ninguno(intKC, Fines) => Head(intKC) \notin Fines
  BY <1>1, SacarPrimero
<1>3. CASE CpuRespuesta
  <2>1. Head(intKC) \in Fines /\ semRetorno' = semRetorno + 1
    BY <1>2, <1>3, QuantumNoEsFin DEF CpuRespuesta
  <2>2. ~Ninguno(intKC, Fines)
    BY <1>2, <2>1
  <2>3. /\ AloSumoUno(dispCK, Mensajes) /\ AloSumoUno(intKC, Fines)
        /\ Ninguno(dispCK, Mensajes) /\ ~DebeRespuesta /\ semRetorno = 0
        /\ cpuFase = "retorno"
    BY <2>2 DEF Conversacion, UnaFichaSola, EsperaSuRespuesta
  <2>4. ~DebeRespuesta'
    BY <1>1, <2>3 DEF DebeRespuesta
  <2>5. Ninguno(intKC', Fines) /\ AloSumoUno(intKC', Fines)
    BY <1>2, <2>1, <2>3
  <2> QED
    BY <1>1, <2>1, <2>3, <2>4, <2>5
       DEF Conversacion, UnaFichaSola, EsperaSuRespuesta, PasosDelHandler, Ninguno
<1>4. CASE CpuInterrupcion
  <2>1. Head(intKC) \notin Fines /\ semRetorno' = semRetorno
    BY <1>2, <1>4, QuantumNoEsFin DEF CpuInterrupcion
  <2> QED
    BY <1>1, <1>2, <2>1
       DEF Conversacion, UnaFichaSola, EsperaSuRespuesta, PasosDelHandler, DebeRespuesta
<1> QED
  BY <1>3, <1>4 DEF CpuAvisos

LEMMA InitConversacion == Init => Conversacion
BY DEF Init, Recibe, Conversacion, UnaFichaSola, EsperaSuRespuesta, PasosDelHandler,
       DebeRespuesta, AloSumoUno, Ninguno

LEMMA PasoConversacion ==
  TypeOK /\ Conversacion /\ [Next]_vars => Conversacion'
<1> SUFFICES ASSUME TypeOK, Conversacion, [Next]_vars PROVE Conversacion'
  OBVIOUS
<1>1. CASE PasoPcp
  BY <1>1, ConversacionQuieta
     DEF PasoPcp, PcpDespierta, PcpMira, AtenderFIFO, AtenderRR, AtenderPRIORIDADES,
         hilosVars, canalVars, cpuVars
<1>2. CASE TemporizadorVence \/ AtenderDesalojoQuantum
  BY <1>2, ConversacionQuieta
     DEF TemporizadorVence, AtenderDesalojoQuantum, hilosVars, canalVars, cpuVars
<1>3. CASE \E h \in Hilos : PasoIo(h)
  BY <1>3, ConversacionQuieta
     DEF PasoIo, IoToma, IoTermina, IoAvisa, canalVars, cpuVars
<1>4. CASE (\E h \in Hilos : MemoriaCreaHilo(h)) \/ MemoriaNoEncuentra \/ UNCHANGED vars
  BY <1>4, ConversacionQuieta
     DEF MemoriaCreaHilo, MemoriaNoEncuentra, vars, hilosVars, canalVars, cpuVars
<1>5. CASE TemporizadorViejoVence \/ Abrazo \/ BusquedasCruzadas
  BY <1>5, ConversacionQuieta
     DEF TemporizadorViejoVence, Abrazo, BusquedasCruzadas, hilosVars, canalVars, cpuVars
<1> QED
  BY <1>1, <1>2, <1>3, <1>4, <1>5, ConversacionInterrupt, ConversacionDispatch, ConversacionPide,
     ConversacionCpu, ConversacionAvisos DEF Next

LEMMA SiempreConversacion == Spec => []Conversacion
BY InitConversacion, PasoConversacion, TiposCorrectos, PTL DEF Spec

\* The counted form of the property follows from the four places.
LEMMA ConversacionBasta == TypeOK /\ Conversacion => RespuestaUnica
<1> SUFFICES ASSUME TypeOK, Conversacion PROVE RespuestaUnica
  OBVIOUS
<1> DEFINE fines == {i \in 1..Len(intKC) : intKC[i].tipo = "FIN"}
<1>1. intKC \in Seq(Avisos)
  BY DEF TypeOK, TipoCanales
<1>2. \A i \in 1..Len(intKC) : intKC[i] \in Fines <=> intKC[i].tipo = "FIN"
  BY <1>1, QuantumNoEsFin
<1>3. \A i \in fines, j \in fines : i = j
  BY <1>2 DEF Conversacion, UnaFichaSola, AloSumoUno
<1>4. fines # {} <=> ~Ninguno(intKC, Fines)
  BY <1>2 DEF Ninguno
<1>5. semRetorno \in {0, 1} /\ (semRetorno = 1 => fines = {})
  BY <1>4 DEF Conversacion, UnaFichaSola
<1>6. fines # {} \/ semRetorno > 0 => cpuFase = "retorno"
  BY <1>4, <1>5 DEF Conversacion, EsperaSuRespuesta
<1>7. Cardinality(fines) + semRetorno <= 1
  <2>1. CASE fines = {}
    BY <1>5, <2>1, FS_EmptySet
  <2>2. CASE fines # {}
    <3>1. PICK i \in fines : TRUE
      BY <2>2
    <3>2. fines = {i}
      BY <1>3, <3>1
    <3>3. Cardinality(fines) = 1
      BY <3>2, FS_Singleton
    <3> QED
      BY <1>5, <2>2, <3>3
  <2> QED
    BY <2>1, <2>2
<1> QED
  BY <1>6, <1>7 DEF RespuestaUnica

\* Each syscall gets at most one answer, and only while the CPU waits for it:
\* through handlers that answer at once, that answer after memoria or plp has,
\* and that never do, and through interrupts sent on the same socket.
THEOREM RespuestaUnicaSiempre == Spec => []RespuestaUnica
BY SiempreConversacion, TiposCorrectos, ConversacionBasta, PTL

-----------------------------------------------------------------------------
(* Where each thread is *)

\* The syscall of the CPU's thread was answered with 0: the CPU will leave it.
Despedido == EnLista(intKC, Fin(0)) \/ syscallBloquea

\* The places a thread that can still run may be in.
Lugares == {"new", "ready", "espera", "io", "dump", "camino", "cpu", "desalojo"}

EnLugar(x, h) ==
  \/ x = "new"      /\ EnLista(listaNew, h)
  \/ x = "ready"    /\ EnLista(ready, h)
  \/ x = "espera"   /\ h \in espera
  \/ x = "io"       /\ io[h] \in {"espera", "duerme"}
  \/ x = "dump"     /\ kd.paso = "dump" /\ kd.hilo = h
  \/ x = "camino"   /\ EnLista(dispKC, h)
  \/ x = "cpu"      /\ cpuHilo = h /\ cpuFase # "libre" /\ ~Despedido
  \/ x = "desalojo" /\ EnLista(intCK, h)

\* A thread is in one place at most, and once.
UnLugar ==
  /\ SinRepetir(listaNew) /\ SinRepetir(ready) /\ SinRepetir(dispKC) /\ SinRepetir(intCK)
  /\ \A h \in Hilos : \A x, y \in Lugares : EnLugar(x, h) /\ EnLugar(y, h) => x = y

\* The syscall in course is of the thread the CPU has, which leaves it only for
\* a blocking answer.
DeQuienEs ==
  /\ \A i \in 1..Len(dispCK) : dispCK[i] \in Mensajes => dispCK[i].hilo = cpuHilo
  /\ DebeRespuesta => kd.hilo = cpuHilo
  /\ syscallBloquea => semRetorno = 1
  /\ kd.paso = "colgado" => kd.op # "DUMP_MEMORY"

\* Threads are created in order; one in a place was created; and the process of
\* one that is not in lista_new is not there either.
Creado(h) == estado[h] # "NADA"

EnOrdenCreados ==
  /\ \A h \in Hilos : Creado(h) =>
       /\ \A t \in 0..h[2] : <<h[1], t>> \in Hilos /\ Creado(<<h[1], t>>)
       /\ \A p \in 0..h[1] : <<p, 0>> \in Hilos /\ Creado(<<p, 0>>)
  /\ \A h \in Hilos : \A x \in Lugares : EnLugar(x, h) =>
       /\ Creado(h)
       /\ x # "new" => ~EnLista(listaNew, <<h[1], 0>>)
       /\ x = "new" => h[2] = 0
  /\ Creado(cpuHilo)

\* The process of the thread has ended or is being taken apart.
Muere(h) ==
  \/ h[1] \notin pcbs
  \/ kd.paso \in {"saca", "finProceso"} /\ kd.hilo[1] = h[1]

\* What is in EXEC is on the CPU's side, and what the CPU's side has is in EXEC
\* while nobody takes it out.
DelLadoDeLaCpu(h) == EnLugar("camino", h) \/ EnLugar("cpu", h) \/ EnLugar("desalojo", h)

HandlerLoSaca ==
  /\ kd.paso = "finHilo" => ~EnLista(exec, kd.hilo)
  /\ kd.op = "PROCESS_EXIT" =>
       /\ kd.paso \in {"saca", "finProceso", "plp"} => kd.hilo[2] = 0
       /\ kd.paso \in {"finProceso", "plp"} \/ (kd.paso = "saca" /\ kd.i > 0) =>
            ~EnLista(exec, kd.hilo)

EnExecOMuere(h) == exec = <<h>> \/ Muere(h)

ExecEsLaCpu ==
  /\ \A h \in Hilos : EnLista(exec, h) => DelLadoDeLaCpu(h)
  /\ HandlerLoSaca
  /\ \A h \in Hilos : EnLugar("camino", h) => EnExecOMuere(h)
  /\ EnLugar("cpu", cpuHilo) /\ kd.paso \notin {"finHilo", "colgado"} => EnExecOMuere(cpuHilo)

CadaUnoEnSuLugar == UnLugar /\ DeQuienEs /\ EnOrdenCreados /\ ExecEsLaCpu

\* Everything the steps below start from.
Todo == TypeOK /\ UnoEnEjecucion /\ Conversacion /\ CadaUnoEnSuLugar

\* What nothing created says of the threads, places and processes.
LEMMA NadieMueve ==
  ASSUME Todo,
         \A h \in Hilos : Creado(h)' <=> Creado(h), Creado(cpuHilo)', listaNew' = listaNew,
         SinRepetir(ready'), SinRepetir(dispKC'), SinRepetir(intCK'),
         \A h \in Hilos, x \in Lugares : EnLugar(x, h)' => EnLugar(x, h)
  PROVE  UnLugar' /\ EnOrdenCreados'
<1>1. UnLugar'
  BY DEF Todo, CadaUnoEnSuLugar, UnLugar
<1>2. EnOrdenCreados'
  <2>1. ASSUME NEW h \in Hilos, Creado(h)'
        PROVE  /\ \A t \in 0..h[2] : <<h[1], t>> \in Hilos /\ Creado(<<h[1], t>>)'
               /\ \A p \in 0..h[1] : <<p, 0>> \in Hilos /\ Creado(<<p, 0>>)'
    BY <2>1 DEF Todo, CadaUnoEnSuLugar, EnOrdenCreados
  <2>2. ASSUME NEW h \in Hilos, NEW x \in Lugares, EnLugar(x, h)'
        PROVE  /\ Creado(h)'
               /\ x # "new" => ~EnLista(listaNew', <<h[1], 0>>)
               /\ x = "new" => h[2] = 0
    BY <2>2 DEF Todo, CadaUnoEnSuLugar, EnOrdenCreados
  <2> QED
    BY <2>1, <2>2 DEF EnOrdenCreados
<1> QED
  BY <1>1, <1>2

\* Some threads that wait go to READY.
LEMMA VariosDespiertan ==
  ASSUME Todo,
         \A h \in Hilos : Creado(h)' <=> Creado(h), Creado(cpuHilo)', listaNew' = listaNew,
         SinRepetir(ready'), SinRepetir(dispKC'), SinRepetir(intCK'),
         NEW W, \A g \in W : g \in Hilos /\ EnLugar("espera", g),
         \A h \in Hilos, x \in Lugares : EnLugar(x, h)' =>
           \/ h \in W /\ x = "ready"
           \/ EnLugar(x, h) /\ ~(h \in W /\ x = "espera")
  PROVE  UnLugar' /\ EnOrdenCreados'
<1>0. "espera" \in Lugares \ {"new"} /\ "ready" \in Lugares \ {"new"}
  BY DEF Lugares
<1>1. \A g \in W, x \in Lugares : EnLugar(x, g)' => x = "ready"
  BY <1>0 DEF Todo, CadaUnoEnSuLugar, UnLugar
<1>2. \A h \in Hilos, x \in Lugares : h \notin W /\ EnLugar(x, h)' => EnLugar(x, h)
  OBVIOUS
<1>3. UnLugar'
  <2>1. ASSUME NEW h \in Hilos, NEW x \in Lugares, NEW w \in Lugares,
               EnLugar(x, h)', EnLugar(w, h)'
        PROVE  x = w
    <3>1. CASE h \in W
      BY <1>1, <2>1, <3>1
    <3>2. CASE h \notin W
      BY <1>2, <2>1, <3>2 DEF Todo, CadaUnoEnSuLugar, UnLugar
    <3> QED
      BY <3>1, <3>2
  <2> QED
    BY <2>1 DEF Todo, CadaUnoEnSuLugar, UnLugar
<1>4. EnOrdenCreados'
  <2>1. ASSUME NEW h \in Hilos, Creado(h)'
        PROVE  /\ \A t \in 0..h[2] : <<h[1], t>> \in Hilos /\ Creado(<<h[1], t>>)'
               /\ \A p \in 0..h[1] : <<p, 0>> \in Hilos /\ Creado(<<p, 0>>)'
    BY <2>1 DEF Todo, CadaUnoEnSuLugar, EnOrdenCreados
  <2>2. ASSUME NEW h \in Hilos, NEW x \in Lugares, EnLugar(x, h)'
        PROVE  /\ Creado(h)'
               /\ x # "new" => ~EnLista(listaNew', <<h[1], 0>>)
               /\ x = "new" => h[2] = 0
    <3>1. CASE h \in W
      BY <1>0, <1>1, <2>2, <3>1 DEF Todo, CadaUnoEnSuLugar, EnOrdenCreados
    <3>2. CASE h \notin W
      BY <1>2, <2>2, <3>2 DEF Todo, CadaUnoEnSuLugar, EnOrdenCreados
    <3> QED
      BY <3>1, <3>2
  <2> QED
    BY <2>1, <2>2 DEF EnOrdenCreados
<1> QED
  BY <1>3, <1>4

\* A thread goes from a place to another.
LEMMA UnoMueve ==
  ASSUME Todo,
         \A h \in Hilos : Creado(h)' <=> Creado(h), Creado(cpuHilo)', listaNew' = listaNew,
         SinRepetir(ready'), SinRepetir(dispKC'), SinRepetir(intCK'),
         NEW g \in Hilos, NEW z \in Lugares \ {"new"}, NEW y \in Lugares \ {"new"},
         EnLugar(z, g),
         \A h \in Hilos, x \in Lugares : EnLugar(x, h)' =>
           \/ h = g /\ x = y
           \/ EnLugar(x, h) /\ ~(h = g /\ x = z)
  PROVE  UnLugar' /\ EnOrdenCreados'
<1>1. \A x \in Lugares : EnLugar(x, g)' => x = y
  BY DEF Todo, CadaUnoEnSuLugar, UnLugar
<1>2. \A h \in Hilos, x \in Lugares : h # g /\ EnLugar(x, h)' => EnLugar(x, h)
  OBVIOUS
<1>3. UnLugar'
  BY <1>1, <1>2 DEF Todo, CadaUnoEnSuLugar, UnLugar
<1>4. EnOrdenCreados'
  <2>1. ASSUME NEW h \in Hilos, Creado(h)'
        PROVE  /\ \A t \in 0..h[2] : <<h[1], t>> \in Hilos /\ Creado(<<h[1], t>>)'
               /\ \A p \in 0..h[1] : <<p, 0>> \in Hilos /\ Creado(<<p, 0>>)'
    BY <2>1 DEF Todo, CadaUnoEnSuLugar, EnOrdenCreados
  <2>2. ASSUME NEW h \in Hilos, NEW x \in Lugares, EnLugar(x, h)'
        PROVE  /\ Creado(h)'
               /\ x # "new" => ~EnLista(listaNew', <<h[1], 0>>)
               /\ x = "new" => h[2] = 0
    <3>1. CASE h = g
      BY <1>1, <2>2, <3>1 DEF Todo, CadaUnoEnSuLugar, EnOrdenCreados
    <3>2. CASE h # g
      BY <1>2, <2>2, <3>2 DEF Todo, CadaUnoEnSuLugar, EnOrdenCreados
    <3> QED
      BY <3>1, <3>2
  <2> QED
    BY <2>1, <2>2 DEF EnOrdenCreados
<1> QED
  BY <1>3, <1>4

\* The fields of the handler's state and the lists, by type.
LEMMA TiposDeTodo ==
  ASSUME Todo
  PROVE  /\ listaNew \in Seq(Hilos) /\ ready \in Seq(Hilos) /\ exec \in Seq(Hilos)
         /\ dispKC \in Seq(Hilos) /\ intCK \in Seq(Hilos) /\ intKC \in Seq(Avisos)
         /\ dispCK \in Seq(Mensajes \cup {Desalojo})
         /\ estado \in [Hilos -> Estados] /\ espera \subseteq Hilos /\ cpuHilo \in Hilos
         /\ kd \in [paso : Pasos, hilo : Hilos, op : TodasLasOps, i : Nat]
         /\ io \in [Hilos -> {"no", "espera", "duerme", "avisa"}]
         /\ SinRepetir(listaNew) /\ SinRepetir(ready) /\ SinRepetir(dispKC)
         /\ SinRepetir(intCK)
BY DEF Todo, TypeOK, TipoListas, TipoCanales, TipoKernel, TipoCpu, CadaUnoEnSuLugar, UnLugar

\* EXEC has one thread or none.
LEMMA ExecEsUno ==
  ASSUME Todo
  PROVE  /\ SinRepetir(exec)
         /\ \A h : EnLista(exec, h) <=> exec = <<h>>
         /\ exec = <<>> <=> \A h \in Hilos : exec # <<h>>
         /\ \A g, h : EnLista(Quitar(exec, g), h) <=> EnLista(exec, h) /\ h # g
         /\ \A g, h : exec = <<h>> /\ h # g => Quitar(exec, g) = <<h>>
<1>1. exec \in Seq(Hilos) /\ Len(exec) <= 1
  BY TiposDeTodo DEF Todo, UnoEnEjecucion
<1>2. exec = <<>> \/ \E h \in Hilos : exec = <<h>>
  <2>1. CASE Len(exec) = 0
    BY <1>1, <2>1
  <2>2. CASE Len(exec) = 1
    <3>1. exec[1] \in Hilos /\ exec = <<exec[1]>>
      BY <1>1, <2>2
    <3> QED
      BY <3>1
  <2>3. Len(exec) = 0 \/ Len(exec) = 1
    <3> DEFINE n == Len(exec)
    <3>1. n \in Nat /\ n <= 1
      BY <1>1
    <3> HIDE DEF n
    <3>2. n = 0 \/ n = 1
      BY <3>1
    <3> QED
      BY <3>2 DEF n
  <2> QED
    BY <2>1, <2>2, <2>3
<1>3. SinRepetir(exec)
  BY <1>1 DEF SinRepetir
<1>4. ASSUME NEW h  PROVE EnLista(exec, h) <=> exec = <<h>>
  BY <1>2 DEF EnLista
<1>5. \A g, h : EnLista(Quitar(exec, g), h) <=> EnLista(exec, h) /\ h # g
  BY <1>1, <1>3, EnListaQuitar
<1>6. ASSUME NEW g, NEW h, exec = <<h>>, h # g  PROVE Quitar(exec, g) = <<h>>
  <2>1. ~EnLista(exec, g)
    <3>1. SUFFICES ASSUME exec = <<g>> PROVE FALSE
      BY <1>4
    <3>2. <<g>>[1] = <<h>>[1]
      BY <1>6, <3>1
    <3> QED
      BY <1>6, <3>2
  <2> QED
    BY <1>6, <2>1 DEF Quitar
<1>7. exec = <<>> <=> \A h \in Hilos : exec # <<h>>
  BY <1>2
<1> QED
  BY <1>3, <1>4, <1>5, <1>6, <1>7

\* A step that does not let the CPU have another thread, and takes out of EXEC
\* none that the CPU has.
LEMMA ExecSigue ==
  ASSUME Todo, NEW g \in Hilos,
         \/ exec' = exec
         \/ /\ exec' = Quitar(exec, g)
            /\ EnLugar("camino", g)' => Muere(g)'
            /\ EnLugar("cpu", g)' => Muere(g)' \/ kd'.paso \in {"finHilo", "colgado"},
         cpuHilo' = cpuHilo,
         HandlerLoSaca',
         \A h \in Hilos : EnLista(exec', h) /\ DelLadoDeLaCpu(h) => DelLadoDeLaCpu(h)',
         \A h \in Hilos : EnLugar("camino", h)' => EnLugar("camino", h),
         \A h \in Hilos : EnLugar("cpu", h)' => EnLugar("cpu", h),
         \A h \in Hilos : Muere(h) /\ (EnLugar("camino", h) \/ EnLugar("cpu", h)) => Muere(h)',
         EnLugar("cpu", cpuHilo)' /\ kd.paso \in {"finHilo", "colgado"} =>
           kd'.paso \in {"finHilo", "colgado"}
  PROVE  ExecEsLaCpu'
<1>1. cpuHilo \in Hilos
  BY TiposDeTodo
<1>2. \A h : EnLista(exec', h) => EnLista(exec, h)
  BY ExecEsUno
<1>3. ASSUME NEW h \in Hilos, exec = <<h>>  PROVE exec' = <<h>> \/ (exec' = Quitar(exec, g) /\ h = g)
  <2>1. CASE exec' = exec
    BY <1>3, <2>1
  <2>2. CASE exec' = Quitar(exec, g)
    BY <1>3, <2>2, ExecEsUno
  <2> QED
    BY <2>1, <2>2
<1>4. \A h \in Hilos : EnLista(exec', h) => DelLadoDeLaCpu(h)'
  BY <1>2 DEF Todo, CadaUnoEnSuLugar, ExecEsLaCpu
<1>5. ASSUME NEW h \in Hilos, EnLugar("camino", h)'  PROVE EnExecOMuere(h)'
  <2>1. EnLugar("camino", h) /\ EnExecOMuere(h)
    BY <1>5 DEF Todo, CadaUnoEnSuLugar, ExecEsLaCpu
  <2>2. Muere(h) => Muere(h)'
    BY <2>1
  <2>3. exec = <<h>> => exec' = <<h>> \/ Muere(h)' \/ exec' = exec
    BY <1>3, <1>5
  <2> QED
    BY <2>1, <2>2, <2>3 DEF EnExecOMuere
<1>6. ASSUME EnLugar("cpu", cpuHilo)', kd'.paso \notin {"finHilo", "colgado"}
      PROVE  EnExecOMuere(cpuHilo)'
  <2>1. EnLugar("cpu", cpuHilo)
    BY <1>1, <1>6 DEF EnLugar
  <2>2. EnExecOMuere(cpuHilo)
    BY <1>6, <2>1 DEF Todo, CadaUnoEnSuLugar, ExecEsLaCpu
  <2>3. CASE exec = <<cpuHilo>>
    <3>1. exec' = <<cpuHilo>> \/ exec' = exec \/ (cpuHilo = g /\ Muere(g)')
      BY <1>1, <1>3, <1>6, <2>3
    <3>2. Muere(g)' /\ cpuHilo = g => Muere(cpuHilo)'
      BY DEF Muere
    <3> QED
      BY <2>3, <3>1, <3>2 DEF EnExecOMuere
  <2>4. CASE Muere(cpuHilo)
    <3>1. Muere(cpuHilo)'
      BY <1>1, <2>1, <2>4 DEF Muere
    <3> QED
      BY <3>1 DEF EnExecOMuere
  <2> QED
    BY <2>2, <2>3, <2>4 DEF EnExecOMuere
<1> QED
  BY <1>4, <1>5, <1>6 DEF ExecEsLaCpu

\* EXEC, the handler and what the CPU's side has are left alone.
LEMMA ExecQuieto ==
  ASSUME Todo, UNCHANGED <<exec, pcbs, kd, cpuHilo>>,
         \A h \in Hilos : /\ EnLugar("camino", h)' <=> EnLugar("camino", h)
                          /\ EnLugar("cpu", h)' <=> EnLugar("cpu", h)
                          /\ EnLugar("desalojo", h)' <=> EnLugar("desalojo", h)
  PROVE  ExecEsLaCpu'
<1>1. \A h \in Hilos : Muere(h)' <=> Muere(h)
  BY DEF Muere
<1>2. HandlerLoSaca'
  BY DEF Todo, CadaUnoEnSuLugar, ExecEsLaCpu, HandlerLoSaca
<1>3. \A h \in Hilos : DelLadoDeLaCpu(h)' <=> DelLadoDeLaCpu(h)
  BY DEF DelLadoDeLaCpu
<1>4. cpuHilo \in Hilos
  BY TiposDeTodo
<1> QED
  BY <1>1, <1>2, <1>3, <1>4, ExecSigue

\* Who the syscall in course is of.
LEMMA DeQuienEsQuieto ==
  ASSUME Todo, UNCHANGED <<kd, cpuHilo, dispCK, syscallBloquea, semRetorno>>
  PROVE  DeQuienEs'
BY DEF Todo, CadaUnoEnSuLugar, DeQuienEs, DebeRespuesta

\* A step that touches nothing of all this.
LEMMA LugaresQuietos ==
  ASSUME Todo, UNCHANGED <<listasVars, hilosVars, canalVars, cpuHilo, cpuFase,
                           syscallBloquea, semRetorno>>
  PROVE  CadaUnoEnSuLugar'
<1> USE DEF listasVars, hilosVars, canalVars
<1>1. \A h \in Hilos, x \in Lugares : EnLugar(x, h)' <=> EnLugar(x, h)
  BY DEF EnLugar, Despedido, Lugares
<1>2. \A h : Creado(h)' <=> Creado(h)
  BY DEF Creado
<1>3. Creado(cpuHilo)' /\ cpuHilo \in Hilos
  BY <1>2 DEF Todo, CadaUnoEnSuLugar, EnOrdenCreados, Creado, TypeOK, TipoCpu
<1>4. UnLugar' /\ EnOrdenCreados'
  BY <1>1, <1>2, <1>3, NadieMueve DEF Todo, CadaUnoEnSuLugar, UnLugar
<1>5. ExecEsLaCpu'
  <2>1. {"camino", "cpu", "desalojo"} \subseteq Lugares
    BY DEF Lugares
  <2> QED
    BY <1>1, <2>1, ExecQuieto
<1> QED
  BY <1>4, <1>5, DeQuienEsQuieto DEF CadaUnoEnSuLugar

\* The end of an IO: from it to READY.
LEMMA LugaresIoTermina ==
  ASSUME Todo, NEW g \in Hilos, IoTermina(g)
  PROVE  CadaUnoEnSuLugar'
<1>1. /\ io[g] = "duerme"
      /\ exec' = Quitar(exec, g)
      /\ ready' = Append(Quitar(ready, g), g)
      /\ estado' = [estado EXCEPT ![g] = "READY"]
      /\ io' = [io EXCEPT ![g] = "avisa"]
      /\ UNCHANGED <<listaNew, pcbs, espera, kd, dispKC, dispCK, intKC, intCK,
                     cpuHilo, cpuFase, syscallBloquea, semRetorno>>
  BY DEF IoTermina, canalVars, cpuVars
<1>2. EnLugar("io", g) /\ "io" \in Lugares \ {"new"} /\ "ready" \in Lugares \ {"new"}
  BY <1>1 DEF EnLugar, Lugares
<1>3. Creado(g)
  BY <1>2 DEF Todo, CadaUnoEnSuLugar, EnOrdenCreados
<1>4. \A h \in Hilos : Creado(h)' <=> Creado(h)
  BY <1>1, <1>3, TiposDeTodo DEF Creado
<1>5. Creado(cpuHilo)'
  BY <1>1, <1>4, TiposDeTodo DEF Todo, CadaUnoEnSuLugar, EnOrdenCreados, Creado
<1>6. /\ SinRepetir(ready')
      /\ \A h : EnLista(ready', h) <=> EnLista(ready, h) \/ h = g
  <2> DEFINE q == Quitar(ready, g)
  <2>1. /\ q \in Seq(Hilos) /\ SinRepetir(q)
        /\ \A h : EnLista(q, h) <=> EnLista(ready, h) /\ h # g
    BY TiposDeTodo, EnListaQuitar
  <2>2. ready' = Append(q, g)
    BY <1>1
  <2> HIDE DEF q
  <2> QED
    BY <2>1, <2>2, EnListaAgregar
<1>7. \A h \in Hilos, x \in Lugares : EnLugar(x, h)' =>
        \/ h = g /\ x = "ready"
        \/ EnLugar(x, h) /\ ~(h = g /\ x = "io")
  BY <1>1, <1>6, TiposDeTodo DEF EnLugar, Lugares, Despedido
<1>8. UnLugar' /\ EnOrdenCreados'
  BY <1>1, <1>2, <1>4, <1>5, <1>6, <1>7, UnoMueve DEF Todo, CadaUnoEnSuLugar, UnLugar
<1>9. \A x \in Lugares : EnLugar(x, g) => x = "io"
  BY <1>2 DEF Todo, CadaUnoEnSuLugar, UnLugar
<1>10. ExecEsLaCpu'
  <2>1. HandlerLoSaca'
    BY <1>1, ExecEsUno DEF Todo, CadaUnoEnSuLugar, ExecEsLaCpu, HandlerLoSaca
  <2>2. \A h \in Hilos : /\ EnLugar("camino", h)' <=> EnLugar("camino", h)
                         /\ EnLugar("cpu", h)' <=> EnLugar("cpu", h)
                         /\ EnLugar("desalojo", h)' <=> EnLugar("desalojo", h)
    BY <1>1 DEF EnLugar, Despedido
  <2>3. ~EnLugar("camino", g) /\ ~EnLugar("cpu", g)
    BY <1>9 DEF Lugares
  <2>4. \A h \in Hilos : Muere(h)' <=> Muere(h)
    BY <1>1 DEF Muere
  <2> QED
    BY <1>1, <2>1, <2>2, <2>3, <2>4, ExecSigue DEF DelLadoDeLaCpu
<1> QED
  BY <1>1, <1>8, <1>10, DeQuienEsQuieto DEF CadaUnoEnSuLugar

\* The steps that change neither lists nor channels: pcp's waits, the timer,
\* memoria, and the CPU when memoria hands it a context.
LEMMA LugaresSinCambio ==
  Todo /\ (\/ PcpDespierta \/ PcpMira \/ TemporizadorVence
           \/ TemporizadorViejoVence \/ Abrazo \/ BusquedasCruzadas
           \/ (\E h \in Hilos : MemoriaCreaHilo(h)) \/ MemoriaNoEncuentra \/ UNCHANGED vars)
    => CadaUnoEnSuLugar'
BY LugaresQuietos
   DEF PcpDespierta, PcpMira, TemporizadorVence, TemporizadorViejoVence, Abrazo, BusquedasCruzadas,
       MemoriaCreaHilo, MemoriaNoEncuentra, vars, cpuVars

\* A step that leaves the lists of threads and the handler alone, and the places
\* as they were.
LEMMA LugaresIguales ==
  ASSUME Todo, UNCHANGED <<listasVars, kd, cpuHilo>>,
         SinRepetir(dispKC'), SinRepetir(intCK'), DeQuienEs',
         \A h \in Hilos, x \in Lugares : EnLugar(x, h)' => EnLugar(x, h),
         \A h \in Hilos : DelLadoDeLaCpu(h) => DelLadoDeLaCpu(h)'
  PROVE  CadaUnoEnSuLugar'
<1>1. UNCHANGED <<listaNew, pcbs, ready, exec, estado, espera, kd, cpuHilo>> /\ cpuHilo \in Hilos
  BY TiposDeTodo DEF listasVars
<1>2. /\ \A h \in Hilos : Creado(h)' <=> Creado(h)
      /\ Creado(cpuHilo)'
  BY <1>1 DEF Creado, Todo, CadaUnoEnSuLugar, EnOrdenCreados
<1>3. UnLugar' /\ EnOrdenCreados'
  BY <1>1, <1>2, TiposDeTodo, NadieMueve
<1>4. ExecEsLaCpu'
  <2>1. \A h \in Hilos : Muere(h)' <=> Muere(h)
    BY <1>1 DEF Muere
  <2>2. HandlerLoSaca'
    BY <1>1 DEF Todo, CadaUnoEnSuLugar, ExecEsLaCpu, HandlerLoSaca
  <2>3. {"camino", "cpu"} \subseteq Lugares
    BY DEF Lugares
  <2> QED
    BY <1>1, <2>1, <2>2, <2>3, ExecSigue
<1> QED
  BY <1>3, <1>4 DEF CadaUnoEnSuLugar

\* The threads that wait out an IO, but its end.
LEMMA LugaresIoSigue ==
  ASSUME Todo, NEW g \in Hilos, IoToma(g) \/ IoAvisa(g)
  PROVE  CadaUnoEnSuLugar'
<1>1. /\ UNCHANGED <<listasVars, kd, dispKC, dispCK, intKC, intCK,
                     cpuHilo, cpuFase, syscallBloquea, semRetorno>>
      /\ \A h \in Hilos : io'[h] \in {"espera", "duerme"} => io[h] \in {"espera", "duerme"}
  BY TiposDeTodo DEF IoToma, IoAvisa, listasVars, canalVars, cpuVars
<1>2. \A h \in Hilos, x \in Lugares : EnLugar(x, h)' => EnLugar(x, h)
  BY <1>1 DEF EnLugar, Lugares, Despedido, listasVars
<1>3. \A h \in Hilos : DelLadoDeLaCpu(h) => DelLadoDeLaCpu(h)'
  BY <1>1 DEF DelLadoDeLaCpu, EnLugar, Despedido
<1> QED
  BY <1>1, <1>2, <1>3, LugaresIguales, DeQuienEsQuieto, TiposDeTodo

\* What intKC holds after an interrupt is sent or taken.
LEMMA FinEnIntKC ==
  ASSUME Todo, NEW h \in Hilos
  PROVE  EnLista(Append(intKC, Quantum(h)), Fin(0)) <=> EnLista(intKC, Fin(0))
<1>1. Quantum(h) # Fin(0) /\ Quantum(h) \in Avisos
  BY QuantumNoEsFin
<1> QED
  BY <1>1, TiposDeTodo, EnListaAgregar

\* An answer of 1 lets the thread stay.
LEMMA FinUno ==
  ASSUME Todo
  PROVE  EnLista(Append(intKC, Fin(1)), Fin(0)) <=> EnLista(intKC, Fin(0))
<1>1. Fin(1) # Fin(0) /\ Fin(1) \in Avisos
  BY QuantumNoEsFin DEF Fin
<1> QED
  BY <1>1, TiposDeTodo, EnListaAgregar

\* An interrupt asked for.
LEMMA LugaresInterrupt ==
  ASSUME Todo, GestionarInterrupt
  PROVE  CadaUnoEnSuLugar'
<1>1. /\ UNCHANGED <<listasVars, kd, io, dispKC, dispCK, intCK,
                     cpuHilo, cpuFase, syscallBloquea, semRetorno>>
      /\ intKC' = intKC \/ \E h \in Hilos : intKC' = Append(intKC, Quantum(h))
  BY TiposDeTodo DEF GestionarInterrupt, listasVars, hilosVars, cpuVars
<1>2. EnLista(intKC', Fin(0)) <=> EnLista(intKC, Fin(0))
  BY <1>1, FinEnIntKC
<1>3. \A h \in Hilos, x \in Lugares : EnLugar(x, h)' => EnLugar(x, h)
  BY <1>1, <1>2 DEF EnLugar, Lugares, Despedido, listasVars
<1>4. \A h \in Hilos : DelLadoDeLaCpu(h) => DelLadoDeLaCpu(h)'
  BY <1>1, <1>2 DEF DelLadoDeLaCpu, EnLugar, Despedido
<1> QED
  BY <1>1, <1>3, <1>4, LugaresIguales, DeQuienEsQuieto, TiposDeTodo

\* The CPU's interrupt thread: an answer of 0 that leaves the channel is
\* remembered in syscallBloquea.
LEMMA AvisoRecordado ==
  ASSUME Todo, CpuAvisos
  PROVE  (Despedido' <=> Despedido) /\ DeQuienEs'
<1>1. /\ UNCHANGED <<kd, dispCK, cpuHilo>>
      /\ intKC # <<>> /\ intKC' = Tail(intKC)
  BY DEF CpuAvisos, CpuRespuesta, CpuInterrupcion, hilosVars
<1>2. /\ Head(intKC) \in Avisos
      /\ \A a : EnLista(intKC, a) <=> a = Head(intKC) \/ EnLista(intKC', a)
  BY <1>1, TiposDeTodo, EnListaSacarPrimero
<1>3. CASE CpuInterrupcion
  <2>1. Head(intKC) # Fin(0) /\ UNCHANGED <<syscallBloquea, semRetorno>>
    BY <1>3 DEF CpuInterrupcion, Fin
  <2> QED
    BY <1>1, <1>2, <2>1, DeQuienEsQuieto DEF Despedido
<1>4. CASE CpuRespuesta
  <2>1. /\ Head(intKC).tipo = "FIN" /\ syscallBloquea' = (Head(intKC).rta = 0)
        /\ semRetorno' = semRetorno + 1
    BY <1>4 DEF CpuRespuesta
  <2>2. Head(intKC) \in Fines
    BY <1>2, <2>1, QuantumNoEsFin
  <2>3. ~Ninguno(intKC, Fines) /\ Ninguno(intKC', Fines)
    BY <1>1, <2>2, TiposDeTodo, SacarPrimero DEF Todo, Conversacion, UnaFichaSola
  <2>4. ~EnLista(intKC', Fin(0))
    BY <2>3, QuantumNoEsFin DEF Ninguno, EnLista
  <2>5. semRetorno = 0 /\ ~syscallBloquea
    BY <2>3 DEF Todo, Conversacion, UnaFichaSola, CadaUnoEnSuLugar, DeQuienEs
  <2>6. Head(intKC) = Fin(0) <=> Head(intKC).rta = 0
    BY <2>2 DEF Fin, Fines
  <2>7. Despedido' <=> Despedido
    BY <1>2, <2>1, <2>4, <2>5, <2>6 DEF Despedido
  <2>8. DeQuienEs'
    BY <1>1, <2>1, <2>5 DEF Todo, CadaUnoEnSuLugar, DeQuienEs, DebeRespuesta
  <2> QED
    BY <2>7, <2>8
<1> QED
  BY <1>3, <1>4 DEF CpuAvisos

LEMMA LugaresAvisos ==
  ASSUME Todo, CpuAvisos
  PROVE  CadaUnoEnSuLugar'
<1>1. UNCHANGED <<listasVars, kd, io, dispKC, dispCK, intCK, cpuHilo, cpuFase>>
  BY DEF CpuAvisos, CpuRespuesta, CpuInterrupcion, listasVars, hilosVars
<1>2. (Despedido' <=> Despedido) /\ DeQuienEs'
  BY AvisoRecordado
<1>3. \A h \in Hilos, x \in Lugares : EnLugar(x, h)' => EnLugar(x, h)
  BY <1>1, <1>2 DEF EnLugar, Lugares, listasVars
<1>4. \A h \in Hilos : DelLadoDeLaCpu(h) => DelLadoDeLaCpu(h)'
  BY <1>1, <1>2 DEF DelLadoDeLaCpu, EnLugar
<1> QED
  BY <1>1, <1>2, <1>3, <1>4, LugaresIguales, TiposDeTodo

\* The CPU is told to leave a thread only while it waits for an answer.
LEMMA SoloEnRetorno ==
  ASSUME Todo, cpuFase # "retorno"
  PROVE  ~Despedido /\ semRetorno = 0
<1>1. Ninguno(intKC, Fines) /\ semRetorno = 0
  BY DEF Todo, Conversacion, UnaFichaSola, EsperaSuRespuesta
<1>2. ~EnLista(intKC, Fin(0))
  BY <1>1, QuantumNoEsFin DEF Ninguno, EnLista
<1>3. ~syscallBloquea
  BY <1>1 DEF Todo, CadaUnoEnSuLugar, DeQuienEs
<1> QED
  BY <1>1, <1>2, <1>3 DEF Despedido

\* Out of a syscall, nothing of one is pending.
LEMMA SinPedidos ==
  ASSUME Todo, cpuFase \notin {"retorno", "error"} \/ semRetorno > 0
  PROVE  /\ \A i \in 1..Len(dispCK) : dispCK[i] \notin Mensajes
         /\ ~DebeRespuesta /\ kd.paso \notin {"finHilo", "colgado"}
<1>1. /\ \A i \in 1..Len(dispCK) : dispCK[i] \notin Mensajes
      /\ ~DebeRespuesta
  BY DEF Todo, Conversacion, UnaFichaSola, EsperaSuRespuesta, Ninguno
<1>2. kd.paso = "finHilo" => kd.op # "DUMP_MEMORY"
  BY DEF Todo, Conversacion, PasosDelHandler
<1>3. kd.paso = "colgado" => kd.op # "DUMP_MEMORY"
  BY DEF Todo, CadaUnoEnSuLugar, DeQuienEs
<1> QED
  BY <1>1, <1>2, <1>3 DEF DebeRespuesta

\* The CPU takes the thread that was on its way.
LEMMA LugaresRecibe ==
  ASSUME Todo, CpuRecibe
  PROVE  CadaUnoEnSuLugar'
<1>1. PICK g \in Hilos : g = Head(dispKC)
  BY TiposDeTodo DEF CpuRecibe
<1>2. /\ cpuFase = "libre" /\ dispKC # <<>>
      /\ cpuHilo' = g /\ dispKC' = Tail(dispKC) /\ cpuFase' = "contexto"
      /\ UNCHANGED <<listaNew, pcbs, ready, exec, estado, espera, kd, io, dispCK, intKC, intCK,
                     syscallBloquea, semRetorno>>
  BY <1>1 DEF CpuRecibe, listasVars, hilosVars
<1>3. /\ SinRepetir(dispKC') /\ ~EnLista(dispKC', g)
      /\ \A h : EnLista(dispKC, h) <=> h = g \/ EnLista(dispKC', h)
  BY <1>1, <1>2, TiposDeTodo, EnListaSacarPrimero
<1>4. ~Despedido /\ ~Despedido' /\ semRetorno = 0
  BY <1>2, SoloEnRetorno DEF Despedido
<1>5. /\ EnLugar("camino", g) /\ "camino" \in Lugares \ {"new"} /\ "cpu" \in Lugares \ {"new"}
  BY <1>3 DEF EnLugar, Lugares
<1>6. \A h \in Hilos, x \in Lugares : EnLugar(x, h)' =>
        \/ h = g /\ x = "cpu"
        \/ EnLugar(x, h) /\ ~(h = g /\ x = "camino")
  BY <1>2, <1>3 DEF EnLugar, Lugares
<1>7. \A h \in Hilos : Creado(h)' <=> Creado(h)
  BY <1>2 DEF Creado
<1>8. Creado(cpuHilo)'
  BY <1>2, <1>5 DEF Todo, CadaUnoEnSuLugar, EnOrdenCreados, Creado
<1>9. UnLugar' /\ EnOrdenCreados'
  <2>1. listaNew' = listaNew /\ SinRepetir(ready') /\ SinRepetir(dispKC') /\ SinRepetir(intCK')
    BY <1>2, <1>3, TiposDeTodo
  <2> QED
    BY <1>5, <1>6, <1>7, <1>8, <2>1, UnoMueve
<1>10. DeQuienEs'
  BY <1>2, <1>4, SinPedidos DEF DeQuienEs, DebeRespuesta, Todo, CadaUnoEnSuLugar
<1>11. ExecEsLaCpu'
  <2>1. \A h \in Hilos : Muere(h)' <=> Muere(h)
    BY <1>2 DEF Muere
  <2>2. HandlerLoSaca'
    BY <1>2 DEF Todo, CadaUnoEnSuLugar, ExecEsLaCpu, HandlerLoSaca
  <2>3. \A h \in Hilos : EnLugar("camino", h)' => EnLugar("camino", h)
    BY <1>3 DEF EnLugar
  <2>4. EnLugar("cpu", g)'
    BY <1>2, <1>4 DEF EnLugar
  <2>5. \A h \in Hilos : DelLadoDeLaCpu(h) => DelLadoDeLaCpu(h)'
    <3>1. \A h \in Hilos : EnLugar("camino", h) => h = g \/ EnLugar("camino", h)'
      BY <1>3 DEF EnLugar
    <3>2. \A h \in Hilos : /\ ~EnLugar("cpu", h)
                           /\ EnLugar("desalojo", h) => EnLugar("desalojo", h)'
      BY <1>2 DEF EnLugar
    <3> QED
      BY <2>4, <3>1, <3>2 DEF DelLadoDeLaCpu
  <2>6. \A h \in Hilos : EnExecOMuere(h) => EnExecOMuere(h)'
    BY <1>2, <2>1 DEF EnExecOMuere
  <2>7. EnExecOMuere(g)
    BY <1>5 DEF Todo, CadaUnoEnSuLugar, ExecEsLaCpu
  <2>8. EnExecOMuere(cpuHilo)'
    BY <1>2, <2>6, <2>7 DEF EnExecOMuere, Muere
  <2> QED
    BY <1>2, <2>2, <2>3, <2>5, <2>6, <2>8 DEF Todo, CadaUnoEnSuLugar, ExecEsLaCpu
<1> QED
  BY <1>9, <1>10, <1>11 DEF CadaUnoEnSuLugar

\* The CPU evicts its thread: it goes to the kernel as an interrupt's answer.
LEMMA LugaresEvicta ==
  ASSUME Todo, cpuFase \in {"ejecuta", "retorno"}, ~Despedido,
         cpuFase = "ejecuta" \/ semRetorno > 0,
         DesalojarPorQuantum, semRetorno' = 0,
         UNCHANGED <<listasVars, kd, io, dispKC, dispCK, intKC, cpuHilo>>
  PROVE  CadaUnoEnSuLugar'
<1>1. /\ intCK' = Append(intCK, cpuHilo) /\ cpuFase' = "libre" /\ syscallBloquea' = FALSE
      /\ UNCHANGED <<listaNew, pcbs, ready, exec, estado, espera>>
      /\ cpuHilo \in Hilos
  BY TiposDeTodo DEF DesalojarPorQuantum, listasVars
<1>2. /\ EnLugar("cpu", cpuHilo) /\ "desalojo" \in Lugares \ {"new"} /\ "cpu" \in Lugares \ {"new"}
  BY DEF EnLugar, Lugares
<1>3. ~EnLista(intCK, cpuHilo)
  <2>1. ~EnLugar("desalojo", cpuHilo)
    BY <1>1, <1>2 DEF Todo, CadaUnoEnSuLugar, UnLugar
  <2> QED
    BY <2>1 DEF EnLugar
<1>4. /\ SinRepetir(intCK')
      /\ \A h : EnLista(intCK', h) <=> EnLista(intCK, h) \/ h = cpuHilo
  BY <1>1, <1>3, TiposDeTodo, EnListaAgregar
<1>5. \A h \in Hilos, x \in Lugares : EnLugar(x, h)' =>
        \/ h = cpuHilo /\ x = "desalojo"
        \/ EnLugar(x, h) /\ ~(h = cpuHilo /\ x = "cpu")
  BY <1>1, <1>4 DEF EnLugar, Lugares
<1>6. \A h \in Hilos : Creado(h)' <=> Creado(h)
  BY <1>1 DEF Creado
<1>7. Creado(cpuHilo)'
  BY <1>1 DEF Todo, CadaUnoEnSuLugar, EnOrdenCreados, Creado
<1>8. UnLugar' /\ EnOrdenCreados'
  <2>1. listaNew' = listaNew /\ SinRepetir(ready') /\ SinRepetir(dispKC') /\ SinRepetir(intCK')
    BY <1>1, <1>4, TiposDeTodo
  <2>2. cpuHilo \in Hilos
    BY <1>1
  <2> QED
    BY <1>2, <1>5, <1>6, <1>7, <2>1, <2>2, UnoMueve
<1>9. DeQuienEs'
  BY <1>1, SinPedidos DEF DeQuienEs, DebeRespuesta
<1>10. ExecEsLaCpu'
  <2>1. \A h \in Hilos : Muere(h)' <=> Muere(h)
    BY <1>1 DEF Muere
  <2>2. HandlerLoSaca'
    BY <1>1 DEF Todo, CadaUnoEnSuLugar, ExecEsLaCpu, HandlerLoSaca
  <2>3. \A h \in Hilos : /\ EnLugar("camino", h)' <=> EnLugar("camino", h)
                         /\ ~EnLugar("cpu", h)'
                         /\ EnLugar("desalojo", h)' <=> EnLugar("desalojo", h) \/ h = cpuHilo
                         /\ EnLugar("cpu", h) => h = cpuHilo
    BY <1>1, <1>4 DEF EnLugar
  <2>4. \A h \in Hilos : DelLadoDeLaCpu(h) => DelLadoDeLaCpu(h)'
    BY <2>3 DEF DelLadoDeLaCpu
  <2> QED
    BY <1>1, <2>1, <2>2, <2>3, <2>4, ExecSigue
<1> QED
  BY <1>8, <1>9, <1>10 DEF CadaUnoEnSuLugar

\* The CPU's main thread goes on with the same thread, asks something or not.
LEMMA LugaresCpuSigue ==
  ASSUME Todo, cpuFase # "libre", cpuFase' # "libre",
         UNCHANGED <<listasVars, kd, io, dispKC, intKC, intCK, cpuHilo, syscallBloquea>>,
         \/ dispCK' = dispCK
         \/ \E o \in TodasLasOps : dispCK' = Append(dispCK, Pedido(cpuHilo, o)),
         syscallBloquea => semRetorno' = 1
  PROVE  CadaUnoEnSuLugar'
<1>1. Despedido' <=> Despedido
  BY DEF Despedido
<1>2. DeQuienEs'
  <2>1. \A i \in 1..Len(dispCK') : dispCK'[i] \in Mensajes => dispCK'[i].hilo = cpuHilo
    <3>1. CASE dispCK' = dispCK
      BY <3>1 DEF Todo, CadaUnoEnSuLugar, DeQuienEs
    <3>2. ASSUME NEW o \in TodasLasOps, dispCK' = Append(dispCK, Pedido(cpuHilo, o)),
                 NEW i \in 1..Len(dispCK'), dispCK'[i] \in Mensajes
          PROVE  dispCK'[i].hilo = cpuHilo
      <4>1. \/ dispCK'[i] = Pedido(cpuHilo, o)
            \/ i \in 1..Len(dispCK) /\ dispCK'[i] = dispCK[i]
        <5>1. dispCK \in Seq(Mensajes \cup {Desalojo}) /\ Pedido(cpuHilo, o) \in Mensajes
          BY TiposDeTodo DEF Pedido, Mensajes
        <5> QED
          BY <3>2, <5>1, AgregarForma
      <4>2. Pedido(cpuHilo, o).hilo = cpuHilo
        BY DEF Pedido
      <4> QED
        BY <3>2, <4>1, <4>2 DEF Todo, CadaUnoEnSuLugar, DeQuienEs
    <3> QED
      BY <3>1, <3>2
  <2> QED
    BY <2>1 DEF Todo, CadaUnoEnSuLugar, DeQuienEs, DebeRespuesta
<1>3. \A h \in Hilos, x \in Lugares : EnLugar(x, h)' => EnLugar(x, h)
  BY <1>1 DEF EnLugar, Lugares, listasVars
<1>4. \A h \in Hilos : DelLadoDeLaCpu(h) => DelLadoDeLaCpu(h)'
  BY <1>1 DEF DelLadoDeLaCpu, EnLugar
<1> QED
  BY <1>2, <1>3, <1>4, LugaresIguales, TiposDeTodo

\* The CPU's thread leaves it, after a blocking answer: it had no place there.
LEMMA LugaresCpuSuelta ==
  ASSUME Todo, syscallBloquea, semRetorno > 0,
         dispCK' = Append(dispCK, Desalojo), cpuFase' = "libre", syscallBloquea' = FALSE,
         UNCHANGED <<listasVars, kd, io, dispKC, intKC, intCK, cpuHilo>>
  PROVE  CadaUnoEnSuLugar'
<1>1. DeQuienEs'
  <2>1. \A i \in 1..Len(dispCK') : dispCK'[i] \notin Mensajes
    <3>1. \A i \in 1..Len(dispCK') :
            \/ dispCK'[i] = Desalojo
            \/ i \in 1..Len(dispCK) /\ dispCK'[i] = dispCK[i]
      <4>1. dispCK \in Seq(Mensajes \cup {Desalojo}) /\ Desalojo \in Mensajes \cup {Desalojo}
        BY TiposDeTodo
      <4> QED
        BY <4>1, AgregarForma
    <3> QED
      BY <3>1, SinPedidos, DesalojoNoEsPedido
  <2> QED
    BY <2>1, SinPedidos DEF DeQuienEs, DebeRespuesta
<1>2. \A h \in Hilos, x \in Lugares : EnLugar(x, h)' => EnLugar(x, h)
  BY DEF EnLugar, Lugares, listasVars
<1>3. \A h \in Hilos : DelLadoDeLaCpu(h) => DelLadoDeLaCpu(h)'
  BY DEF DelLadoDeLaCpu, EnLugar, Despedido
<1> QED
  BY <1>1, <1>2, <1>3, LugaresIguales, TiposDeTodo

\* The CPU's main thread.
LEMMA LugaresCpu ==
  ASSUME Todo, PasoCpu \/ \E o \in Syscalls : CpuSyscall(o) \/ CpuError(o)
  PROVE  CadaUnoEnSuLugar'
<1>1. CASE CpuRecibe
  BY <1>1, LugaresRecibe
<1>2. CASE CpuContexto
  <2>1. /\ cpuFase # "libre" /\ cpuFase' # "libre"
        /\ UNCHANGED <<listasVars, kd, io, dispKC, intKC, intCK, cpuHilo, syscallBloquea,
                       dispCK, semRetorno>>
    BY <1>2 DEF CpuContexto, hilosVars, canalVars
  <2>2. syscallBloquea => semRetorno' = 1
    BY <2>1 DEF Todo, CadaUnoEnSuLugar, DeQuienEs
  <2> QED
    BY <2>1, <2>2, LugaresCpuSigue
<1>3. CASE CpuInstruccion
  <2>1. /\ cpuFase = "ejecuta" /\ DesalojarPorQuantum
        /\ UNCHANGED <<listasVars, kd, io, dispKC, dispCK, intKC, cpuHilo, semRetorno>>
    BY <1>3 DEF CpuInstruccion, hilosVars
  <2>2. ~Despedido /\ semRetorno = 0
    BY <2>1, SoloEnRetorno
  <2> QED
    BY <2>1, <2>2, LugaresEvicta
<1>4. ASSUME NEW o \in Syscalls, CpuSyscall(o)  PROVE CadaUnoEnSuLugar'
  <2>1. /\ cpuFase # "libre" /\ cpuFase' # "libre"
        /\ UNCHANGED <<listasVars, kd, io, dispKC, intKC, intCK, cpuHilo, syscallBloquea,
                       semRetorno>>
        /\ dispCK' = Append(dispCK, Pedido(cpuHilo, o)) /\ o \in TodasLasOps
    BY <1>4, ConstantesOK DEF CpuSyscall, hilosVars
  <2>2. syscallBloquea => semRetorno' = 1
    BY <2>1 DEF Todo, CadaUnoEnSuLugar, DeQuienEs
  <2> QED
    BY <2>1, <2>2, LugaresCpuSigue
<1>5. ASSUME NEW o \in Syscalls, CpuError(o)  PROVE CadaUnoEnSuLugar'
  <2>1. /\ cpuFase = "ejecuta" /\ o \in TodasLasOps
        /\ UNCHANGED <<listasVars, kd, io, dispKC, intKC, cpuHilo, semRetorno>>
        /\ \/ DesalojarPorQuantum /\ UNCHANGED dispCK
           \/ /\ dispCK' = Append(dispCK, Pedido(cpuHilo, o))
              /\ cpuFase' = "error"
              /\ UNCHANGED <<intCK, interruptFlag, syscallBloquea>>
    BY <1>5, ConstantesOK DEF CpuError, hilosVars
  <2>2. ~Despedido /\ semRetorno = 0
    BY <2>1, SoloEnRetorno
  <2>3. syscallBloquea => semRetorno' = 1
    BY <2>1 DEF Todo, CadaUnoEnSuLugar, DeQuienEs
  <2> QED
    BY <2>1, <2>2, <2>3, LugaresCpuSigue, LugaresEvicta
<1>6. CASE CpuRetorna
  <2>1. /\ cpuFase \in {"retorno", "error"} /\ semRetorno > 0 /\ semRetorno' = semRetorno - 1
        /\ UNCHANGED <<listasVars, kd, io, dispKC, intKC, cpuHilo>>
    BY <1>6 DEF CpuRetorna, hilosVars
  <2>2. semRetorno = 1 /\ semRetorno' = 0 /\ Ninguno(intKC, Fines) /\ cpuFase = "retorno"
    BY <2>1 DEF Todo, Conversacion, UnaFichaSola, EsperaSuRespuesta
  <2>3. ~EnLista(intKC, Fin(0))
    BY <2>2, QuantumNoEsFin DEF Ninguno, EnLista
  <2>4. CASE syscallBloquea
    <3>1. /\ dispCK' = Append(dispCK, Desalojo) /\ cpuFase' = "libre"
          /\ syscallBloquea' = FALSE /\ UNCHANGED intCK
      BY <1>6, <2>4 DEF CpuRetorna
    <3> QED
      BY <2>1, <2>4, <3>1, LugaresCpuSuelta
  <2>5. CASE ~syscallBloquea
    <3>1. ~Despedido
      BY <2>3, <2>5 DEF Despedido
    <3>2. \/ DesalojarPorQuantum /\ UNCHANGED dispCK
          \/ cpuFase' = "ejecuta" /\ UNCHANGED <<dispCK, intCK, interruptFlag, syscallBloquea>>
      BY <1>6, <2>5 DEF CpuRetorna
    <3> QED
      BY <2>1, <2>2, <2>5, <3>1, <3>2, LugaresEvicta, LugaresCpuSigue
  <2> QED
    BY <2>4, <2>5
<1> QED
  BY <1>1, <1>2, <1>3, <1>4, <1>5, <1>6 DEF PasoCpu

\* An eviction arrives: the thread goes from EXEC to the end of READY.
LEMMA LugaresDesalojo ==
  ASSUME Todo, AtenderDesalojoQuantum
  PROVE  CadaUnoEnSuLugar'
<1>0. PICK g \in Hilos : g = Head(intCK)
  BY TiposDeTodo DEF AtenderDesalojoQuantum
<1>1. /\ intCK # <<>> /\ intCK' = Tail(intCK)
      /\ exec' = Quitar(exec, g)
      /\ ready' = Append(Quitar(ready, g), g)
      /\ estado' = [estado EXCEPT ![g] = "READY"]
      /\ UNCHANGED <<listaNew, pcbs, espera, kd, io, dispKC, dispCK, intKC,
                     cpuHilo, cpuFase, syscallBloquea, semRetorno>>
  BY <1>0 DEF AtenderDesalojoQuantum, hilosVars, cpuVars
<1>2. /\ SinRepetir(intCK') /\ ~EnLista(intCK', g)
      /\ \A h : EnLista(intCK, h) <=> h = g \/ EnLista(intCK', h)
  BY <1>0, <1>1, TiposDeTodo, EnListaSacarPrimero
<1>3. /\ EnLugar("desalojo", g) /\ "desalojo" \in Lugares \ {"new"} /\ "ready" \in Lugares \ {"new"}
  BY <1>2 DEF EnLugar, Lugares
<1>4. Creado(g)
  BY <1>3 DEF Todo, CadaUnoEnSuLugar, EnOrdenCreados
<1>5. \A h \in Hilos : Creado(h)' <=> Creado(h)
  BY <1>1, <1>4, TiposDeTodo DEF Creado
<1>6. Creado(cpuHilo)'
  BY <1>1, <1>5, TiposDeTodo DEF Todo, CadaUnoEnSuLugar, EnOrdenCreados, Creado
<1>7. /\ SinRepetir(ready')
      /\ \A h : EnLista(ready', h) <=> EnLista(ready, h) \/ h = g
  <2> DEFINE q == Quitar(ready, g)
  <2>1. /\ q \in Seq(Hilos) /\ SinRepetir(q)
        /\ \A h : EnLista(q, h) <=> EnLista(ready, h) /\ h # g
    BY TiposDeTodo, EnListaQuitar
  <2>2. ready' = Append(q, g)
    BY <1>1
  <2> HIDE DEF q
  <2> QED
    BY <2>1, <2>2, EnListaAgregar
<1>8. \A h \in Hilos, x \in Lugares : EnLugar(x, h)' =>
        \/ h = g /\ x = "ready"
        \/ EnLugar(x, h) /\ ~(h = g /\ x = "desalojo")
  BY <1>1, <1>2, <1>7 DEF EnLugar, Lugares, Despedido
<1>9. UnLugar' /\ EnOrdenCreados'
  BY <1>1, <1>2, <1>3, <1>5, <1>6, <1>7, <1>8, TiposDeTodo, UnoMueve, SMTT(30)
<1>10. ExecEsLaCpu'
  <2>1. HandlerLoSaca'
    BY <1>1, ExecEsUno DEF Todo, CadaUnoEnSuLugar, ExecEsLaCpu, HandlerLoSaca
  <2>2. \A h \in Hilos : /\ EnLugar("camino", h)' <=> EnLugar("camino", h)
                         /\ EnLugar("cpu", h)' <=> EnLugar("cpu", h)
                         /\ EnLugar("desalojo", h) => h = g \/ EnLugar("desalojo", h)'
    BY <1>1, <1>2 DEF EnLugar, Despedido
  <2>3. ~EnLugar("camino", g) /\ ~EnLugar("cpu", g)
    BY <1>3 DEF Lugares, Todo, CadaUnoEnSuLugar, UnLugar
  <2>4. \A h \in Hilos : Muere(h)' <=> Muere(h)
    BY <1>1 DEF Muere
  <2>5. ~EnLista(exec', g)
    BY <1>1, ExecEsUno
  <2>6. \A h \in Hilos : EnLista(exec', h) /\ DelLadoDeLaCpu(h) => DelLadoDeLaCpu(h)'
    BY <2>2, <2>5 DEF DelLadoDeLaCpu
  <2> QED
    BY <1>1, <2>1, <2>2, <2>3, <2>4, <2>6, ExecSigue
<1> QED
  BY <1>1, <1>9, <1>10, DeQuienEsQuieto DEF CadaUnoEnSuLugar

\* What the handler that takes a request knows: it is of the thread on the CPU,
\* which waits, and nothing else is pending.
LEMMA AlAtender ==
  ASSUME Todo, NEW m \in Mensajes, Atiende(m)
  PROVE  /\ m.hilo = cpuHilo /\ m.hilo \in Hilos /\ m.op \in TodasLasOps
         /\ kd.paso = "recibe" /\ cpuFase # "libre" /\ semRetorno = 0
         /\ ~EnLista(intKC, Fin(0)) /\ ~syscallBloquea
         /\ \A i \in 1..Len(dispCK') : dispCK'[i] \notin Mensajes
         /\ EnLugar("cpu", m.hilo) /\ Creado(m.hilo) /\ EnExecOMuere(m.hilo)
<1>1. /\ dispCK # <<>> /\ m = Head(dispCK) /\ dispCK \in Seq(Mensajes \cup {Desalojo})
  BY TiposDeTodo DEF Atiende
<1>2. m = dispCK[1] /\ 1 \in 1..Len(dispCK)
  BY <1>1
<1>3. m.hilo = cpuHilo
  BY <1>2 DEF Todo, CadaUnoEnSuLugar, DeQuienEs
<1>4. m.hilo \in Hilos /\ m.op \in TodasLasOps
  BY DEF Mensajes
<1>5. /\ Ninguno(dispCK', Mensajes) /\ Ninguno(intKC, Fines) /\ semRetorno = 0
      /\ cpuFase \in {"retorno", "error"} /\ kd.paso = "recibe"
  BY PedidoTomado DEF Todo
<1>6. ~EnLista(intKC, Fin(0))
  BY <1>5, QuantumNoEsFin DEF Ninguno, EnLista
<1>7. ~syscallBloquea
  BY <1>5 DEF Todo, CadaUnoEnSuLugar, DeQuienEs
<1>8. EnLugar("cpu", m.hilo)
  BY <1>3, <1>5, <1>6, <1>7 DEF EnLugar, Despedido
<1>9. Creado(m.hilo)
  BY <1>3 DEF Todo, CadaUnoEnSuLugar, EnOrdenCreados
<1>10. EnExecOMuere(m.hilo)
  BY <1>3, <1>5, <1>8 DEF Todo, CadaUnoEnSuLugar, ExecEsLaCpu
<1> QED
  BY <1>3, <1>4, <1>5, <1>6, <1>7, <1>8, <1>9, <1>10 DEF Ninguno

\* The syscall in course is still of the thread on the CPU.
LEMMA DeQuienEsAtendido ==
  ASSUME Todo, NEW m \in Mensajes, Atiende(m),
         UNCHANGED <<cpuHilo, syscallBloquea, semRetorno>>,
         \/ kd' = kd
         \/ \E paso \in Pasos : Sigue(paso, m) /\ (paso = "colgado" => m.op # "DUMP_MEMORY")
  PROVE  DeQuienEs'
<1>1. /\ m.hilo = cpuHilo /\ \A i \in 1..Len(dispCK') : dispCK'[i] \notin Mensajes
  BY AlAtender
<1>2. CASE kd' = kd
  BY <1>1, <1>2 DEF Todo, CadaUnoEnSuLugar, DeQuienEs, DebeRespuesta
<1>3. ASSUME NEW paso \in Pasos, Sigue(paso, m), paso = "colgado" => m.op # "DUMP_MEMORY"
      PROVE  DeQuienEs'
  <2>1. kd'.paso = paso /\ kd'.op = m.op /\ kd'.hilo = m.hilo
    BY <1>3 DEF Sigue
  <2> QED
    BY <1>1, <1>3, <2>1 DEF Todo, CadaUnoEnSuLugar, DeQuienEs
<1> QED
  BY <1>2, <1>3

\* With no handler in the middle of taking a thread out, nothing is promised.
LEMMA NadieLoSaca ==
  kd.paso \notin {"finHilo", "saca", "finProceso", "plp"} => HandlerLoSaca
BY DEF HandlerLoSaca

\* The handlers that answer 1, or none, and move no thread.
LEMMA LugaresSeguir ==
  ASSUME Todo, NEW m \in Mensajes, AtenderYSeguir(m) \/ AtenderYCaer(m)
  PROVE  CadaUnoEnSuLugar'
<1>1. /\ Atiende(m)
      /\ UNCHANGED <<listasVars, kd, io, dispKC, intCK, cpuHilo, cpuFase, syscallBloquea, semRetorno>>
      /\ intKC' = intKC \/ intKC' = Append(intKC, Fin(1))
  BY DEF AtenderYSeguir, AtenderYCaer, Responde, hilosVars, cpuVars
<1>2. EnLista(intKC', Fin(0)) <=> EnLista(intKC, Fin(0))
  BY <1>1, FinUno
<1>3. \A h \in Hilos, x \in Lugares : EnLugar(x, h)' => EnLugar(x, h)
  BY <1>1, <1>2 DEF EnLugar, Lugares, Despedido, listasVars
<1>4. \A h \in Hilos : DelLadoDeLaCpu(h) => DelLadoDeLaCpu(h)'
  BY <1>1, <1>2 DEF DelLadoDeLaCpu, EnLugar, Despedido
<1>5. DeQuienEs'
  BY <1>1, DeQuienEsAtendido
<1> QED
  BY <1>1, <1>3, <1>4, <1>5, LugaresIguales, TiposDeTodo

\* The eviction after a blocking answer reaches the kernel.
LEMMA LugaresDesalojoSyscall ==
  ASSUME Todo, AtenderDesalojoSyscall
  PROVE  CadaUnoEnSuLugar'
<1>1. /\ dispCK # <<>> /\ dispCK' = Tail(dispCK)
      /\ UNCHANGED <<listasVars, kd, io, dispKC, intKC, intCK, cpuHilo, cpuFase, syscallBloquea,
                     semRetorno>>
  BY DEF AtenderDesalojoSyscall, Atiende, hilosVars, cpuVars
<1>2. \A i \in 1..Len(dispCK') : i + 1 \in 1..Len(dispCK) /\ dispCK'[i] = dispCK[i + 1]
  BY <1>1, TiposDeTodo, ColaForma
<1>3. DeQuienEs'
  BY <1>1, <1>2 DEF Todo, CadaUnoEnSuLugar, DeQuienEs, DebeRespuesta
<1>4. \A h \in Hilos, x \in Lugares : EnLugar(x, h)' => EnLugar(x, h)
  BY <1>1 DEF EnLugar, Lugares, Despedido, listasVars
<1>5. \A h \in Hilos : DelLadoDeLaCpu(h) => DelLadoDeLaCpu(h)'
  BY <1>1 DEF DelLadoDeLaCpu, EnLugar, Despedido
<1> QED
  BY <1>1, <1>3, <1>4, <1>5, LugaresIguales, TiposDeTodo

\* A thread whose syscall blocks it goes from the CPU to where it waits.
LEMMA LugaresBloquea ==
  ASSUME Todo, NEW m \in Mensajes, Atiende(m), NEW y \in {"espera", "io", "dump"},
         ready' = Quitar(ready, m.hilo), exec' = Quitar(exec, m.hilo),
         estado' = [estado EXCEPT ![m.hilo] = "BLOCKED"],
         Responde(0),
         UNCHANGED <<listaNew, pcbs, dispKC, intCK, cpuHilo, cpuFase, syscallBloquea, semRetorno>>,
         kd' = kd \/ Sigue("dump", m),
         \A h \in Hilos, x \in {"espera", "io", "dump"} :
           EnLugar(x, h)' => (h = m.hilo /\ x = y) \/ EnLugar(x, h)
  PROVE  CadaUnoEnSuLugar'
<1>1. /\ m.hilo = cpuHilo /\ m.hilo \in Hilos /\ kd.paso = "recibe"
      /\ EnLugar("cpu", m.hilo) /\ Creado(m.hilo)
  BY AlAtender
<1>2. kd'.paso \in {"recibe", "dump"}
  BY <1>1 DEF Sigue
<1>3. Despedido'
  <2>1. intKC \in Seq(Avisos) /\ Fin(0) \in Avisos /\ intKC' = Append(intKC, Fin(0))
    BY TiposDeTodo, QuantumNoEsFin DEF Responde
  <2>2. EnLista(intKC', Fin(0))
    BY <2>1, EnListaAgregar
  <2> QED
    BY <2>2 DEF Despedido
<1>4. y \in Lugares \ {"new"} /\ "cpu" \in Lugares \ {"new"}
  BY DEF Lugares
<1>5. \A h \in Hilos : Creado(h)' <=> Creado(h)
  BY <1>1, TiposDeTodo DEF Creado
<1>6. Creado(cpuHilo)'
  BY <1>1, TiposDeTodo DEF Creado
<1>7. /\ SinRepetir(ready')
      /\ \A h : EnLista(ready', h) => EnLista(ready, h)
  BY TiposDeTodo, EnListaQuitar
<1>8. \A h \in Hilos, x \in Lugares : EnLugar(x, h)' =>
        \/ h = m.hilo /\ x = y
        \/ EnLugar(x, h) /\ ~(h = m.hilo /\ x = "cpu")
  BY <1>3, <1>7 DEF EnLugar, Lugares
<1>9. UnLugar' /\ EnOrdenCreados'
  <2>1. listaNew' = listaNew /\ SinRepetir(ready') /\ SinRepetir(dispKC') /\ SinRepetir(intCK')
    BY <1>7, TiposDeTodo
  <2> QED
    BY <1>1, <1>4, <1>5, <1>6, <1>8, <2>1, UnoMueve
<1>10. DeQuienEs'
  BY DeQuienEsAtendido DEF Pasos
<1>11. ExecEsLaCpu'
  <2>1. HandlerLoSaca'
    BY <1>2 DEF HandlerLoSaca
  <2>2. \A h \in Hilos : /\ EnLugar("camino", h)' <=> EnLugar("camino", h)
                         /\ ~EnLugar("cpu", h)'
                         /\ EnLugar("desalojo", h)' <=> EnLugar("desalojo", h)
    BY <1>3 DEF EnLugar
  <2>3. ~EnLugar("camino", m.hilo)
    BY <1>1 DEF Lugares, Todo, CadaUnoEnSuLugar, UnLugar
  <2>4. \A h \in Hilos : Muere(h) => Muere(h)'
    BY <1>1 DEF Muere
  <2>5. ~EnLista(exec', m.hilo)
    BY ExecEsUno
  <2>6. \A h \in Hilos : EnLugar("cpu", h) => h = m.hilo
    BY <1>1 DEF EnLugar
  <2>7. \A h \in Hilos : EnLista(exec', h) /\ DelLadoDeLaCpu(h) => DelLadoDeLaCpu(h)'
    BY <2>2, <2>5, <2>6 DEF DelLadoDeLaCpu
  <2> QED
    BY <1>1, <2>1, <2>2, <2>3, <2>4, <2>7, ExecSigue
<1> QED
  BY <1>9, <1>10, <1>11 DEF CadaUnoEnSuLugar

LEMMA LugaresBloqueantes ==
  ASSUME Todo, NEW m \in Mensajes, AtenderYBloquear(m) \/ AtenderIO(m) \/ AtenderDump(m)
  PROVE  CadaUnoEnSuLugar'
<1>1. m.hilo \in Hilos /\ kd.paso = "recibe"
  <2>1. Atiende(m)
    BY DEF AtenderYBloquear, AtenderIO, AtenderDump
  <2> QED
    BY <2>1, AlAtender
<1>2. CASE AtenderYBloquear(m)
  <2>1. /\ Atiende(m)
        /\ ready' = Quitar(ready, m.hilo) /\ exec' = Quitar(exec, m.hilo)
        /\ estado' = [estado EXCEPT ![m.hilo] = "BLOCKED"]
        /\ Responde(0) /\ espera' = espera \cup {m.hilo} /\ io' = io /\ kd' = kd
        /\ UNCHANGED <<listaNew, pcbs, dispKC, intCK, cpuHilo, cpuFase, syscallBloquea, semRetorno>>
    BY <1>2 DEF AtenderYBloquear, hilosVars, cpuVars
  <2>2. \A h \in Hilos, x \in {"espera", "io", "dump"} :
          EnLugar(x, h)' => (h = m.hilo /\ x = "espera") \/ EnLugar(x, h)
    BY <2>1 DEF EnLugar
  <2> QED
    BY <2>1, <2>2, LugaresBloquea
<1>3. CASE AtenderIO(m)
  <2>1. /\ Atiende(m)
        /\ ready' = Quitar(ready, m.hilo) /\ exec' = Quitar(exec, m.hilo)
        /\ estado' = [estado EXCEPT ![m.hilo] = "BLOCKED"]
        /\ Responde(0) /\ io' = [io EXCEPT ![m.hilo] = "espera"] /\ espera' = espera /\ kd' = kd
        /\ UNCHANGED <<listaNew, pcbs, dispKC, intCK, cpuHilo, cpuFase, syscallBloquea, semRetorno>>
    BY <1>3 DEF AtenderIO, cpuVars
  <2>2. \A h \in Hilos, x \in {"espera", "io", "dump"} :
          EnLugar(x, h)' => (h = m.hilo /\ x = "io") \/ EnLugar(x, h)
    BY <2>1, TiposDeTodo DEF EnLugar
  <2> QED
    BY <2>1, <2>2, LugaresBloquea
<1>4. CASE AtenderDump(m)
  <2>1. /\ Atiende(m)
        /\ ready' = Quitar(ready, m.hilo) /\ exec' = Quitar(exec, m.hilo)
        /\ estado' = [estado EXCEPT ![m.hilo] = "BLOCKED"]
        /\ Responde(0) /\ Sigue("dump", m) /\ espera' = espera /\ io' = io
        /\ UNCHANGED <<listaNew, pcbs, dispKC, intCK, cpuHilo, cpuFase, syscallBloquea, semRetorno>>
    BY <1>4 DEF AtenderDump, cpuVars
  <2>2. \A h \in Hilos, x \in {"espera", "io", "dump"} :
          EnLugar(x, h)' => (h = m.hilo /\ x = "dump") \/ EnLugar(x, h)
    BY <2>1 DEF EnLugar, Sigue
  <2> QED
    BY <2>1, <2>2, LugaresBloquea
<1> QED
  BY <1>2, <1>3, <1>4

\* mutex_unlock readies a thread, or loses it, or hangs.
LEMMA LugaresDespertar ==
  ASSUME Todo, NEW m \in Mensajes, AtenderYDespertar(m) \/ AtenderYDespertarMal(m)
  PROVE  CadaUnoEnSuLugar'
<1>1. PICK g \in espera :
        /\ Atiende(m) /\ m.op = "MUTEX_UNLOCK"
        /\ espera' = espera \ {g}
        /\ ready' = ready \/ (ready' = Append(ready, g) /\ kd' = kd)
        /\ estado' = estado \/ estado' = [estado EXCEPT ![g] = "READY"]
        /\ intKC' = intKC \/ intKC' = Append(intKC, Fin(1))
        /\ kd' = kd \/ Sigue("colgado", m)
        /\ UNCHANGED <<listaNew, pcbs, exec, io, dispKC, intCK, cpuHilo, cpuFase, syscallBloquea,
                       semRetorno>>
  BY DEF AtenderYDespertar, AtenderYDespertarMal, Responde, hilosVars, cpuVars
<1>2. /\ g \in Hilos /\ EnLugar("espera", g) /\ kd.paso = "recibe"
  BY <1>1, TiposDeTodo, AlAtender DEF EnLugar
<1>3. "espera" \in Lugares \ {"new"} /\ "ready" \in Lugares \ {"new"}
  BY DEF Lugares
<1>4. ~EnLugar("ready", g) /\ Creado(g)
  BY <1>2, <1>3 DEF Todo, CadaUnoEnSuLugar, UnLugar, EnOrdenCreados
<1>5. \A h \in Hilos : Creado(h)' <=> Creado(h)
  BY <1>1, <1>4, TiposDeTodo DEF Creado
<1>6. Creado(cpuHilo)'
  BY <1>1, <1>5, TiposDeTodo DEF Todo, CadaUnoEnSuLugar, EnOrdenCreados, Creado
<1>7. /\ SinRepetir(ready')
      /\ \A h : EnLista(ready', h) => EnLista(ready, h) \/ h = g
  <2>1. ready \in Seq(Hilos) /\ SinRepetir(ready) /\ ~EnLista(ready, g)
    BY <1>4, TiposDeTodo DEF EnLugar
  <2>2. ready' = ready \/ ready' = Append(ready, g)
    BY <1>1
  <2>3. g \in Hilos
    BY <1>2
  <2>4. /\ SinRepetir(Append(ready, g))
        /\ \A h : EnLista(Append(ready, g), h) <=> EnLista(ready, h) \/ h = g
    BY <2>1, <2>3, EnListaAgregar
  <2>5. CASE ready' = ready
    BY <2>1, <2>5
  <2>6. CASE ready' = Append(ready, g)
    BY <2>4, <2>6
  <2> QED
    BY <2>2, <2>5, <2>6
<1>8. EnLista(intKC', Fin(0)) <=> EnLista(intKC, Fin(0))
  BY <1>1, FinUno
<1>9. kd'.paso \in {"recibe", "colgado"}
  BY <1>1, <1>2 DEF Sigue
<1>10. \A h \in Hilos, x \in Lugares : EnLugar(x, h)' =>
        \/ h = g /\ x = "ready"
        \/ EnLugar(x, h) /\ ~(h = g /\ x = "espera")
  BY <1>1, <1>7, <1>8, <1>9 DEF EnLugar, Lugares, Despedido
<1>11. UnLugar' /\ EnOrdenCreados'
  <2>1. listaNew' = listaNew /\ SinRepetir(ready') /\ SinRepetir(dispKC') /\ SinRepetir(intCK')
    BY <1>1, <1>7, TiposDeTodo
  <2> QED
    BY <1>2, <1>3, <1>5, <1>6, <1>10, <2>1, UnoMueve
<1>12. DeQuienEs'
  BY <1>1, DeQuienEsAtendido DEF Pasos
<1>13. ExecEsLaCpu'
  <2>1. HandlerLoSaca'
    BY <1>9 DEF HandlerLoSaca
  <2>2. \A h \in Hilos : /\ EnLugar("camino", h)' <=> EnLugar("camino", h)
                         /\ EnLugar("cpu", h)' <=> EnLugar("cpu", h)
                         /\ EnLugar("desalojo", h)' <=> EnLugar("desalojo", h)
    BY <1>1, <1>8 DEF EnLugar, Despedido
  <2>3. \A h \in Hilos : Muere(h) => Muere(h)'
    BY <1>1, <1>2 DEF Muere
  <2>4. \A h \in Hilos : DelLadoDeLaCpu(h) => DelLadoDeLaCpu(h)'
    BY <2>2 DEF DelLadoDeLaCpu
  <2> QED
    BY <1>1, <1>2, <2>1, <2>2, <2>3, <2>4, ExecSigue
<1> QED
  BY <1>11, <1>12, <1>13 DEF CadaUnoEnSuLugar

\* THREAD_EXIT takes the thread out of EXEC; the CPU has it until the answer.
LEMMA LugaresThreadExit ==
  ASSUME Todo, NEW m \in Mensajes, AtenderThreadExit(m)
  PROVE  CadaUnoEnSuLugar'
<1>1. /\ Atiende(m) /\ m.op \in {"THREAD_EXIT", "MUTEX_LOCK"}
      /\ ready' = Quitar(ready, m.hilo) /\ exec' = Quitar(exec, m.hilo)
      /\ Sigue("finHilo", m)
      /\ UNCHANGED <<listaNew, pcbs, estado, espera, io, dispKC, intKC, intCK, cpuHilo, cpuFase,
                     syscallBloquea, semRetorno>>
  BY DEF AtenderThreadExit, cpuVars
<1>2. /\ m.hilo = cpuHilo /\ m.hilo \in Hilos /\ kd.paso = "recibe"
      /\ EnLugar("cpu", m.hilo)
  BY <1>1, AlAtender
<1>3. kd'.paso = "finHilo" /\ kd'.hilo = m.hilo /\ kd'.op = m.op
  BY <1>1 DEF Sigue
<1>4. /\ SinRepetir(ready')
      /\ \A h : EnLista(ready', h) => EnLista(ready, h)
  BY <1>1, TiposDeTodo, EnListaQuitar
<1>5. \A h \in Hilos, x \in Lugares : EnLugar(x, h)' => EnLugar(x, h)
  BY <1>1, <1>3, <1>4 DEF EnLugar, Lugares, Despedido
<1>6. \A h \in Hilos : Creado(h)' <=> Creado(h)
  BY <1>1 DEF Creado
<1>7. Creado(cpuHilo)'
  BY <1>1 DEF Todo, CadaUnoEnSuLugar, EnOrdenCreados, Creado
<1>8. UnLugar' /\ EnOrdenCreados'
  <2>1. listaNew' = listaNew /\ SinRepetir(ready') /\ SinRepetir(dispKC') /\ SinRepetir(intCK')
    BY <1>1, <1>4, TiposDeTodo
  <2> QED
    BY <1>5, <1>6, <1>7, <2>1, NadieMueve
<1>9. DeQuienEs'
  BY <1>1, DeQuienEsAtendido DEF Pasos
<1>10. ExecEsLaCpu'
  <2>1. ~EnLista(exec', m.hilo)
    BY <1>1, ExecEsUno
  <2>2. HandlerLoSaca'
    BY <1>1, <1>3, <2>1 DEF HandlerLoSaca
  <2>3. \A h \in Hilos : /\ EnLugar("camino", h)' <=> EnLugar("camino", h)
                         /\ EnLugar("cpu", h)' <=> EnLugar("cpu", h)
                         /\ EnLugar("desalojo", h)' <=> EnLugar("desalojo", h)
    BY <1>1 DEF EnLugar, Despedido
  <2>4. ~EnLugar("camino", m.hilo)
    BY <1>2 DEF Lugares, Todo, CadaUnoEnSuLugar, UnLugar
  <2>5. \A h \in Hilos : Muere(h) => Muere(h)'
    BY <1>1, <1>2 DEF Muere
  <2>6. \A h \in Hilos : DelLadoDeLaCpu(h) => DelLadoDeLaCpu(h)'
    BY <2>3 DEF DelLadoDeLaCpu
  <2> QED
    BY <1>1, <1>2, <1>3, <2>2, <2>3, <2>4, <2>5, <2>6, ExecSigue
<1> QED
  BY <1>8, <1>9, <1>10 DEF CadaUnoEnSuLugar

\* The end of a process starts.
LEMMA LugaresFinDeProceso ==
  ASSUME Todo, NEW m \in Mensajes, AtenderFinDeProceso(m)
  PROVE  CadaUnoEnSuLugar'
<1>1. /\ Atiende(m) /\ m.op \in {"PROCESS_EXIT"} \cup Errores
      /\ m.op = "PROCESS_EXIT" => m.hilo[2] = 0
      /\ Sigue("saca", m)
      /\ UNCHANGED <<listaNew, pcbs, ready, exec, estado, espera, io, dispKC, intKC, intCK,
                     cpuHilo, cpuFase, syscallBloquea, semRetorno>>
  BY DEF AtenderFinDeProceso, cpuVars, listasVars
<1>2. kd.paso = "recibe" /\ m.hilo \in Hilos
  BY <1>1, AlAtender
<1>3. kd'.paso = "saca" /\ kd'.hilo = m.hilo /\ kd'.op = m.op /\ kd'.i = 0
  BY <1>1 DEF Sigue
<1>4. \A h \in Hilos, x \in Lugares : EnLugar(x, h)' => EnLugar(x, h)
  BY <1>1, <1>3 DEF EnLugar, Lugares, Despedido
<1>5. \A h \in Hilos : Creado(h)' <=> Creado(h)
  BY <1>1 DEF Creado
<1>6. Creado(cpuHilo)'
  BY <1>1 DEF Todo, CadaUnoEnSuLugar, EnOrdenCreados, Creado
<1>7. UnLugar' /\ EnOrdenCreados'
  <2>1. listaNew' = listaNew /\ SinRepetir(ready') /\ SinRepetir(dispKC') /\ SinRepetir(intCK')
    BY <1>1, TiposDeTodo
  <2> QED
    BY <1>4, <1>5, <1>6, <2>1, NadieMueve
<1>8. DeQuienEs'
  BY <1>1, DeQuienEsAtendido DEF Pasos
<1>9. ExecEsLaCpu'
  <2>1. HandlerLoSaca'
    BY <1>1, <1>3 DEF HandlerLoSaca, Errores
  <2>2. \A h \in Hilos : /\ EnLugar("camino", h)' <=> EnLugar("camino", h)
                         /\ EnLugar("cpu", h)' <=> EnLugar("cpu", h)
                         /\ EnLugar("desalojo", h)' <=> EnLugar("desalojo", h)
    BY <1>1 DEF EnLugar, Despedido
  <2>3. \A h \in Hilos : Muere(h) => Muere(h)'
    BY <1>1, <1>2 DEF Muere
  <2>4. \A h \in Hilos : DelLadoDeLaCpu(h) => DelLadoDeLaCpu(h)'
    BY <2>2 DEF DelLadoDeLaCpu
  <2> QED
    BY <1>1, <1>2, <2>1, <2>2, <2>3, <2>4, ExecSigue
<1> QED
  BY <1>7, <1>8, <1>9 DEF CadaUnoEnSuLugar

\* A thread created now, with the number or the pid that followed.
LEMMA NaceUno ==
  ASSUME Todo, NEW g \in Hilos, ~Creado(g), NEW y \in {"ready", "new"},
         \A h \in Hilos : Creado(h)' <=> Creado(h) \/ h = g,
         cpuHilo' = cpuHilo,
         SinRepetir(listaNew'), SinRepetir(ready'), SinRepetir(dispKC'), SinRepetir(intCK'),
         \A h \in Hilos, x \in Lugares : EnLugar(x, h)' => (h = g /\ x = y) \/ EnLugar(x, h),
         \A h : EnLista(listaNew', h) => EnLista(listaNew, h) \/ (h = g /\ y = "new"),
         y = "ready" => ~EnLista(listaNew, <<g[1], 0>>),
         y = "new" => g[2] = 0,
         \A t \in 0..g[2] : t = g[2] \/ (<<g[1], t>> \in Hilos /\ Creado(<<g[1], t>>)),
         \A p \in 0..g[1] : <<p, 0>> = g \/ (<<p, 0>> \in Hilos /\ Creado(<<p, 0>>))
  PROVE  UnLugar' /\ EnOrdenCreados'
<1>1. \A x \in Lugares : ~EnLugar(x, g)
  BY DEF Todo, CadaUnoEnSuLugar, EnOrdenCreados
<1>2. /\ \A x \in Lugares : EnLugar(x, g)' => x = y
      /\ \A h \in Hilos, x \in Lugares : h # g /\ EnLugar(x, h)' => EnLugar(x, h)
  BY <1>1
<1>3. UnLugar'
  <2>1. ASSUME NEW h \in Hilos, NEW x \in Lugares, NEW w \in Lugares,
               EnLugar(x, h)', EnLugar(w, h)'
        PROVE  x = w
    <3>1. CASE h = g
      BY <1>2, <2>1, <3>1
    <3>2. CASE h # g
      BY <1>2, <2>1, <3>2 DEF Todo, CadaUnoEnSuLugar, UnLugar
    <3> QED
      BY <3>1, <3>2
  <2> QED
    BY <2>1 DEF UnLugar
<1>4. \A h \in Hilos : h \in Nat \X Nat /\ h = <<h[1], h[2]>> /\ h[1] \in Nat /\ h[2] \in Nat
  BY ConstantesOK
<1>5. ASSUME NEW h \in Hilos, Creado(h)'
      PROVE  /\ \A t \in 0..h[2] : <<h[1], t>> \in Hilos /\ Creado(<<h[1], t>>)'
             /\ \A p \in 0..h[1] : <<p, 0>> \in Hilos /\ Creado(<<p, 0>>)'
  <2>1. CASE h = g
    BY <1>4, <2>1
  <2>2. CASE h # g
    <3>1. Creado(h)
      BY <1>5, <2>2
    <3> QED
      BY <3>1 DEF Todo, CadaUnoEnSuLugar, EnOrdenCreados
  <2> QED
    BY <2>1, <2>2
<1>6. ASSUME NEW h \in Hilos, NEW x \in Lugares, EnLugar(x, h)'
      PROVE  /\ Creado(h)'
             /\ x # "new" => ~EnLista(listaNew', <<h[1], 0>>)
             /\ x = "new" => h[2] = 0
  <2>1. CASE h = g
    <3>1. x = y
      BY <1>2, <1>6, <2>1
    <3> QED
      BY <2>1, <3>1
  <2>2. CASE h # g
    <3>1. EnLugar(x, h)
      BY <1>2, <1>6, <2>2
    <3>2. /\ Creado(h)
          /\ x # "new" => ~EnLista(listaNew, <<h[1], 0>>)
          /\ x = "new" => h[2] = 0
      BY <3>1 DEF Todo, CadaUnoEnSuLugar, EnOrdenCreados
    <3>3. <<h[1], 0>> # g
      <4>1. 0 \in 0..h[2]
        BY <1>4
      <4>2. Creado(<<h[1], 0>>)
        BY <3>2, <4>1 DEF Todo, CadaUnoEnSuLugar, EnOrdenCreados
      <4> QED
        BY <4>2
    <3> QED
      BY <3>2, <3>3
  <2> QED
    BY <2>1, <2>2
<1>7. Creado(cpuHilo)'
  <2>1. Creado(cpuHilo) /\ cpuHilo \in Hilos
    BY TiposDeTodo DEF Todo, CadaUnoEnSuLugar, EnOrdenCreados
  <2>2. Creado(cpuHilo)' <=> (estado'[cpuHilo] # "NADA")
    BY DEF Creado
  <2>3. estado'[cpuHilo] # "NADA"
    BY <2>1 DEF Creado
  <2> QED
    BY <2>2, <2>3
<1> QED
  BY <1>3, <1>5, <1>6, <1>7 DEF EnOrdenCreados

\* create_tcb: the next tid of a process with a thread is free, and those below
\* it are taken.
LEMMA TidsSeguidos ==
  ASSUME Todo, NEW q \in Nat, <<q, 0>> \in Hilos, Creado(<<q, 0>>), ProximoHilo(q) \in Hilos
  PROVE  /\ ~Creado(ProximoHilo(q)) /\ ProximoHilo(q)[1] = q
         /\ \A t \in 0..ProximoHilo(q)[2] :
              t = ProximoHilo(q)[2] \/ (<<q, t>> \in Hilos /\ Creado(<<q, t>>))
<1> DEFINE C == Creados(q)
           num == [h \in C |-> h[2]]
<1>0. Hilos \subseteq Nat \X Nat
  BY ConstantesOK
<1>1. \A h : h \in C <=> h \in Hilos /\ h[1] = q /\ Creado(h)
  BY DEF Creados, Creado
<1>2. IsFiniteSet(C)
  <2>1. C \in SUBSET Hilos
    BY <1>1
  <2> QED
    BY <2>1, FS_Subset, ConstantesOK
<1>3. \A h \in C : h = <<q, h[2]>> /\ h[2] \in Nat
  BY <1>0, <1>1
<1>4. num \in [C -> Nat] /\ \A a, b \in C : num[a] = num[b] => a = b
  BY <1>3
<1>5. ASSUME NEW a \in C, NEW t \in 0..num[a]  PROVE \E b \in C : num[b] = t
  <2>1. t \in 0..a[2] /\ a \in Hilos /\ a[1] = q /\ Creado(a)
    BY <1>1, <1>5
  <2>2. <<q, t>> \in Hilos /\ Creado(<<q, t>>)
    BY <2>1 DEF Todo, CadaUnoEnSuLugar, EnOrdenCreados
  <2>3. <<q, t>> \in C
    BY <1>1, <2>2
  <2> QED
    BY <2>3
<1>6. ProximoHilo(q) = <<q, Cardinality(C)>>
  BY DEF ProximoHilo
<1> HIDE DEF C, num
<1>7. /\ Cardinality(C) \in Nat
      /\ \A a \in C : num[a] < Cardinality(C)
      /\ \A t \in 0..(Cardinality(C) - 1) : \E b \in C : num[b] = t
  BY <1>2, <1>4, <1>5, NumeradosSeguidos
<1>8. \A a \in C : num[a] = a[2]
  BY DEF num
<1>9. ~Creado(ProximoHilo(q))
  <2>1. SUFFICES ASSUME Creado(ProximoHilo(q)) PROVE FALSE
    OBVIOUS
  <2>2. ProximoHilo(q) \in C
    BY <1>1, <1>6, <2>1
  <2>3. Cardinality(C) < Cardinality(C)
    BY <1>6, <1>7, <1>8, <2>2
  <2> QED
    BY <1>7, <2>3
<1>10. ASSUME NEW t \in 0..Cardinality(C), t # Cardinality(C)
       PROVE  <<q, t>> \in Hilos /\ Creado(<<q, t>>)
  <2>1. t \in 0..(Cardinality(C) - 1)
    BY <1>7, <1>10
  <2>2. PICK b \in C : num[b] = t
    BY <1>7, <2>1
  <2>3. b = <<q, t>>
    BY <1>3, <1>8, <2>2
  <2> QED
    BY <1>1, <2>3
<1> QED
  BY <1>6, <1>9, <1>10

\* asign_pid: so is the next pid.
LEMMA PidsSeguidos ==
  ASSUME Todo, ProximoProceso \in Hilos
  PROVE  /\ ~Creado(ProximoProceso) /\ ProximoProceso[2] = 0
         /\ \A p \in 0..ProximoProceso[1] :
              <<p, 0>> = ProximoProceso \/ (<<p, 0>> \in Hilos /\ Creado(<<p, 0>>))
<1> DEFINE C == {h \in Hilos : h[2] = 0 /\ estado[h] # "NADA"}
           num == [h \in C |-> h[1]]
<1>0. Hilos \subseteq Nat \X Nat
  BY ConstantesOK
<1>1. \A h : h \in C <=> h \in Hilos /\ h[2] = 0 /\ Creado(h)
  BY DEF Creado
<1>2. IsFiniteSet(C)
  <2>1. C \in SUBSET Hilos
    BY <1>1
  <2> QED
    BY <2>1, FS_Subset, ConstantesOK
<1>3. \A h \in C : h = <<h[1], 0>> /\ h[1] \in Nat
  BY <1>0, <1>1
<1>4. num \in [C -> Nat] /\ \A a, b \in C : num[a] = num[b] => a = b
  BY <1>3
<1>5. ASSUME NEW a \in C, NEW p \in 0..num[a]  PROVE \E b \in C : num[b] = p
  <2>1. p \in 0..a[1] /\ a \in Hilos /\ Creado(a)
    BY <1>1, <1>5
  <2>2. <<p, 0>> \in Hilos /\ Creado(<<p, 0>>)
    BY <2>1 DEF Todo, CadaUnoEnSuLugar, EnOrdenCreados
  <2>3. <<p, 0>> \in C
    BY <1>1, <2>2
  <2> QED
    BY <2>3
<1>6. ProximoProceso = <<Cardinality(C), 0>>
  BY DEF ProximoProceso
<1> HIDE DEF C, num
<1>7. /\ Cardinality(C) \in Nat
      /\ \A a \in C : num[a] < Cardinality(C)
      /\ \A p \in 0..(Cardinality(C) - 1) : \E b \in C : num[b] = p
  BY <1>2, <1>4, <1>5, NumeradosSeguidos
<1>8. \A a \in C : num[a] = a[1]
  BY DEF num
<1>9. ~Creado(ProximoProceso)
  <2>1. SUFFICES ASSUME Creado(ProximoProceso) PROVE FALSE
    OBVIOUS
  <2>2. ProximoProceso \in C
    BY <1>1, <1>6, <2>1
  <2>3. Cardinality(C) < Cardinality(C)
    BY <1>6, <1>7, <1>8, <2>2
  <2> QED
    BY <1>7, <2>3
<1>10. ASSUME NEW p \in 0..Cardinality(C), p # Cardinality(C)
       PROVE  <<p, 0>> \in Hilos /\ Creado(<<p, 0>>)
  <2>1. p \in 0..(Cardinality(C) - 1)
    BY <1>7, <1>10
  <2>2. PICK b \in C : num[b] = p
    BY <1>7, <2>1
  <2>3. b = <<p, 0>>
    BY <1>3, <1>8, <2>2
  <2> QED
    BY <1>1, <2>3
<1> QED
  BY <1>6, <1>9, <1>10

\* THREAD_CREATE: the new thread appears in READY.
LEMMA LugaresThreadCreate ==
  ASSUME Todo, NEW m \in Mensajes, AtenderThreadCreate(m)
  PROVE  CadaUnoEnSuLugar'
<1>1. PICK g \in Hilos : g = ProximoHilo(m.hilo[1])
  BY DEF AtenderThreadCreate
<1>2. /\ Atiende(m)
      /\ ready' = Append(ready, g)
      /\ estado' = [estado EXCEPT ![g] = "READY"] \/ estado' = [estado EXCEPT ![g] = "NEW"]
      /\ intKC' = intKC \/ intKC' = Append(intKC, Fin(1))
      /\ UNCHANGED <<listaNew, pcbs, exec, espera, kd, io, dispKC, intCK, cpuHilo, cpuFase,
                     syscallBloquea, semRetorno>>
  BY <1>1 DEF AtenderThreadCreate, Responde, hilosVars, cpuVars
<1>3. /\ m.hilo \in Hilos /\ kd.paso = "recibe" /\ EnLugar("cpu", m.hilo) /\ Creado(m.hilo)
  BY <1>2, AlAtender
<1>4. /\ m.hilo[1] \in Nat /\ m.hilo[2] \in Nat /\ 0 \in 0..m.hilo[2]
      /\ m.hilo[1] \in 0..m.hilo[1]
  BY <1>3, ConstantesOK
<1>5. /\ <<m.hilo[1], 0>> \in Hilos /\ Creado(<<m.hilo[1], 0>>)
      /\ \A p \in 0..m.hilo[1] : <<p, 0>> \in Hilos /\ Creado(<<p, 0>>)
  BY <1>3, <1>4 DEF Todo, CadaUnoEnSuLugar, EnOrdenCreados
<1>6. ProximoHilo(m.hilo[1]) \in Hilos
  BY <1>1
<1>7. /\ ~Creado(g) /\ g[1] = m.hilo[1]
      /\ \A t \in 0..g[2] : t = g[2] \/ (<<g[1], t>> \in Hilos /\ Creado(<<g[1], t>>))
  <2>1. /\ ~Creado(ProximoHilo(m.hilo[1])) /\ ProximoHilo(m.hilo[1])[1] = m.hilo[1]
        /\ \A t \in 0..ProximoHilo(m.hilo[1])[2] :
             t = ProximoHilo(m.hilo[1])[2] \/ (<<m.hilo[1], t>> \in Hilos /\ Creado(<<m.hilo[1], t>>))
    BY <1>4, <1>5, <1>6, TidsSeguidos
  <2> QED
    BY <1>1, <2>1
<1>8. ~EnLista(listaNew, <<g[1], 0>>)
  <2>1. "cpu" \in Lugares
    BY DEF Lugares
  <2>2. ~EnLista(listaNew, <<m.hilo[1], 0>>)
    BY <1>3, <2>1 DEF Todo, CadaUnoEnSuLugar, EnOrdenCreados
  <2> QED
    BY <1>7, <2>2
<1>9. \A h \in Hilos : Creado(h)' <=> Creado(h) \/ h = g
  BY <1>2, TiposDeTodo DEF Creado
<1>10. /\ SinRepetir(ready')
       /\ \A h : EnLista(ready', h) => EnLista(ready, h) \/ h = g
  <2>1. "ready" \in Lugares
    BY DEF Lugares
  <2>2. ~EnLugar("ready", g)
    BY <1>7, <2>1 DEF Todo, CadaUnoEnSuLugar, EnOrdenCreados
  <2>3. ~EnLista(ready, g)
    BY <2>2 DEF EnLugar
  <2>4. /\ SinRepetir(Append(ready, g))
        /\ \A h : EnLista(Append(ready, g), h) <=> EnLista(ready, h) \/ h = g
    BY <2>3, TiposDeTodo, EnListaAgregar
  <2> QED
    BY <1>2, <2>4
<1>11. EnLista(intKC', Fin(0)) <=> EnLista(intKC, Fin(0))
  BY <1>2, FinUno
<1>12. \A h \in Hilos, x \in Lugares :
         EnLugar(x, h)' => (h = g /\ x = "ready") \/ EnLugar(x, h)
  BY <1>2, <1>10, <1>11 DEF EnLugar, Lugares, Despedido
<1>13. UnLugar' /\ EnOrdenCreados'
  <2>1. SinRepetir(listaNew') /\ SinRepetir(ready') /\ SinRepetir(dispKC') /\ SinRepetir(intCK')
    BY <1>2, <1>10, TiposDeTodo
  <2>2. cpuHilo' = cpuHilo
    BY <1>2
  <2>3. \A h : EnLista(listaNew', h) => EnLista(listaNew, h)
    BY <1>2
  <2>4. \A p \in 0..g[1] : <<p, 0>> \in Hilos /\ Creado(<<p, 0>>)
    BY <1>5, <1>7
  <2>5. PICK y \in {"ready", "new"} : y = "ready"
    OBVIOUS
  <2>6. \A h \in Hilos, x \in Lugares :
         EnLugar(x, h)' => (h = g /\ x = y) \/ EnLugar(x, h)
    BY <1>12, <2>5
  <2>7. y = "new" => g[2] = 0
    BY <2>5
  <2> QED
    BY <1>7, <1>8, <1>9, <2>1, <2>2, <2>3, <2>4, <2>6, <2>7, NaceUno
<1>14. DeQuienEs'
  BY <1>2, DeQuienEsAtendido DEF Pasos
<1>15. ExecEsLaCpu'
  <2>1. \A h \in Hilos : /\ EnLugar("camino", h)' <=> EnLugar("camino", h)
                         /\ EnLugar("cpu", h)' <=> EnLugar("cpu", h)
                         /\ EnLugar("desalojo", h)' <=> EnLugar("desalojo", h)
    BY <1>2, <1>11 DEF EnLugar, Despedido
  <2> QED
    BY <1>2, <2>1, ExecQuieto
<1> QED
  BY <1>13, <1>14, <1>15 DEF CadaUnoEnSuLugar

\* PROCESS_CREATE: the main thread of the new process appears in lista_new.
LEMMA LugaresProcessCreate ==
  ASSUME Todo, NEW m \in Mensajes, AtenderProcessCreate(m)
  PROVE  CadaUnoEnSuLugar'
<1>1. PICK g \in Hilos : g = ProximoProceso
  BY DEF AtenderProcessCreate
<1>2. /\ Atiende(m) /\ m.op = "PROCESS_CREATE"
      /\ listaNew' = Append(listaNew, g)
      /\ estado' = [estado EXCEPT ![g] = "NEW"]
      /\ Sigue("plp", m)
      /\ UNCHANGED <<ready, pcbs, exec, espera, io, dispKC, intKC, intCK, cpuHilo, cpuFase,
                     syscallBloquea, semRetorno>>
  BY <1>1 DEF AtenderProcessCreate, cpuVars
<1>3. kd.paso = "recibe" /\ kd'.paso = "plp" /\ kd'.op = "PROCESS_CREATE"
  BY <1>2, AlAtender DEF Sigue
<1>4. /\ ~Creado(g) /\ g[2] = 0
      /\ \A p \in 0..g[1] : <<p, 0>> = g \/ (<<p, 0>> \in Hilos /\ Creado(<<p, 0>>))
  <2>1. ProximoProceso \in Hilos
    BY <1>1
  <2> QED
    BY <1>1, <2>1, PidsSeguidos
<1>5. \A h \in Hilos : Creado(h)' <=> Creado(h) \/ h = g
  BY <1>2, TiposDeTodo DEF Creado
<1>6. /\ SinRepetir(listaNew')
      /\ \A h : EnLista(listaNew', h) => EnLista(listaNew, h) \/ h = g
  <2>1. "new" \in Lugares
    BY DEF Lugares
  <2>2. ~EnLugar("new", g)
    BY <1>4, <2>1 DEF Todo, CadaUnoEnSuLugar, EnOrdenCreados
  <2>3. ~EnLista(listaNew, g)
    BY <2>2 DEF EnLugar
  <2>4. /\ SinRepetir(Append(listaNew, g))
        /\ \A h : EnLista(Append(listaNew, g), h) <=> EnLista(listaNew, h) \/ h = g
    BY <2>3, TiposDeTodo, EnListaAgregar
  <2> QED
    BY <1>2, <2>4
<1>7. \A h \in Hilos, x \in Lugares :
         EnLugar(x, h)' => (h = g /\ x = "new") \/ EnLugar(x, h)
  BY <1>2, <1>3, <1>6 DEF EnLugar, Lugares, Despedido
<1>8. UnLugar' /\ EnOrdenCreados'
  <2>1. SinRepetir(listaNew') /\ SinRepetir(ready') /\ SinRepetir(dispKC') /\ SinRepetir(intCK')
    BY <1>2, <1>6, TiposDeTodo
  <2>2. cpuHilo' = cpuHilo
    BY <1>2
  <2>3. PICK y \in {"ready", "new"} : y = "new"
    OBVIOUS
  <2>4. \A h : EnLista(listaNew', h) => EnLista(listaNew, h) \/ (h = g /\ y = "new")
    BY <1>6, <2>3
  <2>5. \A t \in 0..g[2] : t = g[2]
    BY <1>4
  <2>6. \A h \in Hilos, x \in Lugares :
         EnLugar(x, h)' => (h = g /\ x = y) \/ EnLugar(x, h)
    BY <1>7, <2>3
  <2>7. y # "ready"
    BY <2>3
  <2> QED
    BY <1>4, <1>5, <2>1, <2>2, <2>4, <2>5, <2>6, <2>7, NaceUno
<1>9. DeQuienEs'
  BY <1>2, DeQuienEsAtendido DEF Pasos
<1>10. ExecEsLaCpu'
  <2>1. HandlerLoSaca'
    BY <1>3 DEF HandlerLoSaca
  <2>2. \A h \in Hilos : /\ EnLugar("camino", h)' <=> EnLugar("camino", h)
                         /\ EnLugar("cpu", h)' <=> EnLugar("cpu", h)
                         /\ EnLugar("desalojo", h)' <=> EnLugar("desalojo", h)
    BY <1>2 DEF EnLugar, Despedido
  <2>3. \A h \in Hilos : Muere(h) => Muere(h)'
    BY <1>2, <1>3 DEF Muere
  <2>4. \A h \in Hilos : DelLadoDeLaCpu(h) => DelLadoDeLaCpu(h)'
    BY <2>2 DEF DelLadoDeLaCpu
  <2>5. g \in Hilos /\ exec' = exec /\ cpuHilo' = cpuHilo /\ kd.paso \notin {"finHilo", "colgado"}
    BY <1>2, <1>3
  <2> QED
    BY <2>1, <2>2, <2>3, <2>4, <2>5, ExecSigue
<1> QED
  BY <1>8, <1>9, <1>10 DEF CadaUnoEnSuLugar

\* The handler goes on, without answering and without moving a thread to a place:
\* it may take threads out of theirs.
LEMMA LugaresHandler ==
  ASSUME Todo,
         UNCHANGED <<listaNew, dispKC, dispCK, intKC, intCK, io, cpuHilo, cpuFase,
                     syscallBloquea, semRetorno>>,
         \A h \in Hilos : Creado(h)' <=> Creado(h),
         SinRepetir(ready'), \A h : EnLista(ready', h) => EnLista(ready, h),
         espera' \subseteq espera, kd'.paso # "dump",
         NEW g \in Hilos,
         exec' = exec \/ (exec' = Quitar(exec, g) /\ Muere(g)'),
         \A h \in Hilos : Muere(h) => Muere(h)',
         kd.paso \in {"finHilo", "colgado"} => kd'.paso \in {"finHilo", "colgado"},
         (kd'.op = kd.op /\ kd'.hilo = kd.hilo) \/ kd' = Recibe,
         kd'.paso \in {"finHilo", "saca", "finProceso", "plp", "colgado"} =>
           kd.op = "DUMP_MEMORY" \/ DebeRespuesta,
         kd'.paso = "colgado" => kd.op # "DUMP_MEMORY",
         HandlerLoSaca'
  PROVE  CadaUnoEnSuLugar'
<1>1. \A h \in Hilos, x \in Lugares : EnLugar(x, h)' => EnLugar(x, h)
  BY DEF EnLugar, Lugares, Despedido
<1>2. Creado(cpuHilo)'
  <2>1. Creado(cpuHilo) /\ cpuHilo \in Hilos
    BY TiposDeTodo DEF Todo, CadaUnoEnSuLugar, EnOrdenCreados
  <2>2. estado'[cpuHilo] # "NADA"
    BY <2>1 DEF Creado
  <2> QED
    BY <2>2 DEF Creado
<1>3. UnLugar' /\ EnOrdenCreados'
  <2>1. listaNew' = listaNew /\ SinRepetir(dispKC') /\ SinRepetir(intCK')
    BY TiposDeTodo
  <2> QED
    BY <1>1, <1>2, <2>1, NadieMueve
<1>4. DeQuienEs'
  <2>1. DebeRespuesta' => DebeRespuesta /\ kd'.hilo = kd.hilo
    BY DEF DebeRespuesta, Recibe
  <2>2. kd'.paso = "colgado" => kd'.op # "DUMP_MEMORY"
    BY DEF Recibe
  <2> QED
    BY <2>1, <2>2 DEF Todo, CadaUnoEnSuLugar, DeQuienEs
<1>5. ExecEsLaCpu'
  <2>1. \A h \in Hilos : /\ EnLugar("camino", h)' <=> EnLugar("camino", h)
                         /\ EnLugar("cpu", h)' <=> EnLugar("cpu", h)
                         /\ EnLugar("desalojo", h)' <=> EnLugar("desalojo", h)
    BY DEF EnLugar, Despedido
  <2>2. \A h \in Hilos : DelLadoDeLaCpu(h) => DelLadoDeLaCpu(h)'
    BY <2>1 DEF DelLadoDeLaCpu
  <2>3. cpuHilo' = cpuHilo
    OBVIOUS
  <2> QED
    BY <2>1, <2>2, <2>3, ExecSigue
<1> QED
  BY <1>3, <1>4, <1>5 DEF CadaUnoEnSuLugar

LEMMA LugaresDumpRespondido ==
  ASSUME Todo, DumpRespondido
  PROVE  CadaUnoEnSuLugar'
<1>1. PICK g \in Hilos : g = kd.hilo
  BY TiposDeTodo
<1>2. /\ kd.paso = "dump" /\ kd.op = "DUMP_MEMORY"
      /\ UNCHANGED <<listaNew, pcbs, espera, io, dispKC, dispCK, intKC, intCK, cpuHilo, cpuFase,
                     syscallBloquea, semRetorno>>
  BY DEF DumpRespondido, canalVars, cpuVars, Todo, Conversacion, PasosDelHandler
<1>3. CASE kd' = [kd EXCEPT !.paso = "saca"] /\ UNCHANGED <<exec, ready, estado>>
  <2>1. kd'.paso = "saca" /\ kd'.op = kd.op /\ kd'.hilo = kd.hilo
    BY <1>3, TiposDeTodo
  <2>2. HandlerLoSaca'
    BY <1>2, <2>1 DEF HandlerLoSaca
  <2>3. \A h \in Hilos : Muere(h) => Muere(h)'
    BY <1>2, <2>1 DEF Muere
  <2>4. \A h \in Hilos : Creado(h)' <=> Creado(h)
    BY <1>3 DEF Creado
  <2>5. SinRepetir(ready') /\ (\A h : EnLista(ready', h) => EnLista(ready, h))
    BY <1>3, TiposDeTodo
  <2>6. exec' = exec /\ espera' \subseteq espera
    BY <1>2, <1>3
  <2> QED
    BY <1>2, <2>1, <2>2, <2>3, <2>4, <2>5, <2>6, LugaresHandler
<1>4. CASE /\ exec' = Quitar(exec, g)
           /\ ready' = Append(Quitar(ready, g), g)
           /\ estado' = [estado EXCEPT ![g] = "READY"]
           /\ kd' = [kd EXCEPT !.paso = "avisa"]
  <2>1. kd'.paso = "avisa" /\ kd'.op = kd.op /\ kd'.hilo = kd.hilo
    BY <1>4, TiposDeTodo
  <2>2. /\ EnLugar("dump", g) /\ "dump" \in Lugares \ {"new"} /\ "ready" \in Lugares \ {"new"}
    BY <1>1, <1>2 DEF EnLugar, Lugares
  <2>3. Creado(g)
    BY <2>2 DEF Todo, CadaUnoEnSuLugar, EnOrdenCreados
  <2>4. \A h \in Hilos : Creado(h)' <=> Creado(h)
    BY <1>4, <2>3, TiposDeTodo DEF Creado
  <2>5. Creado(cpuHilo)'
    BY <1>2, <2>4, TiposDeTodo DEF Todo, CadaUnoEnSuLugar, EnOrdenCreados, Creado
  <2>6. /\ SinRepetir(ready')
        /\ \A h : EnLista(ready', h) <=> EnLista(ready, h) \/ h = g
    <3> DEFINE q == Quitar(ready, g)
    <3>1. /\ q \in Seq(Hilos) /\ SinRepetir(q)
          /\ \A h : EnLista(q, h) <=> EnLista(ready, h) /\ h # g
      BY TiposDeTodo, EnListaQuitar
    <3>2. ready' = Append(q, g)
      BY <1>4
    <3> HIDE DEF q
    <3> QED
      BY <3>1, <3>2, EnListaAgregar
  <2>7. \A h \in Hilos, x \in Lugares : EnLugar(x, h)' =>
          \/ h = g /\ x = "ready"
          \/ EnLugar(x, h) /\ ~(h = g /\ x = "dump")
    BY <1>2, <2>1, <2>6 DEF EnLugar, Lugares, Despedido
  <2>8. UnLugar' /\ EnOrdenCreados'
    <3>1. listaNew' = listaNew /\ SinRepetir(dispKC') /\ SinRepetir(intCK')
      BY <1>2, TiposDeTodo
    <3> QED
      BY <2>2, <2>4, <2>5, <2>6, <2>7, <3>1, UnoMueve
  <2>9. DeQuienEs'
    BY <1>2, <2>1 DEF Todo, CadaUnoEnSuLugar, DeQuienEs, DebeRespuesta
  <2>10. ExecEsLaCpu'
    <3>1. HandlerLoSaca'
      BY <2>1 DEF HandlerLoSaca
    <3>2. \A h \in Hilos : /\ EnLugar("camino", h)' <=> EnLugar("camino", h)
                           /\ EnLugar("cpu", h)' <=> EnLugar("cpu", h)
                           /\ EnLugar("desalojo", h)' <=> EnLugar("desalojo", h)
      BY <1>2 DEF EnLugar, Despedido
    <3>3. ~EnLugar("camino", g) /\ ~EnLugar("cpu", g)
      BY <2>2 DEF Lugares, Todo, CadaUnoEnSuLugar, UnLugar
    <3>4. \A h \in Hilos : Muere(h) => Muere(h)'
      BY <1>2 DEF Muere
    <3>5. \A h \in Hilos : DelLadoDeLaCpu(h) => DelLadoDeLaCpu(h)'
      BY <3>2 DEF DelLadoDeLaCpu
    <3> QED
      BY <1>2, <1>4, <3>1, <3>2, <3>3, <3>4, <3>5, ExecSigue
  <2> QED
    BY <2>8, <2>9, <2>10 DEF CadaUnoEnSuLugar
<1> QED
  BY <1>1, <1>3, <1>4 DEF DumpRespondido

LEMMA LugaresDumpAvisa ==
  ASSUME Todo, DumpAvisa
  PROVE  CadaUnoEnSuLugar'
<1>1. /\ kd.paso = "avisa" /\ kd' = Recibe
      /\ UNCHANGED <<listaNew, pcbs, ready, exec, estado, espera, io, dispKC, dispCK, intKC, intCK,
                     cpuHilo, cpuFase, syscallBloquea, semRetorno>>
  BY DEF DumpAvisa, listasVars, canalVars, cpuVars
<1>2. kd'.paso = "recibe"
  BY <1>1 DEF Recibe
<1>3. HandlerLoSaca'
  BY <1>2 DEF HandlerLoSaca
<1>4. \A h \in Hilos : Muere(h) => Muere(h)'
  BY <1>1 DEF Muere
<1>5. \A h \in Hilos : Creado(h)' <=> Creado(h)
  BY <1>1 DEF Creado
<1>6. SinRepetir(ready') /\ (\A h : EnLista(ready', h) => EnLista(ready, h))
  BY <1>1, TiposDeTodo
<1>7. exec' = exec /\ espera' \subseteq espera /\ cpuHilo \in Hilos
  BY <1>1, TiposDeTodo
<1> QED
  BY <1>1, <1>2, <1>3, <1>4, <1>5, <1>6, <1>7, LugaresHandler

LEMMA LugaresHiloColgado ==
  ASSUME Todo, HiloColgado
  PROVE  CadaUnoEnSuLugar'
<1>1. /\ kd.paso = "finHilo" /\ kd' = [kd EXCEPT !.paso = "colgado"]
      /\ UNCHANGED <<listaNew, pcbs, ready, exec, estado, espera, io, dispKC, dispCK, intKC, intCK,
                     cpuHilo, cpuFase, syscallBloquea, semRetorno>>
  BY DEF HiloColgado, listasVars, canalVars, cpuVars
<1>2. kd'.paso = "colgado" /\ kd'.op = kd.op /\ kd'.hilo = kd.hilo
  BY <1>1, TiposDeTodo
<1>3. kd.op \in {"THREAD_EXIT", "MUTEX_LOCK"} /\ DebeRespuesta
  BY <1>1 DEF DebeRespuesta, Todo, Conversacion, PasosDelHandler
<1>4. HandlerLoSaca'
  BY <1>2, <1>3 DEF HandlerLoSaca
<1>5. \A h \in Hilos : Muere(h) => Muere(h)'
  BY <1>1 DEF Muere
<1>6. \A h \in Hilos : Creado(h)' <=> Creado(h)
  BY <1>1 DEF Creado
<1>7. SinRepetir(ready') /\ (\A h : EnLista(ready', h) => EnLista(ready, h))
  BY <1>1, TiposDeTodo
<1>8. exec' = exec /\ espera' \subseteq espera /\ cpuHilo \in Hilos
  BY <1>1, TiposDeTodo
<1> QED
  BY <1>1, <1>2, <1>3, <1>4, <1>5, <1>6, <1>7, <1>8, LugaresHandler

LEMMA LugaresSacarHilo ==
  ASSUME Todo, SacarHilo
  PROVE  CadaUnoEnSuLugar'
<1>1. /\ kd.paso = "saca"
      /\ UNCHANGED <<listaNew, pcbs, io, dispKC, dispCK, intKC, intCK,
                     cpuHilo, cpuFase, syscallBloquea, semRetorno>>
  BY DEF SacarHilo, canalVars, cpuVars
<1>2. kd.hilo \in Hilos /\ kd.i \in Nat /\ kd.op \in TodasLasOps
  BY TiposDeTodo
<1>3. kd.op = "DUMP_MEMORY" \/ DebeRespuesta
  BY <1>1 DEF DebeRespuesta
<1>4. CASE <<kd.hilo[1], kd.i>> \in Creados(kd.hilo[1])
  <2>1. PICK g \in Hilos : g = <<kd.hilo[1], kd.i>> /\ Creado(g)
    BY <1>4 DEF Creados, Creado
  <2>2. /\ ready' = Quitar(ready, g) /\ exec' = Quitar(exec, g)
        /\ estado' = [estado EXCEPT ![g] = "EXIT"]
        /\ espera' = espera \ {g}
        /\ kd' = [kd EXCEPT !.i = @ + 1]
    BY <1>4, <2>1 DEF SacarHilo
  <2>3. kd'.paso = "saca" /\ kd'.op = kd.op /\ kd'.hilo = kd.hilo /\ kd'.i = kd.i + 1
    BY <1>1, <2>2, TiposDeTodo
  <2>4. \A h \in Hilos : Creado(h)' <=> Creado(h)
    BY <2>1, <2>2, TiposDeTodo DEF Creado
  <2>5. SinRepetir(ready') /\ (\A h : EnLista(ready', h) => EnLista(ready, h))
    BY <2>2, TiposDeTodo, EnListaQuitar
  <2>6. \A h \in Hilos : Muere(h) => Muere(h)'
    BY <1>1, <2>3 DEF Muere
  <2>7. Muere(g)'
    BY <2>1, <2>3 DEF Muere
  <2>8. \A h : EnLista(exec', h) <=> EnLista(exec, h) /\ h # g
    BY <2>2, ExecEsUno
  <2>9. HandlerLoSaca'
    <3>1. SUFFICES ASSUME kd.op = "PROCESS_EXIT"
                   PROVE  kd.hilo[2] = 0 /\ ~EnLista(exec', kd.hilo)
      BY <2>3 DEF HandlerLoSaca
    <3>2. kd.hilo[2] = 0 /\ (kd.i > 0 => ~EnLista(exec, kd.hilo))
      BY <1>1, <3>1 DEF Todo, CadaUnoEnSuLugar, ExecEsLaCpu, HandlerLoSaca
    <3>3. CASE kd.i = 0
      <4>1. kd.hilo = g
        BY <1>2, <2>1, <3>2, <3>3, ConstantesOK
      <4> QED
        BY <2>8, <3>2, <4>1
    <3>4. CASE kd.i > 0
      BY <2>8, <3>2, <3>4
    <3> QED
      BY <1>2, <3>3, <3>4
  <2>10. espera' \subseteq espera
    BY <2>2
  <2> QED
    BY <1>1, <1>3, <2>2, <2>3, <2>4, <2>5, <2>6, <2>7, <2>9, <2>10, LugaresHandler
<1>5. CASE <<kd.hilo[1], kd.i>> \notin Creados(kd.hilo[1])
  <2>1. /\ UNCHANGED <<ready, exec, estado, espera>>
        /\ kd' = [kd EXCEPT !.paso = "finProceso", !.i = 0]
    BY <1>5 DEF SacarHilo
  <2>2. kd'.paso = "finProceso" /\ kd'.op = kd.op /\ kd'.hilo = kd.hilo
    BY <2>1, TiposDeTodo
  <2>3. HandlerLoSaca'
    <3>1. SUFFICES ASSUME kd.op = "PROCESS_EXIT"
                   PROVE  kd.hilo[2] = 0 /\ ~EnLista(exec, kd.hilo)
      BY <2>1, <2>2 DEF HandlerLoSaca
    <3>2. kd.hilo[2] = 0 /\ (kd.i > 0 => ~EnLista(exec, kd.hilo))
      BY <1>1, <3>1 DEF Todo, CadaUnoEnSuLugar, ExecEsLaCpu, HandlerLoSaca
    <3>3. kd.hilo = cpuHilo /\ Creado(cpuHilo)
      BY <1>3, <3>1 DEF Todo, CadaUnoEnSuLugar, DeQuienEs, EnOrdenCreados
    <3>4. kd.i # 0
      <4>1. SUFFICES ASSUME kd.i = 0 PROVE FALSE
        OBVIOUS
      <4>2. <<kd.hilo[1], kd.i>> = kd.hilo
        BY <1>2, <3>2, <4>1, ConstantesOK
      <4>3. kd.hilo \in Creados(kd.hilo[1])
        BY <1>2, <3>3 DEF Creados, Creado
      <4> QED
        BY <1>5, <4>2, <4>3
    <3> QED
      BY <1>2, <3>2, <3>4
  <2>4. \A h \in Hilos : Muere(h) => Muere(h)'
    BY <1>1, <2>2 DEF Muere
  <2>5. \A h \in Hilos : Creado(h)' <=> Creado(h)
    BY <2>1 DEF Creado
  <2>6. SinRepetir(ready') /\ (\A h : EnLista(ready', h) => EnLista(ready, h))
    BY <2>1, TiposDeTodo
  <2>7. exec' = exec /\ espera' \subseteq espera
    BY <2>1
  <2> QED
    BY <1>1, <1>2, <1>3, <2>2, <2>3, <2>4, <2>5, <2>6, <2>7, LugaresHandler
<1> QED
  BY <1>4, <1>5

LEMMA LugaresProcesoFinalizado ==
  ASSUME Todo, ProcesoFinalizado
  PROVE  CadaUnoEnSuLugar'
<1>1. /\ kd.paso = "finProceso" /\ kd' = [kd EXCEPT !.paso = "plp"]
      /\ pcbs' = pcbs \ {kd.hilo[1]}
      /\ UNCHANGED <<listaNew, ready, exec, estado, espera, io, dispKC, dispCK, intKC, intCK,
                     cpuHilo, cpuFase, syscallBloquea, semRetorno>>
  BY DEF ProcesoFinalizado, canalVars, cpuVars
<1>2. kd'.paso = "plp" /\ kd'.op = kd.op /\ kd'.hilo = kd.hilo
  BY <1>1, TiposDeTodo
<1>3. kd.op = "DUMP_MEMORY" \/ DebeRespuesta
  BY <1>1 DEF DebeRespuesta
<1>4. HandlerLoSaca'
  BY <1>1, <1>2 DEF Todo, CadaUnoEnSuLugar, ExecEsLaCpu, HandlerLoSaca
<1>5. \A h \in Hilos : Muere(h) => Muere(h)'
  BY <1>1 DEF Muere
<1>6. \A h \in Hilos : Creado(h)' <=> Creado(h)
  BY <1>1 DEF Creado
<1>7. SinRepetir(ready') /\ (\A h : EnLista(ready', h) => EnLista(ready, h))
  BY <1>1, TiposDeTodo
<1>8. exec' = exec /\ espera' \subseteq espera /\ cpuHilo \in Hilos
  BY <1>1, TiposDeTodo
<1> QED
  BY <1>1, <1>2, <1>3, <1>4, <1>5, <1>6, <1>7, <1>8, LugaresHandler

\* A handler ends: the CPU keeps its thread, or is told to leave one that is no
\* longer in EXEC.
LEMMA ExecTermina ==
  ASSUME Todo, UNCHANGED <<exec, dispKC, intCK, cpuHilo, cpuFase>>, kd'.paso = "recibe",
         \A h \in Hilos : Muere(h) /\ (EnLugar("camino", h) \/ EnLugar("cpu", h)) => Muere(h)',
         \/ (Despedido' <=> Despedido) /\ kd.paso \notin {"finHilo", "colgado"}
         \/ Despedido' /\ ~EnLista(exec, cpuHilo)
  PROVE  ExecEsLaCpu'
<1>1. HandlerLoSaca' /\ cpuHilo \in Hilos
  BY TiposDeTodo DEF HandlerLoSaca
<1>2. \A h \in Hilos : /\ EnLugar("camino", h)' <=> EnLugar("camino", h)
                       /\ EnLugar("desalojo", h)' <=> EnLugar("desalojo", h)
                       /\ EnLugar("cpu", h) => h = cpuHilo
  BY DEF EnLugar
<1>3. CASE (Despedido' <=> Despedido) /\ kd.paso \notin {"finHilo", "colgado"}
  <2>1. \A h \in Hilos : EnLugar("cpu", h)' <=> EnLugar("cpu", h)
    BY <1>3 DEF EnLugar
  <2>2. \A h \in Hilos : DelLadoDeLaCpu(h) => DelLadoDeLaCpu(h)'
    BY <1>2, <2>1 DEF DelLadoDeLaCpu
  <2> QED
    BY <1>1, <1>2, <1>3, <2>1, <2>2, ExecSigue
<1>4. CASE Despedido' /\ ~EnLista(exec, cpuHilo)
  <2>1. \A h \in Hilos : ~EnLugar("cpu", h)'
    BY <1>4 DEF EnLugar
  <2>2. \A h \in Hilos : EnLista(exec', h) /\ DelLadoDeLaCpu(h) => DelLadoDeLaCpu(h)'
    BY <1>2, <1>4 DEF DelLadoDeLaCpu
  <2> QED
    BY <1>1, <1>2, <1>4, <2>1, <2>2, ExecSigue
<1> QED
  BY <1>3, <1>4

\* An answer of 0 makes the CPU leave its thread.
LEMMA FinCero ==
  ASSUME Todo, intKC' = Append(intKC, Fin(0))
  PROVE  Despedido'
<1>1. intKC \in Seq(Avisos) /\ Fin(0) \in Avisos
  BY TiposDeTodo, QuantumNoEsFin
<1>2. EnLista(Append(intKC, Fin(0)), Fin(0))
  BY <1>1, EnListaAgregar
<1> QED
  BY <1>2 DEF Despedido

\* The end of a thread: the ones joined to it go to READY.
LEMMA LugaresHiloFinalizado ==
  ASSUME Todo, HiloFinalizado
  PROVE  CadaUnoEnSuLugar'
<1>1. /\ kd.paso = "finHilo" /\ kd' = Recibe
      /\ intKC' = Append(intKC, Fin(0))
      /\ UNCHANGED <<listaNew, pcbs, exec, io, dispKC, dispCK, intCK, cpuHilo, cpuFase,
                     syscallBloquea, semRetorno>>
  BY DEF HiloFinalizado, Responde, cpuVars
<1>2. PICK W \in SUBSET {h \in espera : h[1] = kd.hilo[1] /\ h # kd.hilo} :
        \E orden \in [1..Cardinality(W) -> W] :
          /\ \A h \in W : \E i \in DOMAIN orden : orden[i] = h
          /\ ready' = ready \o orden
          /\ espera' = espera \ W
          /\ estado' = [h \in Hilos |-> IF h = kd.hilo THEN "EXIT"
                                        ELSE IF h \in W THEN "READY" ELSE estado[h]]
  BY DEF HiloFinalizado
<1>3. PICK orden \in [1..Cardinality(W) -> W] :
          /\ \A h \in W : \E i \in DOMAIN orden : orden[i] = h
          /\ ready' = ready \o orden
          /\ espera' = espera \ W
          /\ estado' = [h \in Hilos |-> IF h = kd.hilo THEN "EXIT"
                                        ELSE IF h \in W THEN "READY" ELSE estado[h]]
  BY <1>2
<1>4. W \subseteq Hilos /\ W \subseteq espera /\ IsFiniteSet(W)
  <2>1. W \subseteq espera /\ W \in SUBSET Hilos
    BY TiposDeTodo
  <2> QED
    BY <2>1, FS_Subset, ConstantesOK
<1>5. kd.hilo = cpuHilo /\ Creado(cpuHilo) /\ cpuHilo \in Hilos
  <2>1. kd.op # "DUMP_MEMORY"
    BY <1>1 DEF Todo, Conversacion, PasosDelHandler
  <2> QED
    BY <1>1, <2>1, TiposDeTodo DEF DebeRespuesta, Todo, CadaUnoEnSuLugar, DeQuienEs, EnOrdenCreados
<1>6. "espera" \in Lugares \ {"new"} /\ "ready" \in Lugares \ {"new"}
  BY DEF Lugares
<1>7. \A h \in W : EnLugar("espera", h)
  BY <1>4 DEF EnLugar
<1>8. \A h \in W : ~EnLista(ready, h) /\ Creado(h)
  <2>1. ASSUME NEW h \in W  PROVE ~EnLista(ready, h) /\ Creado(h)
    <3>1. h \in Hilos /\ EnLugar("espera", h)
      BY <1>4, <1>7
    <3>2. ~EnLugar("ready", h) /\ Creado(h)
      BY <1>6, <3>1 DEF Todo, CadaUnoEnSuLugar, UnLugar, EnOrdenCreados
    <3> QED
      BY <3>2 DEF EnLugar
  <2> QED
    BY <2>1
<1>9. \A h \in Hilos : Creado(h)' <=> Creado(h)
  BY <1>3, <1>5, <1>8 DEF Creado
<1>10. Creado(cpuHilo)'
  BY <1>1, <1>3, <1>5 DEF Creado
<1>11. /\ SinRepetir(ready')
       /\ \A h : EnLista(ready', h) <=> EnLista(ready, h) \/ h \in W
  <2>1. /\ orden \in Seq(W) /\ SinRepetir(orden)
        /\ \A h : EnLista(orden, h) <=> h \in W
    BY <1>3, <1>4, OrdenSinRepetir
  <2>2. orden \in Seq(Hilos)
    BY <1>4, <2>1
  <2>3. ready \in Seq(Hilos) /\ SinRepetir(ready) /\ \A h : ~(EnLista(ready, h) /\ EnLista(orden, h))
    BY <1>8, <2>1, TiposDeTodo
  <2>4. /\ \A h : EnLista(ready \o orden, h) <=> EnLista(ready, h) \/ EnLista(orden, h)
        /\ SinRepetir(ready \o orden)
    BY <2>1, <2>2, <2>3, EnListaJuntar
  <2>5. ready' = ready \o orden
    BY <1>3
  <2> QED
    BY <2>1, <2>4, <2>5
<1>12. Despedido'
  BY <1>1, FinCero
<1>13. kd'.paso = "recibe"
  BY <1>1 DEF Recibe
<1>14. espera' = espera \ W
  BY <1>3
<1>15. \A h \in Hilos, x \in Lugares : EnLugar(x, h)' =>
        \/ h \in W /\ x = "ready"
        \/ EnLugar(x, h) /\ ~(h \in W /\ x = "espera")
  BY <1>1, <1>11, <1>12, <1>13, <1>14 DEF EnLugar, Lugares
<1>16. UnLugar' /\ EnOrdenCreados'
  <2>1. listaNew' = listaNew /\ SinRepetir(dispKC') /\ SinRepetir(intCK')
    BY <1>1, TiposDeTodo
  <2>2. SinRepetir(ready') /\ \A h \in W : h \in Hilos /\ EnLugar("espera", h)
    BY <1>4, <1>7, <1>11
  <2> QED
    BY <1>9, <1>10, <1>15, <2>1, <2>2, VariosDespiertan
<1>17. DeQuienEs'
  BY <1>1, <1>13 DEF Todo, CadaUnoEnSuLugar, DeQuienEs, DebeRespuesta
<1>18. ExecEsLaCpu'
  <2>1. ~EnLista(exec, cpuHilo)
    BY <1>1, <1>5 DEF Todo, CadaUnoEnSuLugar, ExecEsLaCpu, HandlerLoSaca
  <2>2. \A h \in Hilos : Muere(h) => Muere(h)'
    BY <1>1 DEF Muere
  <2> QED
    BY <1>1, <1>12, <1>13, <2>1, <2>2, ExecTermina
<1> QED
  BY <1>16, <1>17, <1>18 DEF CadaUnoEnSuLugar

\* What TerminaHandler answers, at the end of plp.
LEMMA AlTerminar ==
  ASSUME Todo, kd.paso = "plp", UNCHANGED <<cpuHilo, syscallBloquea>>,
         TerminaHandler \/ UNCHANGED <<kd, intKC, semCpu>>
  PROVE  /\ kd' = Recibe \/ kd' = kd
         /\ kd'.paso \in {"recibe", "plp"}
         /\ Despedido => Despedido'
         /\ \/ Despedido' <=> Despedido
            \/ Despedido' /\ ~EnLista(exec, cpuHilo) /\ kd' = Recibe
<1>1. CASE UNCHANGED <<kd, intKC, semCpu>>
  BY <1>1 DEF Despedido
<1>2. CASE TerminaHandler
  <2>1. kd' = Recibe /\ kd'.paso = "recibe"
    BY <1>2 DEF TerminaHandler, Recibe
  <2>2. CASE kd.op = "PROCESS_EXIT"
    <3>1. intKC' = Append(intKC, Fin(0))
      BY <1>2, <2>2 DEF TerminaHandler
    <3>2. Despedido'
      BY <3>1, FinCero
    <3>3. kd.hilo = cpuHilo /\ ~EnLista(exec, kd.hilo)
      BY <2>2 DEF DebeRespuesta, Todo, CadaUnoEnSuLugar, DeQuienEs, ExecEsLaCpu, HandlerLoSaca
    <3> QED
      BY <2>1, <3>2, <3>3
  <2>3. CASE kd.op # "PROCESS_EXIT"
    <3>1. intKC' = Append(intKC, Fin(1)) \/ intKC' = intKC
      BY <1>2, <2>3 DEF TerminaHandler
    <3>2. EnLista(intKC', Fin(0)) <=> EnLista(intKC, Fin(0))
      BY <3>1, FinUno
    <3> QED
      BY <2>1, <3>2 DEF Despedido
  <2> QED
    BY <2>2, <2>3
<1> QED
  BY <1>1, <1>2

LEMMA LugaresPlpTermina ==
  ASSUME Todo, PlpTermina
  PROVE  CadaUnoEnSuLugar'
<1>1. /\ kd.paso = "plp" /\ TerminaHandler
      /\ UNCHANGED <<listaNew, pcbs, ready, exec, estado, espera, io, dispKC, dispCK, intCK,
                     cpuHilo, cpuFase, syscallBloquea, semRetorno>>
  BY DEF PlpTermina, listasVars, cpuVars
<1>2. /\ kd'.paso = "recibe"
      /\ Despedido => Despedido'
      /\ \/ Despedido' <=> Despedido
         \/ Despedido' /\ ~EnLista(exec, cpuHilo)
  <2>1. kd'.paso = "recibe"
    BY <1>1 DEF TerminaHandler, Recibe
  <2> QED
    BY <1>1, <2>1, AlTerminar
<1>3. \A h \in Hilos, x \in Lugares : EnLugar(x, h)' => EnLugar(x, h)
  BY <1>1, <1>2 DEF EnLugar, Lugares
<1>4. \A h \in Hilos : Creado(h)' <=> Creado(h)
  BY <1>1 DEF Creado
<1>5. Creado(cpuHilo)'
  BY <1>1 DEF Todo, CadaUnoEnSuLugar, EnOrdenCreados, Creado
<1>6. UnLugar' /\ EnOrdenCreados'
  <2>1. listaNew' = listaNew /\ SinRepetir(ready') /\ SinRepetir(dispKC') /\ SinRepetir(intCK')
    BY <1>1, TiposDeTodo
  <2> QED
    BY <1>3, <1>4, <1>5, <2>1, NadieMueve
<1>7. DeQuienEs'
  BY <1>1, <1>2 DEF Todo, CadaUnoEnSuLugar, DeQuienEs, DebeRespuesta
<1>8. ExecEsLaCpu'
  <2>1. \A h \in Hilos : Muere(h) => Muere(h)'
    BY <1>1 DEF Muere
  <2> QED
    BY <1>1, <1>2, <2>1, ExecTermina
<1> QED
  BY <1>6, <1>7, <1>8 DEF CadaUnoEnSuLugar

\* The first process that waits is admitted: its main thread goes to READY.
LEMMA LugaresPlpAdmite ==
  ASSUME Todo, PlpAdmite
  PROVE  CadaUnoEnSuLugar'
<1>1. PICK g \in Hilos : g = Head(listaNew)
  BY TiposDeTodo DEF PlpAdmite
<1>2. /\ kd.paso = "plp" /\ listaNew # <<>> /\ listaNew' = Tail(listaNew)
      /\ ready' = Append(ready, g)
      /\ estado' = [estado EXCEPT ![g] = "READY"]
      /\ pcbs' = pcbs \cup {g[1]}
      /\ TerminaHandler \/ UNCHANGED <<kd, intKC, semCpu>>
      /\ UNCHANGED <<exec, espera, io, dispKC, dispCK, intCK, cpuHilo, cpuFase, syscallBloquea,
                     semRetorno>>
  BY <1>1 DEF PlpAdmite, cpuVars
<1>3. /\ kd' = Recibe \/ kd' = kd
      /\ kd'.paso \in {"recibe", "plp"}
      /\ Despedido => Despedido'
      /\ \/ Despedido' <=> Despedido
         \/ Despedido' /\ ~EnLista(exec, cpuHilo) /\ kd' = Recibe
  BY <1>2, AlTerminar
<1>4. /\ SinRepetir(listaNew') /\ ~EnLista(listaNew', g)
      /\ \A h : EnLista(listaNew, h) <=> h = g \/ EnLista(listaNew', h)
  BY <1>1, <1>2, TiposDeTodo, EnListaSacarPrimero
<1>5. "new" \in Lugares /\ "ready" \in Lugares /\ EnLugar("new", g)
  BY <1>4 DEF EnLugar, Lugares
<1>6. /\ \A x \in Lugares : EnLugar(x, g) => x = "new"
      /\ Creado(g) /\ g[2] = 0
  BY <1>5 DEF Todo, CadaUnoEnSuLugar, UnLugar, EnOrdenCreados
<1>7. g = <<g[1], 0>>
  BY <1>6, ConstantesOK
<1>8. /\ SinRepetir(ready')
      /\ \A h : EnLista(ready', h) <=> EnLista(ready, h) \/ h = g
  <2>1. ~EnLista(ready, g)
    BY <1>5, <1>6 DEF EnLugar
  <2>2. /\ SinRepetir(Append(ready, g))
        /\ \A h : EnLista(Append(ready, g), h) <=> EnLista(ready, h) \/ h = g
    BY <2>1, TiposDeTodo, EnListaAgregar
  <2> QED
    BY <1>2, <2>2
<1>9. \A h \in Hilos, x \in Lugares : EnLugar(x, h)' =>
        \/ h = g /\ x = "ready"
        \/ EnLugar(x, h) /\ h # g
  <2>1. \A h \in Hilos, x \in Lugares : EnLugar(x, h)' =>
          \/ h = g /\ x = "ready"
          \/ EnLugar(x, h) /\ ~(h = g /\ x = "new")
    BY <1>2, <1>3, <1>4, <1>8 DEF EnLugar, Lugares
  <2> QED
    BY <1>6, <2>1
<1>10. \A h \in Hilos : Creado(h)' <=> Creado(h)
  BY <1>2, <1>6, TiposDeTodo DEF Creado
<1>11. Creado(cpuHilo)'
  BY <1>2, <1>10, TiposDeTodo DEF Todo, CadaUnoEnSuLugar, EnOrdenCreados, Creado
<1>12. UnLugar'
  <2>1. ASSUME NEW h \in Hilos, NEW x \in Lugares, NEW w \in Lugares,
               EnLugar(x, h)', EnLugar(w, h)'
        PROVE  x = w
    BY <1>9, <2>1 DEF Todo, CadaUnoEnSuLugar, UnLugar
  <2>2. SinRepetir(dispKC') /\ SinRepetir(intCK')
    BY <1>2, TiposDeTodo
  <2> QED
    BY <1>4, <1>8, <2>1, <2>2 DEF UnLugar
<1>13. EnOrdenCreados'
  <2>1. ASSUME NEW h \in Hilos, Creado(h)'
        PROVE  /\ \A t \in 0..h[2] : <<h[1], t>> \in Hilos /\ Creado(<<h[1], t>>)'
               /\ \A p \in 0..h[1] : <<p, 0>> \in Hilos /\ Creado(<<p, 0>>)'
    BY <1>10, <2>1 DEF Todo, CadaUnoEnSuLugar, EnOrdenCreados
  <2>2. ASSUME NEW h \in Hilos, NEW x \in Lugares, EnLugar(x, h)'
        PROVE  /\ Creado(h)'
               /\ x # "new" => ~EnLista(listaNew', <<h[1], 0>>)
               /\ x = "new" => h[2] = 0
    <3>1. CASE h = g
      BY <1>4, <1>6, <1>7, <1>10, <3>1
    <3>2. CASE h # g
      <4>1. EnLugar(x, h)
        BY <1>9, <2>2, <3>2
      <4>2. /\ Creado(h)
            /\ x # "new" => ~EnLista(listaNew, <<h[1], 0>>)
            /\ x = "new" => h[2] = 0
        BY <4>1 DEF Todo, CadaUnoEnSuLugar, EnOrdenCreados
      <4> QED
        BY <1>4, <1>10, <4>2
    <3> QED
      BY <3>1, <3>2
  <2> QED
    BY <1>11, <2>1, <2>2 DEF EnOrdenCreados
<1>14. DeQuienEs'
  BY <1>2, <1>3 DEF Todo, CadaUnoEnSuLugar, DeQuienEs, DebeRespuesta, Recibe
<1>15. ASSUME NEW h \in Hilos, Muere(h), EnLugar("camino", h) \/ EnLugar("cpu", h)
       PROVE  Muere(h)'
  <2>1. h[1] \notin pcbs
    BY <1>2, <1>15 DEF Muere
  <2>2. ~EnLista(listaNew, <<h[1], 0>>)
    BY <1>15 DEF Lugares, Todo, CadaUnoEnSuLugar, EnOrdenCreados
  <2>3. h[1] # g[1]
    BY <1>4, <1>7, <2>2
  <2> QED
    BY <1>2, <2>1, <2>3 DEF Muere
<1>16. ExecEsLaCpu'
  <2>1. CASE kd' = Recibe
    <3>1. kd'.paso = "recibe"
      BY <2>1 DEF Recibe
    <3> QED
      BY <1>2, <1>3, <1>15, <3>1, ExecTermina
  <2>2. CASE kd' = kd /\ (Despedido' <=> Despedido)
    <3>1. HandlerLoSaca'
      BY <1>2, <2>2 DEF Todo, CadaUnoEnSuLugar, ExecEsLaCpu, HandlerLoSaca
    <3>2. \A h \in Hilos : /\ EnLugar("camino", h)' <=> EnLugar("camino", h)
                           /\ EnLugar("cpu", h)' <=> EnLugar("cpu", h)
                           /\ EnLugar("desalojo", h)' <=> EnLugar("desalojo", h)
      BY <1>2, <2>2 DEF EnLugar
    <3>3. \A h \in Hilos : DelLadoDeLaCpu(h) => DelLadoDeLaCpu(h)'
      BY <3>2 DEF DelLadoDeLaCpu
    <3> QED
      BY <1>2, <1>15, <2>2, <3>1, <3>2, <3>3, ExecSigue
  <2> QED
    BY <1>3, <2>1, <2>2
<1> QED
  BY <1>12, <1>13, <1>14, <1>16 DEF CadaUnoEnSuLugar

\* pcp sends a ready thread to the CPU, with nothing in EXEC.
LEMMA LugaresDespacha ==
  ASSUME Todo, NEW l \in Seq(Hilos), SinRepetir(l), \A h : EnLista(l, h) <=> EnLista(ready, h),
         NEW k \in 1..Len(l), exec = <<>>, Despachar(l[k], SinIndice(l, k)),
         UNCHANGED <<listaNew, pcbs, espera, kd, io, dispCK, intKC, intCK, cpuHilo, cpuFase,
                     syscallBloquea, semRetorno>>
  PROVE  CadaUnoEnSuLugar'
<1>1. PICK g \in Hilos : g = l[k]
  OBVIOUS
<1>2. /\ ready' = SinIndice(l, k) /\ exec' = Append(exec, g)
      /\ estado' = [estado EXCEPT ![g] = "EXEC"]
      /\ dispKC' = Append(dispKC, g)
  BY <1>1 DEF Despachar
<1>3. EnLista(ready, g)
  BY <1>1 DEF EnLista
<1>4. /\ EnLugar("ready", g) /\ "ready" \in Lugares \ {"new"} /\ "camino" \in Lugares \ {"new"}
      /\ "cpu" \in Lugares
  BY <1>3 DEF EnLugar, Lugares
<1>5. /\ ~EnLugar("camino", g) /\ ~EnLugar("cpu", g) /\ Creado(g)
  BY <1>4 DEF Todo, CadaUnoEnSuLugar, UnLugar, EnOrdenCreados
<1>6. /\ SinRepetir(ready')
      /\ \A h : EnLista(ready', h) <=> EnLista(ready, h) /\ h # g
  BY <1>1, <1>2, EnListaSinIndice
<1>7. /\ SinRepetir(dispKC')
      /\ \A h : EnLista(dispKC', h) <=> EnLista(dispKC, h) \/ h = g
  <2>1. ~EnLista(dispKC, g)
    BY <1>5 DEF EnLugar
  <2> QED
    BY <1>2, <2>1, TiposDeTodo, EnListaAgregar
<1>8. \A h \in Hilos : Creado(h)' <=> Creado(h)
  BY <1>2, <1>5, TiposDeTodo DEF Creado
<1>9. Creado(cpuHilo)'
  BY <1>8, TiposDeTodo DEF Todo, CadaUnoEnSuLugar, EnOrdenCreados, Creado
<1>10. \A h \in Hilos, x \in Lugares : EnLugar(x, h)' =>
        \/ h = g /\ x = "camino"
        \/ EnLugar(x, h) /\ ~(h = g /\ x = "ready")
  BY <1>6, <1>7 DEF EnLugar, Lugares, Despedido
<1>11. UnLugar' /\ EnOrdenCreados'
  <2>1. listaNew' = listaNew /\ SinRepetir(ready') /\ SinRepetir(dispKC') /\ SinRepetir(intCK')
    BY <1>6, <1>7, TiposDeTodo
  <2> QED
    BY <1>4, <1>8, <1>9, <1>10, <2>1, UnoMueve
<1>12. \A h : EnLista(exec', h) <=> h = g
  <2>1. \A h : ~EnLista(exec, h)
    BY DEF EnLista
  <2> QED
    BY <1>2, <2>1, TiposDeTodo, EnListaAgregar
<1>13. \A h \in Hilos : (EnLugar("cpu", h)' <=> EnLugar("cpu", h)) /\ (Muere(h)' <=> Muere(h))
  BY DEF EnLugar, Despedido, Muere
<1>14. ExecEsLaCpu'
  <2>1. \A h \in Hilos : EnExecOMuere(h) => Muere(h)
    BY DEF EnExecOMuere
  <2>2. ASSUME NEW h \in Hilos, EnLugar("camino", h)'  PROVE EnExecOMuere(h)'
    <3>1. CASE h = g
      <4>1. exec' = <<g>>
        BY <1>2
      <4> QED
        BY <3>1, <4>1 DEF EnExecOMuere
    <3>2. CASE h # g
      <4>1. EnLugar("camino", h)
        BY <1>7, <2>2, <3>2 DEF EnLugar
      <4>2. Muere(h)
        BY <2>1, <4>1 DEF Todo, CadaUnoEnSuLugar, ExecEsLaCpu
      <4> QED
        BY <1>13, <4>2 DEF EnExecOMuere
    <3> QED
      BY <3>1, <3>2
  <2>3. ASSUME EnLugar("cpu", cpuHilo)', kd'.paso \notin {"finHilo", "colgado"}
        PROVE  EnExecOMuere(cpuHilo)'
    <3>1. EnLugar("cpu", cpuHilo) /\ cpuHilo \in Hilos
      BY <1>13, <2>3, TiposDeTodo DEF EnLugar, Despedido
    <3>2. Muere(cpuHilo)
      BY <2>1, <2>3, <3>1 DEF Todo, CadaUnoEnSuLugar, ExecEsLaCpu
    <3> QED
      BY <3>2 DEF EnExecOMuere, Muere
  <2>4. DebeRespuesta => kd.hilo # g
    <3>1. SUFFICES ASSUME DebeRespuesta PROVE kd.hilo # g
      OBVIOUS
    <3>2. kd.hilo = cpuHilo /\ cpuFase # "libre" /\ semRetorno = 0 /\ Ninguno(intKC, Fines)
      BY <3>1 DEF Todo, CadaUnoEnSuLugar, DeQuienEs, Conversacion, UnaFichaSola, EsperaSuRespuesta
    <3>3. ~EnLista(intKC, Fin(0)) /\ ~syscallBloquea
      BY <3>2, QuantumNoEsFin DEF Ninguno, EnLista, Todo, CadaUnoEnSuLugar, DeQuienEs
    <3>4. EnLugar("cpu", cpuHilo)
      BY <3>2, <3>3 DEF EnLugar, Despedido
    <3> QED
      BY <1>5, <3>2, <3>4
  <2>5. HandlerLoSaca'
    <3>1. kd.paso = "finHilo" => DebeRespuesta
      BY DEF DebeRespuesta, Todo, Conversacion, PasosDelHandler
    <3>2. kd.op = "PROCESS_EXIT" /\ kd.paso \in {"saca", "finProceso", "plp"} => DebeRespuesta
      BY DEF DebeRespuesta
    <3> QED
      BY <1>12, <2>4, <3>1, <3>2 DEF Todo, CadaUnoEnSuLugar, ExecEsLaCpu, HandlerLoSaca
  <2>6. \A h \in Hilos : EnLista(exec', h) => DelLadoDeLaCpu(h)'
    BY <1>7, <1>12 DEF DelLadoDeLaCpu, EnLugar
  <2> QED
    BY <2>2, <2>3, <2>5, <2>6 DEF ExecEsLaCpu
<1> QED
  BY <1>11, <1>14, DeQuienEsQuieto DEF CadaUnoEnSuLugar

LEMMA LugaresPcp ==
  ASSUME Todo, AtenderFIFO \/ AtenderRR \/ AtenderPRIORIDADES
  PROVE  CadaUnoEnSuLugar'
<1>1. UNCHANGED <<listaNew, pcbs, espera, kd, io, dispCK, intKC, intCK, cpuHilo, cpuFase,
                  syscallBloquea, semRetorno>>
  BY DEF AtenderFIFO, AtenderRR, AtenderPRIORIDADES, hilosVars, cpuVars
<1>2. CASE NoDespachar
  BY <1>1, <1>2, LugaresQuietos DEF NoDespachar, listasVars, hilosVars, canalVars
<1>3. CASE AtenderFIFO /\ ~NoDespachar
  <2>1. exec = <<>> /\ ready # <<>> /\ Despachar(ready[1], SinIndice(ready, 1))
    BY <1>3 DEF AtenderFIFO
  <2>2. 1 \in 1..Len(ready)
    BY <2>1, TiposDeTodo
  <2> QED
    BY <1>1, <2>1, <2>2, TiposDeTodo, LugaresDespacha
<1>4. CASE AtenderRR /\ ~NoDespachar
  <2>1. PICK p \in OrdenesEstables(ready, prioridad) :
          /\ exec = <<>> /\ ready # <<>>
          /\ Despachar(EnOrden(ready, p)[1], SinIndice(EnOrden(ready, p), 1))
    BY <1>4 DEF AtenderRR
  <2>2. prioridad \in [Hilos -> Nat] /\ ready \in Seq(Hilos)
    BY TiposDeTodo, ConstantesOK DEF Todo, TypeOK, TipoKernel
  <2>3. PICK l \in Seq(Hilos) : l = EnOrden(ready, p)
    BY <2>2, EnListaOrden
  <2>4. /\ Len(l) = Len(ready)
        /\ \A h : EnLista(l, h) <=> EnLista(ready, h)
        /\ SinRepetir(l)
    BY <2>2, <2>3, TiposDeTodo, EnListaOrden
  <2>5. 1 \in 1..Len(l)
    BY <2>1, <2>2, <2>4
  <2>6. exec = <<>> /\ Despachar(l[1], SinIndice(l, 1))
    BY <2>1, <2>3
  <2> QED
    BY <1>1, <2>4, <2>5, <2>6, LugaresDespacha
<1>5. CASE AtenderPRIORIDADES /\ ~NoDespachar
  <2>1. PICK k \in 1..Len(ready) : exec = <<>> /\ Despachar(ready[k], SinIndice(ready, k))
    BY <1>5 DEF AtenderPRIORIDADES
  <2> QED
    BY <1>1, <2>1, TiposDeTodo, LugaresDespacha
<1> QED
  BY <1>2, <1>3, <1>4, <1>5

LEMMA InitLugares == Init => CadaUnoEnSuLugar
<1> SUFFICES ASSUME Init PROVE CadaUnoEnSuLugar
  OBVIOUS
<1>1. /\ listaNew = <<>> /\ ready = <<Inicial>> /\ exec = <<>> /\ espera = {} /\ kd.paso = "recibe"
      /\ io = [h \in Hilos |-> "no"] /\ dispKC = <<>> /\ dispCK = <<>> /\ intCK = <<>>
      /\ intKC = <<>> /\ cpuFase = "libre" /\ cpuHilo = Inicial /\ syscallBloquea = FALSE
      /\ kd.op = "IO"
      /\ estado = [h \in Hilos |-> IF h = Inicial THEN "READY" ELSE "NADA"]
  BY DEF Init, Recibe
<1>2. \A h \in Hilos : \A x \in Lugares : EnLugar(x, h) => x = "ready" /\ h = Inicial
  <2>1. \A h \in Hilos : EnLista(ready, h) => h = Inicial
    BY <1>1 DEF EnLista
  <2>2. \A h : ~EnLista(<<>>, h)
    BY DEF EnLista
  <2> QED
    BY <1>1, <2>1, <2>2 DEF EnLugar, Lugares
<1>3. UnLugar
  BY <1>1, <1>2 DEF UnLugar, SinRepetir
<1>4. DeQuienEs
  BY <1>1 DEF DeQuienEs, DebeRespuesta
<1>5. EnOrdenCreados
  <2>1. \A h \in Hilos : Creado(h) <=> h = Inicial
    BY <1>1 DEF Creado
  <2>2. Inicial[1] = 0 /\ Inicial[2] = 0 /\ Inicial \in Hilos /\ Creado(Inicial)
    BY <2>1, ConstantesOK DEF Inicial
  <2>3. \A t \in 0..0 : <<0, t>> = Inicial /\ <<t, 0>> = Inicial
    BY DEF Inicial
  <2>4. ~EnLista(listaNew, <<0, 0>>)
    BY <1>1 DEF EnLista
  <2>5. ASSUME NEW h \in Hilos, Creado(h)
        PROVE  /\ \A t \in 0..h[2] : <<h[1], t>> \in Hilos /\ Creado(<<h[1], t>>)
               /\ \A p \in 0..h[1] : <<p, 0>> \in Hilos /\ Creado(<<p, 0>>)
    BY <2>1, <2>2, <2>3, <2>5
  <2>6. ASSUME NEW h \in Hilos, NEW x \in Lugares, EnLugar(x, h)
        PROVE  /\ Creado(h)
               /\ x # "new" => ~EnLista(listaNew, <<h[1], 0>>)
               /\ x = "new" => h[2] = 0
    BY <1>2, <2>2, <2>4, <2>6
  <2> QED
    BY <1>1, <2>2, <2>5, <2>6 DEF EnOrdenCreados
<1>6. ExecEsLaCpu
  <2>1. \A h : ~EnLista(exec, h)
    BY <1>1 DEF EnLista
  <2>2. \A h \in Hilos : ~EnLugar("camino", h)
    BY <1>2 DEF Lugares
  <2>3. ~EnLugar("cpu", cpuHilo)
    BY <1>1 DEF EnLugar
  <2> QED
    BY <1>1, <2>1, <2>2, <2>3 DEF ExecEsLaCpu, HandlerLoSaca
<1> QED
  BY <1>3, <1>4, <1>5, <1>6 DEF CadaUnoEnSuLugar

LEMMA PasoLugares == Todo /\ [Next]_vars => CadaUnoEnSuLugar'
<1> SUFFICES ASSUME Todo, [Next]_vars PROVE CadaUnoEnSuLugar'
  OBVIOUS
<1>1. CASE PasoPcp
  BY <1>1, LugaresPcp, LugaresSinCambio DEF PasoPcp
<1>2. CASE TemporizadorVence \/ GestionarInterrupt \/ AtenderDesalojoQuantum
  BY <1>2, LugaresSinCambio, LugaresInterrupt, LugaresDesalojo
<1>3. ASSUME NEW m \in Mensajes, AtenderMensaje(m)  PROVE CadaUnoEnSuLugar'
  BY <1>3, LugaresSeguir, LugaresBloqueantes, LugaresDespertar, LugaresThreadCreate,
     LugaresThreadExit, LugaresFinDeProceso, LugaresProcessCreate DEF AtenderMensaje
<1>4. CASE PasoDispatch
  BY <1>3, <1>4, LugaresDesalojoSyscall, LugaresDumpRespondido, LugaresDumpAvisa,
     LugaresHiloFinalizado, LugaresHiloColgado, LugaresSacarHilo, LugaresProcesoFinalizado,
     LugaresPlpAdmite, LugaresPlpTermina DEF PasoDispatch
<1>5. CASE \E h \in Hilos : PasoIo(h)
  BY <1>5, LugaresIoTermina, LugaresIoSigue DEF PasoIo
<1>6. CASE PasoCpu \/ (\E o \in Syscalls : CpuSyscall(o) \/ CpuError(o)) \/ CpuAvisos
  BY <1>6, LugaresCpu, LugaresAvisos
<1>7. CASE (\E h \in Hilos : MemoriaCreaHilo(h)) \/ MemoriaNoEncuentra \/ UNCHANGED vars
  BY <1>7, LugaresSinCambio
<1>8. CASE TemporizadorViejoVence \/ Abrazo \/ BusquedasCruzadas
  BY <1>8, LugaresSinCambio
<1> QED
  BY <1>1, <1>2, <1>4, <1>5, <1>6, <1>7, <1>8 DEF Next

LEMMA SiempreLugares == Spec => []CadaUnoEnSuLugar
<1>1. TypeOK /\ UnoEnEjecucion /\ Conversacion /\ CadaUnoEnSuLugar /\ [Next]_vars
        => CadaUnoEnSuLugar'
  BY PasoLugares DEF Todo
<1> QED
  BY <1>1, InitLugares, TiposCorrectos, UnSoloHiloEnEjecucion, SiempreConversacion, PTL DEF Spec

\* Until two searches overlap no thread is twice in READY nor in READY and EXEC,
\* in whatever order the four kernel threads that move TCBs take their steps.
THEOREM SinDuplicadosSiempre == Spec => []SinDuplicados
<1>1. TypeOK /\ UnoEnEjecucion /\ Conversacion /\ CadaUnoEnSuLugar => SinDuplicados
  <2> SUFFICES ASSUME TypeOK, UnoEnEjecucion, Conversacion, CadaUnoEnSuLugar
               PROVE  SinDuplicados
    OBVIOUS
  <2>1. Todo
    BY DEF Todo
  <2>2. ASSUME NEW i \in 1..Len(ready), EnLista(exec, ready[i])  PROVE FALSE
    <3>1. PICK h \in Hilos : h = ready[i]
      BY <2>1, TiposDeTodo
    <3>2. EnLugar("ready", h)
      BY <3>1 DEF EnLugar, EnLista
    <3>3. DelLadoDeLaCpu(h)
      BY <2>2, <3>1 DEF CadaUnoEnSuLugar, ExecEsLaCpu
    <3> QED
      BY <3>2, <3>3 DEF DelLadoDeLaCpu, CadaUnoEnSuLugar, UnLugar, Lugares
  <2> QED
    BY <2>1, <2>2, TiposDeTodo DEF SinDuplicados, SinRepetir
<1> QED
  BY <1>1, TiposCorrectos, UnSoloHiloEnEjecucion, SiempreConversacion, SiempreLugares, PTL

\* Until two searches overlap what the CPU has loaded is in EXEC, or its process
\* is being taken apart.
THEOREM CpuYExecDeAcuerdo == Spec => []CpuEjecutaLoDeExec
<1>1. TypeOK /\ UnoEnEjecucion /\ Conversacion /\ CadaUnoEnSuLugar => CpuEjecutaLoDeExec
  <2> SUFFICES ASSUME TypeOK, UnoEnEjecucion, Conversacion, CadaUnoEnSuLugar,
                      cpuFase \in {"contexto", "ejecuta"}
               PROVE  exec = <<cpuHilo>> \/ Terminando(cpuHilo)
    BY DEF CpuEjecutaLoDeExec
  <2>1. Todo
    BY DEF Todo
  <2>2. EnLugar("cpu", cpuHilo)
    BY <2>1, SoloEnRetorno DEF EnLugar
  <2>3. kd.paso \notin {"finHilo", "colgado"}
    BY <2>1, SinPedidos
  <2>4. EnExecOMuere(cpuHilo)
    BY <2>2, <2>3 DEF CadaUnoEnSuLugar, ExecEsLaCpu
  <2> QED
    BY <2>4 DEF EnExecOMuere, Muere, Terminando
<1> QED
  BY <1>1, TiposCorrectos, UnSoloHiloEnEjecucion, SiempreConversacion, SiempreLugares, PTL

\* The steps that put a thread in an empty EXEC are pcp's.
LEMMA SoloPcpDespacha ==
  ASSUME TypeOK, exec = <<>>, exec' # <<>>, [Next]_vars
  PROVE  AtenderFIFO \/ AtenderRR \/ AtenderPRIORIDADES
<1>1. \A h : Quitar(exec, h) = <<>>
  BY DEF Quitar, EnLista
<1>2. \A m \in Mensajes : ~AtenderMensaje(m)
  BY <1>1
     DEF AtenderMensaje, AtenderYSeguir, AtenderYCaer, AtenderYBloquear, AtenderYDespertar,
         AtenderYDespertarMal, AtenderThreadCreate, AtenderIO, AtenderDump,
         AtenderThreadExit, AtenderFinDeProceso, AtenderProcessCreate, listasVars
<1>3. ~PasoDispatch
  BY <1>1, <1>2
     DEF PasoDispatch, AtenderDesalojoSyscall, DumpRespondido, DumpAvisa, HiloFinalizado,
         HiloColgado, SacarHilo, ProcesoFinalizado, PlpAdmite, PlpTermina, listasVars
<1>4. /\ ~TemporizadorVence /\ ~GestionarInterrupt /\ ~AtenderDesalojoQuantum
      /\ \A h \in Hilos : ~PasoIo(h)
  BY <1>1 DEF TemporizadorVence, GestionarInterrupt, AtenderDesalojoQuantum, PasoIo, IoToma,
              IoTermina, IoAvisa, listasVars
<1>5. ~PasoCpu /\ ~CpuAvisos /\ \A o \in Syscalls : ~CpuSyscall(o) /\ ~CpuError(o)
  BY DEF PasoCpu, CpuAvisos, CpuRecibe, CpuContexto, CpuInstruccion, CpuRetorna, CpuRespuesta,
         CpuInterrupcion, CpuSyscall, CpuError, listasVars
<1>6. (\A h \in Hilos : ~MemoriaCreaHilo(h)) /\ ~MemoriaNoEncuentra /\ ~UNCHANGED vars
  BY DEF MemoriaCreaHilo, MemoriaNoEncuentra, vars, listasVars
<1>7. ~PcpDespierta /\ ~PcpMira
  BY DEF PcpDespierta, PcpMira, listasVars
<1>8. ~TemporizadorViejoVence /\ ~Abrazo /\ ~BusquedasCruzadas
  BY DEF TemporizadorViejoVence, Abrazo, BusquedasCruzadas, listasVars
<1> QED
  BY <1>3, <1>4, <1>5, <1>6, <1>7, <1>8 DEF Next, PasoPcp

\* A dispatch takes, of the ready threads, the one of best priority that arrived
\* first (the first under FIFO), in spite of the sort and of the appends.
THEOREM DespachosJustos == Spec => DespachaAlMejor
<1> DEFINE Mejor(i, j) ==
      /\ algoritmo # "FIFO" => prioridad[ready[j]] <= prioridad[ready[i]]
      /\ algoritmo = "FIFO" \/ prioridad[ready[j]] = prioridad[ready[i]] => j < i
<1>1. ASSUME TypeOK, SinRepetir(ready), [Next]_vars,
             NEW i \in 1..Len(ready), NEW j \in 1..Len(ready),
             exec = <<>>, exec' = <<ready[j]>>, i # j
      PROVE  Mejor(i, j)
  <2>1. ready \in Seq(Hilos) /\ prioridad \in [Hilos -> Nat]
    BY <1>1, ConstantesOK DEF TypeOK, TipoListas, TipoKernel
  <2>2. AtenderFIFO \/ AtenderRR \/ AtenderPRIORIDADES
    <3>1. exec' # <<>>
      BY <1>1
    <3> QED
      BY <1>1, <3>1, SoloPcpDespacha
  <2>3. \A h : exec' = Append(exec, h) => h = ready[j]
    <3>1. \A h : Append(exec, h) = <<h>>
      BY <1>1
    <3>2. \A h : <<h>> = <<ready[j]>> => h = ready[j]
      <4>1. \A h : <<h>>[1] = h
        OBVIOUS
      <4> QED
        BY <4>1
    <3> QED
      BY <1>1, <3>1, <3>2
  <2>4. ~NoDespachar
    BY <1>1 DEF NoDespachar
  <2>5. CASE AtenderFIFO
    <3>1. algoritmo = "FIFO" /\ exec' = Append(exec, ready[1]) /\ ready # <<>>
      BY <2>4, <2>5 DEF AtenderFIFO, Despachar
    <3>2. 1 \in 1..Len(ready) /\ ready[1] = ready[j]
      BY <2>1, <2>3, <3>1
    <3>3. j = 1
      BY <1>1, <3>2 DEF SinRepetir
    <3> QED
      BY <1>1, <2>1, <3>1, <3>3
  <2>6. CASE AtenderRR
    <3>1. PICK p \in OrdenesEstables(ready, prioridad) :
            exec' = Append(exec, EnOrden(ready, p)[1]) /\ ready # <<>>
      BY <2>4, <2>6 DEF AtenderRR, Despachar
    <3>2. /\ p \in [1..Len(ready) -> 1..Len(ready)]
          /\ \A b \in 1..Len(ready) : \E a \in 1..Len(ready) : p[a] = b
      BY <2>1, OrdenEstable, ZenonT(30)
    <3>3. 1 \in 1..Len(ready) /\ \A a \in 1..Len(ready) : a = 1 \/ 1 < a
      BY <2>1, <3>1
    <3>4. EnOrden(ready, p)[1] = ready[p[1]] /\ p[1] \in 1..Len(ready)
      BY <3>2, <3>3 DEF EnOrden
    <3>5. ready[p[1]] = ready[j]
      BY <2>3, <3>1, <3>4
    <3>6. p[1] = j
      BY <1>1, <3>4, <3>5 DEF SinRepetir
    <3>7. PICK a \in 1..Len(ready) : p[a] = i
      BY <3>2
    <3>8. 1 < a
      BY <1>1, <3>3, <3>6, <3>7
    <3>9. \/ prioridad[ready[p[1]]] < prioridad[ready[p[a]]]
          \/ prioridad[ready[p[1]]] = prioridad[ready[p[a]]] /\ p[1] < p[a]
      BY <3>3, <3>8 DEF OrdenesEstables
    <3>10. /\ prioridad[ready[j]] \in Nat /\ prioridad[ready[i]] \in Nat
           /\ algoritmo = "CMN"
      BY <2>1, <2>6 DEF AtenderRR
    <3> QED
      BY <3>6, <3>7, <3>9, <3>10
  <2>7. CASE AtenderPRIORIDADES
    <3>1. PICK k \in 1..Len(ready) : EsMaximo(k) /\ exec' = Append(exec, ready[k])
      BY <2>4, <2>7 DEF AtenderPRIORIDADES, Despachar
    <3>2. k = j
      BY <1>1, <2>3, <3>1 DEF SinRepetir
    <3>3. \/ prioridad[ready[j]] < prioridad[ready[i]]
          \/ prioridad[ready[j]] = prioridad[ready[i]] /\ j <= i
      BY <3>1, <3>2 DEF EsMaximo
    <3>4. /\ prioridad[ready[j]] \in Nat /\ prioridad[ready[i]] \in Nat
          /\ algoritmo = "PRIORIDADES" /\ i \in Nat /\ j \in Nat
      BY <2>1, <2>7 DEF AtenderPRIORIDADES
    <3> QED
      BY <1>1, <3>3, <3>4
  <2> QED
    BY <2>2, <2>5, <2>6, <2>7
<1>2. TypeOK /\ CadaUnoEnSuLugar /\ [Next]_vars =>
        [\A i, j \in 1..Len(ready) :
           exec = <<>> /\ exec' = <<ready[j]>> /\ i # j => Mejor(i, j)]_vars
  BY <1>1 DEF CadaUnoEnSuLugar, UnLugar
<1> QED
  BY <1>2, TiposCorrectos, SiempreLugares, PTL DEF Spec, DespachaAlMejor

-----------------------------------------------------------------------------
(* The posts of sem_cpu_disponible *)

\* While the handler of a dump is in the middle of it, the CPU has been told to
\* leave the thread, knows it, or has said that it did.
DumpAnuncia ==
  kd.op = "DUMP_MEMORY" /\ kd.paso # "recibe" => Despedido \/ EnLista(dispCK, Desalojo)

\* What makes pcp look again once the CPU is idle.
LlegaUnPost ==
  \/ semCpu > 0 \/ pcp # "espera" \/ intCK # <<>> \/ EnLista(dispCK, Desalojo)
  \/ kd.paso # "recibe" \/ \E h \in Hilos : io[h] = "avisa"

AlguienPostea ==
  kernel = "vivo" /\ cpuFase = "libre" /\ exec = <<>> /\ ready # <<>> => LlegaUnPost

LEMMA AnunciaSigue ==
  ASSUME DumpAnuncia, kd' = kd \/ (kd'.op = kd.op /\ kd.paso # "recibe"),
         Despedido => Despedido' \/ EnLista(dispCK', Desalojo),
         EnLista(dispCK, Desalojo) => EnLista(dispCK', Desalojo)
  PROVE  DumpAnuncia'
BY DEF DumpAnuncia

LEMMA AnunciaQuieta ==
  ASSUME DumpAnuncia, UNCHANGED <<kd, dispCK, intKC, syscallBloquea>>
  PROVE  DumpAnuncia'
BY DEF DumpAnuncia, Despedido

\* A handler that starts is of no dump, or has answered 0.
LEMMA AnunciaHandler ==
  ASSUME Todo, NEW m \in Mensajes, AtenderMensaje(m)
  PROVE  DumpAnuncia'
<1>1. kd.paso = "recibe"
  <2>1. Atiende(m)
    BY DEF AtenderMensaje, AtenderYSeguir, AtenderYCaer, AtenderYBloquear, AtenderYDespertar,
           AtenderYDespertarMal, AtenderThreadCreate, AtenderIO, AtenderDump,
           AtenderThreadExit, AtenderFinDeProceso, AtenderProcessCreate
  <2> QED
    BY <2>1 DEF Atiende
<1>2. CASE AtenderDump(m)
  <2>1. intKC' = Append(intKC, Fin(0))
    BY <1>2 DEF AtenderDump, Responde
  <2>2. Fin(0) \in Avisos
    BY QuantumNoEsFin DEF Fin
  <2>3. EnLista(intKC', Fin(0))
    BY <2>1, <2>2, TiposDeTodo, EnListaAgregar
  <2> QED
    BY <2>3 DEF DumpAnuncia, Despedido
<1>3. CASE ~AtenderDump(m)
  <2>1. kd' = kd \/ \E paso \in Pasos : Sigue(paso, m) /\ m.op # "DUMP_MEMORY"
    BY <1>3 DEF AtenderMensaje, AtenderYSeguir, AtenderYCaer, AtenderYBloquear, AtenderYDespertar,
           AtenderYDespertarMal, AtenderThreadCreate, AtenderIO,
           AtenderThreadExit, AtenderFinDeProceso, AtenderProcessCreate, Pasos, Errores,
           hilosVars
  <2>2. CASE kd' = kd
    BY <1>1, <2>2 DEF DumpAnuncia
  <2>3. CASE \E paso \in Pasos : Sigue(paso, m) /\ m.op # "DUMP_MEMORY"
    BY <2>3 DEF DumpAnuncia, Sigue
  <2> QED
    BY <2>1, <2>2, <2>3
<1> QED
  BY <1>2, <1>3

\* The rest of the dispatch thread.
LEMMA AnunciaDispatch ==
  ASSUME Todo, DumpAnuncia, PasoDispatch
  PROVE  DumpAnuncia'
<1>1. CASE DumpRespondido \/ HiloColgado \/ SacarHilo \/ ProcesoFinalizado
  <2>1. kd'.op = kd.op /\ kd.paso # "recibe" /\ UNCHANGED <<dispCK, intKC, syscallBloquea>>
    BY <1>1, TiposDeTodo DEF DumpRespondido, HiloColgado, SacarHilo, ProcesoFinalizado, canalVars, cpuVars
  <2> QED
    BY <2>1, AnunciaSigue DEF Despedido
<1>2. CASE DumpAvisa \/ HiloFinalizado \/ PlpTermina
  BY <1>2 DEF DumpAvisa, HiloFinalizado, PlpTermina, TerminaHandler, DumpAnuncia, Recibe
<1>3. CASE PlpAdmite
  <2>1. CASE TerminaHandler
    BY <2>1 DEF TerminaHandler, DumpAnuncia, Recibe
  <2>2. CASE ~TerminaHandler
    BY <1>3, <2>2, AnunciaQuieta DEF PlpAdmite, cpuVars
  <2> QED
    BY <2>1, <2>2
<1>4. CASE AtenderDesalojoSyscall
  BY <1>4 DEF AtenderDesalojoSyscall, Atiende, hilosVars, DumpAnuncia
<1> QED
  BY <1>1, <1>2, <1>3, <1>4, AnunciaHandler DEF PasoDispatch

LEMMA AnunciaCpu ==
  ASSUME Todo, DumpAnuncia, PasoCpu \/ (\E o \in Syscalls : CpuSyscall(o) \/ CpuError(o)) \/ CpuAvisos
  PROVE  DumpAnuncia'
<1>1. CASE CpuAvisos
  <2>1. UNCHANGED <<kd, dispCK>>
    BY <1>1 DEF CpuAvisos, CpuRespuesta, CpuInterrupcion, hilosVars
  <2> QED
    BY <1>1, <2>1, AvisoRecordado DEF DumpAnuncia
<1>2. ASSUME NEW m \in Mensajes \cup {Desalojo}
      PROVE  /\ EnLista(Append(dispCK, m), m)
             /\ EnLista(dispCK, Desalojo) => EnLista(Append(dispCK, m), Desalojo)
  BY TiposDeTodo, EnListaAgregar
<1>3. CASE CpuRecibe \/ CpuContexto
  BY <1>3, AnunciaQuieta DEF CpuRecibe, CpuContexto, hilosVars, canalVars
<1>4. CASE CpuInstruccion \/ (\E o \in Syscalls : CpuSyscall(o) \/ CpuError(o))
  <2>1. ~Despedido
    BY <1>4, SoloEnRetorno DEF CpuInstruccion, CpuSyscall, CpuError
  <2>2. kd' = kd
    BY <1>4 DEF CpuInstruccion, CpuSyscall, CpuError, hilosVars
  <2>3. dispCK' = dispCK \/ \E m \in Mensajes : dispCK' = Append(dispCK, m)
    <3>1. \A o \in Syscalls : Pedido(cpuHilo, o) \in Mensajes
      BY ConstantesOK, TiposDeTodo DEF Pedido, Mensajes
    <3> QED
      BY <1>4, <3>1 DEF CpuInstruccion, CpuSyscall, CpuError
  <2> QED
    BY <1>2, <2>1, <2>2, <2>3, AnunciaSigue
<1>5. CASE CpuRetorna
  <2>1. kd' = kd /\ intKC' = intKC
    BY <1>5 DEF CpuRetorna, hilosVars
  <2>2. CASE syscallBloquea
    <3>1. dispCK' = Append(dispCK, Desalojo)
      BY <1>5, <2>2 DEF CpuRetorna
    <3> QED
      BY <1>2, <3>1, <2>1 DEF DumpAnuncia
  <2>3. CASE ~syscallBloquea
    <3>1. dispCK' = dispCK
      BY <1>5, <2>3 DEF CpuRetorna
    <3> QED
      BY <2>1, <2>3, <3>1, AnunciaSigue DEF Despedido
  <2> QED
    BY <2>2, <2>3
<1> QED
  BY <1>1, <1>3, <1>4, <1>5 DEF PasoCpu

LEMMA PasoAnuncia == Todo /\ DumpAnuncia /\ [Next]_vars => DumpAnuncia'
<1> SUFFICES ASSUME Todo, DumpAnuncia, [Next]_vars PROVE DumpAnuncia'
  OBVIOUS
<1>1. CASE PasoPcp \/ TemporizadorVence \/ AtenderDesalojoQuantum \/ \E h \in Hilos : PasoIo(h)
  BY <1>1, AnunciaQuieta
     DEF PasoPcp, PcpDespierta, PcpMira, AtenderFIFO, AtenderRR, AtenderPRIORIDADES,
         TemporizadorVence, AtenderDesalojoQuantum, PasoIo, IoToma, IoTermina, IoAvisa, hilosVars,
         canalVars, cpuVars
<1>2. CASE GestionarInterrupt
  <2>1. /\ UNCHANGED <<kd, dispCK, syscallBloquea>>
        /\ intKC' = intKC \/ \E h \in Hilos : intKC' = Append(intKC, Quantum(h))
    BY <1>2, TiposDeTodo DEF GestionarInterrupt, hilosVars, cpuVars
  <2>2. EnLista(intKC', Fin(0)) <=> EnLista(intKC, Fin(0))
    BY <2>1, FinEnIntKC
  <2> QED
    BY <2>1, <2>2, AnunciaSigue DEF Despedido
<1>3. CASE (\E h \in Hilos : MemoriaCreaHilo(h)) \/ MemoriaNoEncuentra \/ UNCHANGED vars
  BY <1>3, AnunciaQuieta DEF MemoriaCreaHilo, MemoriaNoEncuentra, vars, hilosVars, canalVars, cpuVars
<1>4. CASE TemporizadorViejoVence \/ Abrazo \/ BusquedasCruzadas
  BY <1>4, AnunciaQuieta
     DEF TemporizadorViejoVence, Abrazo, BusquedasCruzadas, hilosVars, canalVars, cpuVars
<1> QED
  BY <1>1, <1>2, <1>3, <1>4, AnunciaDispatch, AnunciaCpu DEF Next

-----------------------------------------------------------------------------
\* A step that leaves the CPU busy, something in EXEC or READY empty.
LEMMA PosteaOcupada ==
  ASSUME cpuFase' # "libre" \/ exec' # <<>> \/ ready' = <<>> \/ LlegaUnPost'
  PROVE  AlguienPostea'
BY DEF AlguienPostea

\* A step that takes no post away, idles no CPU and readies nobody.
LEMMA PosteaQuieto ==
  ASSUME AlguienPostea,
         kernel = "vivo" \/ kernel' = kernel, UNCHANGED <<cpuFase, exec, ready>>,
         LlegaUnPost => LlegaUnPost'
  PROVE  AlguienPostea'
BY DEF AlguienPostea

LEMMA PosteaPcp ==
  ASSUME Todo, AlguienPostea, PasoPcp
  PROVE  AlguienPostea'
<1>1. UNCHANGED cpuFase
  BY DEF PasoPcp, PcpDespierta, PcpMira, AtenderFIFO, AtenderRR, AtenderPRIORIDADES, cpuVars
<1>2. CASE PcpDespierta
  BY <1>2, PosteaOcupada DEF PcpDespierta, LlegaUnPost
<1>3. CASE PcpMira
  BY <1>3, PosteaOcupada DEF PcpMira, LlegaUnPost, listasVars
<1>4. CASE AtenderFIFO \/ AtenderRR \/ AtenderPRIORIDADES
  <2>1. exec' # <<>> \/ ready' = <<>> \/ kernel' # "vivo"
    <3>1. \A h : Append(<<>>, h) # <<>>
      OBVIOUS
    <3>2. exec = <<>> => \A h, resto : Despachar(h, resto) => exec' # <<>>
      BY <3>1 DEF Despachar
    <3>3. CASE AtenderFIFO
      BY <3>2, <3>3 DEF AtenderFIFO, NoDespachar
    <3>4. CASE AtenderRR
      BY <3>2, <3>4 DEF AtenderRR, NoDespachar
    <3>5. CASE AtenderPRIORIDADES
      BY <3>2, <3>5 DEF AtenderPRIORIDADES, NoDespachar
    <3> QED
      BY <1>4, <3>3, <3>4, <3>5
  <2> QED
    BY <2>1 DEF AlguienPostea
<1> QED
  BY <1>2, <1>3, <1>4 DEF PasoPcp

\* Who posts, and who looks at EXEC before not posting.
LEMMA PosteaUno ==
  ASSUME Todo, AlguienPostea,
         \/ TemporizadorVence \/ GestionarInterrupt \/ AtenderDesalojoQuantum
         \/ AtenderDesalojoSyscall \/ DumpAvisa \/ \E h \in Hilos : PasoIo(h)
  PROVE  AlguienPostea'
<1>1. semCpu \in Nat /\ MaxPosts \in Nat
  BY ConstantesOK DEF Todo, TypeOK, TipoKernel
<1>2. Postear => semCpu' > 0
  BY <1>1 DEF Postear
<1>3. CASE AtenderDesalojoQuantum \/ AtenderDesalojoSyscall
  BY <1>2, <1>3, PosteaOcupada DEF AtenderDesalojoQuantum, AtenderDesalojoSyscall, LlegaUnPost
<1>4. CASE DumpAvisa \/ \E h \in Hilos : IoAvisa(h)
  <2>1. exec' = exec /\ (exec = <<>> => Postear)
    BY <1>4 DEF DumpAvisa, IoAvisa, listasVars
  <2> QED
    BY <1>2, <2>1, PosteaOcupada DEF LlegaUnPost
<1>5. CASE TemporizadorVence \/ GestionarInterrupt
  <2>1. UNCHANGED <<kernel, cpuFase, exec, ready, semCpu, pcp, intCK, dispCK, kd, io>>
    BY <1>5 DEF TemporizadorVence, GestionarInterrupt, listasVars, hilosVars, canalVars, cpuVars
  <2> QED
    BY <2>1, PosteaQuieto DEF LlegaUnPost
<1>6. CASE \E h \in Hilos : IoToma(h)
  <2>1. PICK h \in Hilos : IoToma(h)
    BY <1>6
  <2>2. /\ UNCHANGED <<kernel, cpuFase, exec, ready, semCpu, pcp, intCK, dispCK, kd>>
        /\ io[h] = "espera" /\ io' = [io EXCEPT ![h] = "duerme"]
    BY <2>1 DEF IoToma, listasVars, planifVars, canalVars, cpuVars
  <2>3. \A g \in Hilos : io[g] = "avisa" => io'[g] = "avisa"
    BY <2>2, TiposDeTodo
  <2> QED
    BY <2>2, <2>3, PosteaQuieto DEF LlegaUnPost
<1>7. CASE \E h \in Hilos : IoTermina(h)
  <2>1. PICK h \in Hilos : io' = [io EXCEPT ![h] = "avisa"]
    BY <1>7 DEF IoTermina
  <2>2. io'[h] = "avisa"
    BY <2>1, TiposDeTodo
  <2> QED
    BY <2>2, PosteaOcupada DEF LlegaUnPost
<1> QED
  BY <1>3, <1>4, <1>5, <1>6, <1>7 DEF PasoIo

\* The CPU waits during a handler, but for that of a dump.
LEMMA PosteaHandler ==
  ASSUME Todo, DumpAnuncia, AlguienPostea,
         \/ \E m \in Mensajes : AtenderMensaje(m)
         \/ DumpRespondido \/ HiloFinalizado \/ HiloColgado \/ SacarHilo \/ ProcesoFinalizado
         \/ PlpAdmite \/ PlpTermina
  PROVE  AlguienPostea'
<1>1. UNCHANGED cpuFase
  BY DEF AtenderMensaje, AtenderYSeguir, AtenderYCaer, AtenderYBloquear, AtenderYDespertar,
         AtenderYDespertarMal, AtenderThreadCreate, AtenderIO, AtenderDump,
         AtenderThreadExit, AtenderFinDeProceso, AtenderProcessCreate, DumpRespondido,
         HiloFinalizado, HiloColgado, SacarHilo, ProcesoFinalizado, PlpAdmite, PlpTermina, cpuVars
<1>2. CASE \E m \in Mensajes : AtenderMensaje(m)
  <2>1. PICK m \in Mensajes : AtenderMensaje(m)
    BY <1>2
  <2>2. Atiende(m)
    BY <2>1
       DEF AtenderMensaje, AtenderYSeguir, AtenderYCaer, AtenderYBloquear, AtenderYDespertar,
           AtenderYDespertarMal, AtenderThreadCreate, AtenderIO, AtenderDump,
           AtenderThreadExit, AtenderFinDeProceso, AtenderProcessCreate
  <2> QED
    BY <1>1, <2>2, AlAtender, PosteaOcupada
<1>3. CASE HiloFinalizado \/ HiloColgado
  <2>1. cpuFase # "libre"
    BY <1>3, SinPedidos DEF HiloFinalizado, HiloColgado
  <2> QED
    BY <1>1, <2>1, PosteaOcupada
<1>4. CASE DumpRespondido \/ SacarHilo \/ ProcesoFinalizado
  <2>1. kd'.paso # "recibe"
    BY <1>4, TiposDeTodo DEF DumpRespondido, SacarHilo, ProcesoFinalizado
  <2> QED
    BY <2>1, PosteaOcupada DEF LlegaUnPost
<1>5. CASE PlpAdmite \/ PlpTermina
  <2>1. kd.paso = "plp" /\ dispCK' = dispCK
    BY <1>5 DEF PlpAdmite, PlpTermina, canalVars
  <2>2. CASE kd.op = "DUMP_MEMORY" /\ cpuFase = "libre"
    <3>1. ~Despedido
      BY <2>2, SoloEnRetorno
    <3>2. EnLista(dispCK', Desalojo)
      BY <2>1, <2>2, <3>1 DEF DumpAnuncia
    <3> QED
      BY <3>2, PosteaOcupada DEF LlegaUnPost
  <2>3. CASE kd.op # "DUMP_MEMORY"
    <3>1. DebeRespuesta
      BY <2>1, <2>3 DEF DebeRespuesta
    <3>2. cpuFase # "libre"
      BY <3>1, SinPedidos
    <3> QED
      BY <1>1, <3>2, PosteaOcupada
  <2>4. CASE cpuFase # "libre"
    BY <1>1, <2>4, PosteaOcupada
  <2> QED
    BY <2>2, <2>3, <2>4
<1> QED
  BY <1>2, <1>3, <1>4, <1>5

\* The CPU is idle again only with an eviction on its way to the kernel.
LEMMA PosteaCpu ==
  ASSUME Todo, AlguienPostea, PasoCpu \/ (\E o \in Syscalls : CpuSyscall(o) \/ CpuError(o)) \/ CpuAvisos
  PROVE  AlguienPostea'
<1>1. CASE CpuAvisos
  <2>1. UNCHANGED <<kernel, cpuFase, exec, ready, semCpu, pcp, intCK, dispCK, kd, io>>
    BY <1>1 DEF CpuAvisos, CpuRespuesta, CpuInterrupcion, listasVars, planifVars, hilosVars
  <2> QED
    BY <2>1, PosteaQuieto DEF LlegaUnPost
<1>2. DesalojarPorQuantum => intCK' # <<>>
  <2>1. intCK \in Seq(Hilos) /\ cpuHilo \in Hilos
    BY TiposDeTodo
  <2>2. Append(intCK, cpuHilo) # <<>>
    BY <2>1
  <2> QED
    BY <2>2 DEF DesalojarPorQuantum
<1>3. EnLista(Append(dispCK, Desalojo), Desalojo)
  <2>1. dispCK \in Seq(Mensajes \cup {Desalojo}) /\ Desalojo \in Mensajes \cup {Desalojo}
    BY TiposDeTodo
  <2> QED
    BY <2>1, EnListaAgregar
<1>4. CASE PasoCpu \/ \E o \in Syscalls : CpuSyscall(o) \/ CpuError(o)
  <2>1. cpuFase' # "libre" \/ intCK' # <<>> \/ EnLista(dispCK', Desalojo)
    BY <1>2, <1>3, <1>4
       DEF PasoCpu, CpuRecibe, CpuContexto, CpuInstruccion, CpuRetorna, CpuSyscall, CpuError
  <2> QED
    BY <2>1, PosteaOcupada DEF LlegaUnPost
<1> QED
  BY <1>1, <1>4

LEMMA PasoPostea == Todo /\ DumpAnuncia /\ AlguienPostea /\ [Next]_vars => AlguienPostea'
<1> SUFFICES ASSUME Todo, DumpAnuncia, AlguienPostea, [Next]_vars PROVE AlguienPostea'
  OBVIOUS
<1>1. CASE (\E h \in Hilos : MemoriaCreaHilo(h)) \/ MemoriaNoEncuentra \/ UNCHANGED vars
  <2>1. UNCHANGED <<kernel, cpuFase, exec, ready, semCpu, pcp, intCK, dispCK, kd, io>>
    BY <1>1 DEF MemoriaCreaHilo, MemoriaNoEncuentra, vars, listasVars, planifVars, hilosVars,
                canalVars, cpuVars
  <2> QED
    BY <2>1, PosteaQuieto DEF LlegaUnPost
<1>2. CASE TemporizadorViejoVence \/ Abrazo \/ BusquedasCruzadas
  <2>1. /\ UNCHANGED <<cpuFase, exec, ready, semCpu, pcp, intCK, dispCK, kd, io>>
        /\ kernel = "vivo"
    BY <1>2 DEF TemporizadorViejoVence, Abrazo, BusquedasCruzadas, listasVars, planifVars, hilosVars,
                canalVars, cpuVars
  <2> QED
    BY <2>1, PosteaQuieto DEF LlegaUnPost
<1> QED
  BY <1>1, <1>2, PosteaPcp, PosteaUno, PosteaHandler, PosteaCpu DEF Next, PasoDispatch

\* With the CPU idle something posts; with it busy, the thread it has is in EXEC,
\* or is told to leave, or is being taken apart.
LEMMA PosteaBasta == Todo /\ AlguienPostea => SinDespertarPerdido
<1> SUFFICES ASSUME Todo, AlguienPostea,
                    kernel = "vivo", kd.paso # "colgado", cpuFase # "error",
                    cpuFase = "libre" \/ cpuHilo[1] \in pcbs,
                    exec = <<>>, ready # <<>>
             PROVE  PostEnCamino
  BY DEF SinDespertarPerdido
<1>1. CASE cpuFase = "libre"
  BY <1>1 DEF AlguienPostea, LlegaUnPost, PostEnCamino
<1>2. CASE cpuFase # "libre" /\ Despedido
  <2>1. syscallBloquea => semRetorno = 1
    BY DEF Todo, CadaUnoEnSuLugar, DeQuienEs
  <2>2. semRetorno = 1 => cpuFase = "retorno"
    BY DEF Todo, Conversacion, EsperaSuRespuesta
  <2> QED
    BY <1>2, <2>1, <2>2 DEF Despedido, PostEnCamino
<1>3. CASE cpuFase # "libre" /\ ~Despedido /\ kd.paso = "recibe"
  <2>1. EnLugar("cpu", cpuHilo)
    BY <1>3 DEF EnLugar
  <2>2. EnExecOMuere(cpuHilo)
    BY <1>3, <2>1 DEF Todo, CadaUnoEnSuLugar, ExecEsLaCpu
  <2>3. Muere(cpuHilo)
    BY <2>2 DEF EnExecOMuere
  <2> QED
    BY <1>3, <2>3 DEF Muere
<1>4. CASE kd.paso # "recibe"
  BY <1>4 DEF PostEnCamino
<1> QED
  BY <1>1, <1>2, <1>3, <1>4

\* No lost wakeup: while there are ready threads, nothing in EXEC and a CPU that
\* goes on, some thread of the kernel or of the CPU is about to post
\* sem_cpu_disponible, or pcp is about to look.
THEOREM PcpNoPierdePosts == Spec => []SinDespertarPerdido
<1>1. Init => DumpAnuncia /\ AlguienPostea
  BY DEF Init, Recibe, DumpAnuncia, AlguienPostea, LlegaUnPost
<1>2. TypeOK /\ UnoEnEjecucion /\ Conversacion /\ CadaUnoEnSuLugar /\ DumpAnuncia /\ AlguienPostea
        /\ [Next]_vars => DumpAnuncia' /\ AlguienPostea'
  BY PasoAnuncia, PasoPostea DEF Todo
<1>3. TypeOK /\ UnoEnEjecucion /\ Conversacion /\ CadaUnoEnSuLugar /\ AlguienPostea
        => SinDespertarPerdido
  BY PosteaBasta DEF Todo
<1> QED
  BY <1>1, <1>2, <1>3, TiposCorrectos, UnSoloHiloEnEjecucion, SiempreConversacion,
     SiempreLugares, PTL DEF Spec

=============================================================================
