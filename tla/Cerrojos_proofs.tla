---------------------------- MODULE Cerrojos_proofs ----------------------------
(***************************************************************************)
(* The kernel's threads, for any number of threads of the program, of      *)
(* dispatches and of posts: the only deadlock among their mutexes, the one *)
(* place each TCB is in, and the searches that nobody crosses.             *)
(***************************************************************************)
EXTENDS Cerrojos, Listas_proofs, TLAPS

FasesPcp == {"espera", "mira", "pideExec", "conExec", "pideTicket", "pideReady", "conReady"}

Tipos ==
  /\ dueno \in [Mutexes -> Actores \cup {"nadie"}]
  /\ paso \in [Buscadores -> 1..5]
  /\ fase \in [Buscadores -> {"libre", "busca", "saca", "mano", "cierra", "nulo"}]
  /\ timer \in [1..MaxTickets -> {"no", "nace", "duerme", "pideExec", "fin"}]
  /\ pcp \in FasesPcp

\* Who may hold each mutex between two steps, and where it is meanwhile.
DuenosDePcp ==
  /\ \A m \in Mutexes : dueno[m] = "pcp" => m \in {"exec", "ready"}
  /\ dueno["exec"] = "pcp" <=> pcp \in {"conExec", "pideTicket"}
  /\ dueno["ready"] = "pcp" <=> pcp = "conReady"
DuenosDelResto ==
  /\ \A m \in Mutexes : dueno[m] # "gestor"
  /\ \A m \in Mutexes : dueno[m] = "timer" => m = "ticket"
DuenosQueBuscan ==
  \A b \in Buscadores :
    /\ \A m \in Mutexes : dueno[m] = b => fase[b] \in {"saca", "nulo"} /\ m = Recorrido[paso[b]]
    /\ fase[b] = "saca" => dueno[Recorrido[paso[b]]] = b
SoloConQuantum ==
  /\ dueno["ticket"] \in {"nadie", "timer"}
  /\ dueno["ticket"] = "timer" => algoritmo = "CMN"
  /\ \A k \in 1..MaxTickets : timer[k] # "no" => algoritmo = "CMN"

DuenosSegunFase == Tipos /\ DuenosDePcp /\ DuenosDelResto /\ DuenosQueBuscan /\ SoloConQuantum

\* A step that leaves the mutexes and the searches alone.
LEMMA NoToca ==
  ASSUME DuenosSegunFase, UNCHANGED <<algoritmo, dueno, pcp, timer, fase, paso>>
  PROVE  DuenosSegunFase'
BY DEF DuenosSegunFase, Tipos, DuenosDePcp, DuenosDelResto, DuenosQueBuscan, SoloConQuantum

\* The lists of a search, by its step.
LEMMA Listado == \A i \in 1..5 : Recorrido[i] \in Estados \ {"ticket"}
BY DEF Recorrido, Estados

LEMMA SonMutexes == {"exec", "ready", "ticket", "blocked"} \cup Estados \subseteq Mutexes
BY DEF Mutexes, Estados

\* A mutex that no search holds changes hands, and no search gets it.
LEMMA AjenoAlBuscador ==
  ASSUME DuenosSegunFase, UNCHANGED <<fase, paso>>, NEW m \in Mutexes, NEW a,
         dueno[m] \notin Buscadores, a \notin Buscadores,
         \A n \in Mutexes : dueno'[n] = IF n = m THEN a ELSE dueno[n]
  PROVE  DuenosQueBuscan'
<1>1. \A b \in Buscadores : Recorrido[paso[b]] \in Mutexes
  BY Listado, SonMutexes DEF DuenosSegunFase, Tipos
<1> QED
  BY <1>1 DEF DuenosSegunFase, DuenosQueBuscan

\* pcp moves without taking or leaving a mutex.
LEMMA PcpMismosMutexes ==
  ASSUME DuenosSegunFase, UNCHANGED <<algoritmo, dueno, timer, fase, paso>>, pcp' \in FasesPcp,
         pcp \in {"conExec", "pideTicket"} <=> pcp' \in {"conExec", "pideTicket"},
         pcp = "conReady" <=> pcp' = "conReady"
  PROVE  DuenosSegunFase'
BY DEF DuenosSegunFase, Tipos, DuenosDePcp, DuenosDelResto, DuenosQueBuscan, SoloConQuantum

\* pcp takes mutex_lista_exec_thread or mutex_lista_ready_thread.
LEMMA PcpToma ==
  ASSUME DuenosSegunFase, UNCHANGED <<algoritmo, fase, paso, timer>>,
         NEW m \in {"exec", "ready"}, Libre(m), Toma(m, "pcp"),
         pcp \notin {"conExec", "pideTicket", "conReady"},
         pcp' = (IF m = "exec" THEN "conExec" ELSE "conReady")
  PROVE  DuenosSegunFase'
<1>1. \A n \in Mutexes : dueno'[n] = IF n = m THEN "pcp" ELSE dueno[n]
  BY DEF DuenosSegunFase, Tipos, Toma
<1>2. Tipos'
  BY DEF DuenosSegunFase, Tipos, Actores, Toma, FasesPcp
<1>3. DuenosDePcp'
  BY <1>1, SonMutexes DEF DuenosSegunFase, DuenosDePcp
<1>4. DuenosDelResto' /\ SoloConQuantum'
  BY <1>1, SonMutexes DEF DuenosSegunFase, DuenosDelResto, SoloConQuantum, Buscadores
<1>5. m \in Mutexes /\ dueno[m] \notin Buscadores
  BY SonMutexes DEF DuenosSegunFase, DuenosDePcp, Libre, Buscadores
<1>6. "pcp" \notin Buscadores /\ "nadie" \notin Buscadores
  BY DEF Buscadores
<1>7. DuenosQueBuscan'
  BY <1>1, <1>5, <1>6, AjenoAlBuscador
<1> QED
  BY <1>2, <1>3, <1>4, <1>7 DEF DuenosSegunFase

\* pcp leaves the one it has.
LEMMA PcpSuelta ==
  ASSUME DuenosSegunFase, UNCHANGED <<algoritmo, fase, paso, timer>>,
         NEW m \in {"exec", "ready"}, Suelta(m), pcp' = "espera",
         IF m = "exec" THEN pcp \in {"conExec", "pideTicket"} ELSE pcp = "conReady"
  PROVE  DuenosSegunFase'
<1>1. \A n \in Mutexes : dueno'[n] = IF n = m THEN "nadie" ELSE dueno[n]
  BY DEF DuenosSegunFase, Tipos, Suelta
<1>2. Tipos'
  BY DEF DuenosSegunFase, Tipos, Suelta, FasesPcp
<1>3. DuenosDePcp'
  BY <1>1, SonMutexes DEF DuenosSegunFase, DuenosDePcp
<1>4. DuenosDelResto' /\ SoloConQuantum'
  BY <1>1, SonMutexes DEF DuenosSegunFase, DuenosDelResto, SoloConQuantum, Buscadores
<1>5. m \in Mutexes /\ dueno[m] \notin Buscadores
  BY SonMutexes DEF DuenosSegunFase, DuenosDePcp, Libre, Buscadores
<1>6. "pcp" \notin Buscadores /\ "nadie" \notin Buscadores
  BY DEF Buscadores
<1>7. DuenosQueBuscan'
  BY <1>1, <1>5, <1>6, AjenoAlBuscador
<1> QED
  BY <1>2, <1>3, <1>4, <1>7 DEF DuenosSegunFase

LEMMA PasosDePcp ==
  ASSUME DuenosSegunFase, Pcp
  PROVE  DuenosSegunFase'
<1> UNCHANGED <<algoritmo, fase, paso>>
  BY DEF Pcp, buscaVars
<1>1. CASE PcpDespierta
  BY <1>1, PcpMismosMutexes DEF PcpDespierta, PcpEn, FasesPcp, ticketVars
<1>2. CASE PcpMira
  BY <1>2, PcpMismosMutexes DEF PcpMira, PcpEn, FasesPcp, ticketVars
<1>3. CASE PcpTomaExec
  <2>1. CASE lista["exec"] = <<>>
    BY <1>3, <2>1, PcpToma DEF PcpTomaExec, PcpEn, ticketVars
  <2>2. CASE lista["exec"] # <<>>
    BY <1>3, <2>2, PcpMismosMutexes DEF PcpTomaExec, PcpEn, FasesPcp, ticketVars
  <2> QED
    BY <2>1, <2>2
<1>4. CASE PcpSaca
  <2>1. CASE Suelta("exec") /\ PcpEn("espera")
    BY <1>4, <2>1, PcpSuelta DEF PcpSaca, PcpEn, ticketVars
  <2>2. CASE PcpEn("pideTicket") /\ UNCHANGED dueno
    BY <1>4, <2>2, PcpMismosMutexes DEF PcpSaca, PcpEn, FasesPcp, ticketVars
  <2> QED
    BY <1>4, <2>1, <2>2 DEF PcpSaca
<1>5. CASE PcpDespacha
  <2>1. pcp = "pideTicket" /\ pcp' = "espera" /\ Suelta("exec")
    BY <1>5 DEF PcpDespacha, PcpEn
  <2>2. \/ timer' = timer
        \/ algoritmo = "CMN" /\ timer' = [timer EXCEPT ![varTicket + 1] = "nace"]
    BY <1>5 DEF PcpDespacha
  <2>3. \A n \in Mutexes : dueno'[n] = IF n = "exec" THEN "nadie" ELSE dueno[n]
    BY <2>1 DEF DuenosSegunFase, Tipos, Suelta
  <2>4. Tipos'
    BY <2>1, <2>2 DEF DuenosSegunFase, Tipos, Suelta, FasesPcp
  <2>5. DuenosDePcp' /\ DuenosDelResto'
    BY <2>1, <2>3, SonMutexes DEF DuenosSegunFase, DuenosDePcp, DuenosDelResto, Buscadores
  <2>7. DuenosQueBuscan'
    <3>1. "exec" \in Mutexes /\ dueno["exec"] \notin Buscadores
      BY <2>1, SonMutexes DEF DuenosSegunFase, DuenosDePcp, Buscadores
    <3>2. "nadie" \notin Buscadores
      BY DEF Buscadores
    <3> QED
      BY <2>3, <3>1, <3>2, AjenoAlBuscador
  <2>6. SoloConQuantum'
    BY <2>2, <2>3, SonMutexes DEF DuenosSegunFase, Tipos, SoloConQuantum
  <2> QED
    BY <2>4, <2>5, <2>6, <2>7 DEF DuenosSegunFase
<1>6. CASE PcpTomaReady
  <2>1. CASE lista["ready"] = <<>>
    BY <1>6, <2>1, NoToca DEF PcpTomaReady, ticketVars
  <2>2. CASE lista["ready"] # <<>>
    BY <1>6, <2>2, PcpToma DEF PcpTomaReady, PcpEn, ticketVars
  <2> QED
    BY <2>1, <2>2
<1>7. CASE PcpDespachaPorPrioridad
  <2>1. CASE lista["exec"] = <<>>
    BY <1>7, <2>1, PcpSuelta DEF PcpDespachaPorPrioridad, PcpEn, ticketVars
  <2>2. CASE lista["exec"] # <<>>
    BY <1>7, <2>2, NoToca DEF PcpDespachaPorPrioridad, ticketVars
  <2> QED
    BY <2>1, <2>2
<1> QED
  BY <1>1, <1>2, <1>3, <1>4, <1>5, <1>6, <1>7 DEF Pcp

\* A timer takes mutex_ticket, and only it does for longer than a section.
LEMMA PasosDelTimer ==
  ASSUME DuenosSegunFase, NEW k \in 1..MaxTickets, Timer(k)
  PROVE  DuenosSegunFase'
<1> UNCHANGED <<algoritmo, pcp, fase, paso>>
  BY DEF Timer, pcpVars, buscaVars
<1>1. CASE LeerTicket(k)
  BY <1>1 DEF LeerTicket, DuenosSegunFase, Tipos, DuenosDePcp, DuenosDelResto,
                    DuenosQueBuscan, SoloConQuantum
<1>2. CASE TimerDespierta(k)
  <2>1. \A n \in Mutexes : dueno'[n] = IF n = "ticket" THEN "timer" ELSE dueno[n]
    BY <1>2 DEF DuenosSegunFase, Tipos, TimerDespierta, Toma
  <2>2. Tipos'
    BY <1>2 DEF DuenosSegunFase, Tipos, Actores, TimerDespierta, Toma
  <2>3. DuenosDePcp' /\ DuenosDelResto'
    BY <2>1, SonMutexes DEF DuenosSegunFase, DuenosDePcp, DuenosDelResto, Buscadores
  <2>5. DuenosQueBuscan'
    BY <2>1, AjenoAlBuscador, SonMutexes DEF DuenosSegunFase, SoloConQuantum, Buscadores
  <2>4. SoloConQuantum'
    BY <1>2, <2>1, SonMutexes DEF DuenosSegunFase, Tipos, SoloConQuantum, TimerDespierta
  <2> QED
    BY <2>2, <2>3, <2>4, <2>5 DEF DuenosSegunFase
<1>3. CASE TimerVence(k)
  <2>1. \A n \in Mutexes : dueno'[n] = IF n = "ticket" THEN "nadie" ELSE dueno[n]
    BY <1>3 DEF DuenosSegunFase, Tipos, TimerVence, Suelta
  <2>2. Tipos'
    BY <1>3 DEF DuenosSegunFase, Tipos, TimerVence, Suelta
  <2>3. DuenosDePcp' /\ DuenosDelResto'
    BY <2>1, SonMutexes DEF DuenosSegunFase, DuenosDePcp, DuenosDelResto, Buscadores
  <2>5. DuenosQueBuscan'
    BY <2>1, AjenoAlBuscador, SonMutexes DEF DuenosSegunFase, SoloConQuantum, Buscadores
  <2>4. SoloConQuantum'
    BY <1>3, <2>1, SonMutexes DEF DuenosSegunFase, Tipos, SoloConQuantum, TimerVence
  <2> QED
    BY <2>2, <2>3, <2>4, <2>5 DEF DuenosSegunFase
<1> QED
  BY <1>1, <1>2, <1>3 DEF Timer

\* A handler moves on without a mutex in its hands.
LEMMA FaseSinMutex ==
  ASSUME DuenosSegunFase, UNCHANGED <<algoritmo, dueno, pcp, timer>>,
         NEW b \in Buscadores, NEW f \in {"libre", "busca", "mano", "cierra", "nulo"}, En(b, f),
         paso' \in [Buscadores -> 1..5], \A c \in Buscadores : c # b => paso'[c] = paso[c],
         \/ fase[b] \notin {"saca", "nulo"}
         \/ f = "nulo" /\ UNCHANGED paso
  PROVE  DuenosSegunFase'
<1>1. \A c \in Buscadores : fase'[c] = IF c = b THEN f ELSE fase[c]
  BY DEF DuenosSegunFase, Tipos, En
<1>2. Tipos'
  BY DEF DuenosSegunFase, Tipos, En
<1>3. DuenosQueBuscan'
  BY <1>1 DEF DuenosSegunFase, DuenosQueBuscan
<1> QED
  BY <1>2, <1>3 DEF DuenosSegunFase, DuenosDePcp, DuenosDelResto, SoloConQuantum

\* A search stops with the mutex of the list that has its TCB...
LEMMA BuscadorToma ==
  ASSUME DuenosSegunFase, UNCHANGED <<algoritmo, pcp, timer, paso>>,
         NEW b \in Buscadores, fase[b] = "busca",
         Libre(Recorrido[paso[b]]), Toma(Recorrido[paso[b]], b), En(b, "saca")
  PROVE  DuenosSegunFase'
<1> DEFINE m == Recorrido[paso[b]]
<1>1. m \in Mutexes /\ m # "ticket"
  BY Listado, SonMutexes DEF DuenosSegunFase, Tipos
<1>2. \A n \in Mutexes : dueno'[n] = IF n = m THEN b ELSE dueno[n]
  BY DEF DuenosSegunFase, Tipos, Toma
<1>3. \A c \in Buscadores : fase'[c] = IF c = b THEN "saca" ELSE fase[c]
  BY DEF DuenosSegunFase, Tipos, En
<1>4. Tipos'
  BY DEF DuenosSegunFase, Tipos, Actores, Toma, En
<1> HIDE DEF m
<1>5. dueno[m] = "nadie" /\ \A c \in Buscadores : Recorrido[paso[c]] \in Mutexes
  BY Listado, SonMutexes DEF DuenosSegunFase, Tipos, Libre, m
<1>6. DuenosDePcp' /\ DuenosDelResto' /\ SoloConQuantum'
  BY <1>1, <1>2, <1>5, SonMutexes
     DEF DuenosSegunFase, DuenosDePcp, DuenosDelResto, SoloConQuantum, Buscadores
<1>7. DuenosQueBuscan'
  BY <1>1, <1>2, <1>3, <1>5 DEF DuenosSegunFase, DuenosQueBuscan, Buscadores, m
<1> QED
  BY <1>4, <1>6, <1>7 DEF DuenosSegunFase

\* ... and leaves it with the TCB at hand.
LEMMA BuscadorSuelta ==
  ASSUME DuenosSegunFase, UNCHANGED <<algoritmo, pcp, timer, paso>>,
         NEW b \in Buscadores, fase[b] = "saca", Suelta(Recorrido[paso[b]]), En(b, "mano")
  PROVE  DuenosSegunFase'
<1> DEFINE m == Recorrido[paso[b]]
<1>1. m \in Mutexes /\ m # "ticket"
  BY Listado, SonMutexes DEF DuenosSegunFase, Tipos
<1>2. \A n \in Mutexes : dueno'[n] = IF n = m THEN "nadie" ELSE dueno[n]
  BY DEF DuenosSegunFase, Tipos, Suelta
<1>3. \A c \in Buscadores : fase'[c] = IF c = b THEN "mano" ELSE fase[c]
  BY DEF DuenosSegunFase, Tipos, En
<1>4. Tipos'
  BY DEF DuenosSegunFase, Tipos, Suelta, En
<1> HIDE DEF m
<1>5. dueno[m] = b /\ \A c \in Buscadores : Recorrido[paso[c]] \in Mutexes
  BY Listado, SonMutexes DEF DuenosSegunFase, Tipos, DuenosQueBuscan, m
<1>6. DuenosDePcp' /\ DuenosDelResto' /\ SoloConQuantum'
  BY <1>1, <1>2, <1>5, SonMutexes
     DEF DuenosSegunFase, DuenosDePcp, DuenosDelResto, SoloConQuantum, Buscadores
<1>7. DuenosQueBuscan'
  BY <1>1, <1>2, <1>3, <1>5 DEF DuenosSegunFase, DuenosQueBuscan, Buscadores, m
<1> QED
  BY <1>4, <1>6, <1>7 DEF DuenosSegunFase

LEMMA PasosDeBuscar ==
  ASSUME DuenosSegunFase, NEW b \in Buscadores, Buscar(b), UNCHANGED <<algoritmo, pcp, timer>>
  PROVE  DuenosSegunFase'
<1>1. CASE Mirar(b)
  <2>1. CASE Toma(Recorrido[paso[b]], b) /\ En(b, "saca") /\ UNCHANGED paso
    BY <1>1, <2>1, BuscadorToma DEF Mirar
  <2>2. CASE /\ paso[b] < Len(Recorrido) /\ paso' = [paso EXCEPT ![b] = @ + 1]
             /\ UNCHANGED <<dueno, fase>>
    <3>1. paso' \in [Buscadores -> 1..5]
      BY <2>2 DEF DuenosSegunFase, Tipos, Recorrido
    <3>2. \A c \in Buscadores : c # b => paso'[c] = paso[c]
      BY <2>2 DEF DuenosSegunFase, Tipos
    <3>3. fase[b] = "busca"
      BY <1>1 DEF Mirar
    <3>4. Tipos'
      BY <2>2, <3>1 DEF DuenosSegunFase, Tipos
    <3>5. DuenosQueBuscan'
      BY <2>2, <3>2, <3>3 DEF DuenosSegunFase, DuenosQueBuscan
    <3> QED
      BY <2>2, <3>4, <3>5 DEF DuenosSegunFase, DuenosDePcp, DuenosDelResto, SoloConQuantum
  <2>3. CASE En(b, "nulo") /\ UNCHANGED <<dueno, paso>>
    BY <1>1, <2>3, FaseSinMutex DEF Mirar, DuenosSegunFase, Tipos
  <2> QED
    BY <1>1, <2>1, <2>2, <2>3 DEF Mirar
<1>2. CASE Sacar(b)
  <2>1. CASE En(b, "mano") /\ Suelta(Recorrido[paso[b]])
    BY <1>2, <2>1, BuscadorSuelta DEF Sacar
  <2>2. CASE En(b, "nulo") /\ UNCHANGED dueno
    BY <1>2, <2>2, FaseSinMutex DEF Sacar, DuenosSegunFase, Tipos
  <2> QED
    BY <1>2, <2>1, <2>2 DEF Sacar
<1> QED
  BY <1>1, <1>2 DEF Buscar

LEMMA PasoDeLlamar ==
  ASSUME DuenosSegunFase, NEW b \in Buscadores, NEW o, NEW t, Llamar(b, o, t), fase[b] = "libre",
         UNCHANGED <<algoritmo, pcp, timer, dueno>>
  PROVE  DuenosSegunFase'
<1>1. paso' \in [Buscadores -> 1..5]
  BY DEF DuenosSegunFase, Tipos, Llamar
<1>2. \A c \in Buscadores : c # b => paso'[c] = paso[c]
  BY DEF DuenosSegunFase, Tipos, Llamar
<1> QED
  BY <1>1, <1>2, FaseSinMutex DEF Llamar

\* A handler that is not in a search moves on and leaves the mutexes alone.
LEMMA PasoDelManejador ==
  ASSUME DuenosSegunFase, NEW b \in Buscadores, NEW f \in {"libre", "mano", "cierra"}, En(b, f),
         fase[b] \in {"libre", "mano", "cierra"},
         UNCHANGED <<algoritmo, pcp, timer, dueno, paso>>
  PROVE  DuenosSegunFase'
BY FaseSinMutex DEF DuenosSegunFase, Tipos

LEMMA PasosDeLosManejadores ==
  ASSUME DuenosSegunFase,
         Manejador(Dispatch) \/ Manejador(Interrupt) \/ Manejador(Io)
  PROVE  DuenosSegunFase'
<1> UNCHANGED <<algoritmo, pcp, timer>> /\ (Dispatch \/ Interrupt \/ Io)
  BY DEF Manejador, ticketVars
<1>0. {"dispatch", "interrupt", "io"} = Buscadores
  BY DEF Buscadores
<1>1. CASE DispatchDesalojoSyscall
  BY <1>1, NoToca DEF DispatchDesalojoSyscall, Recibe, buscaVars
<1>2. CASE DispatchIo
  BY <1>0, <1>2, PasoDeLlamar DEF DispatchIo, Recibe
<1>3. CASE DispatchThreadCreate
  BY <1>0, <1>3, PasoDelManejador DEF DispatchThreadCreate, Recibe
<1>4. CASE DispatchCrea
  BY <1>0, <1>4, PasoDelManejador DEF DispatchCrea
<1>5. CASE DispatchBloquea
  BY <1>0, <1>5, PasoDelManejador DEF DispatchBloquea, Agregar
<1>6. CASE DispatchAvisa
  BY <1>0, <1>6, PasoDelManejador DEF DispatchAvisa
<1>7. CASE \E b \in Buscadores : Buscar(b)
  BY <1>7, PasosDeBuscar
<1>8. CASE InterruptRecibe
  BY <1>0, <1>8, PasoDeLlamar DEF InterruptRecibe
<1>9. CASE Agregar("interrupt", "ready") \/ Agregar("io", "ready")
  BY <1>0, <1>9, PasoDelManejador DEF Agregar
<1>10. CASE InterruptPostea
  BY <1>0, <1>10, PasoDelManejador DEF InterruptPostea
<1>11. CASE \E t \in Hilos : IoDespierta(t)
  BY <1>0, <1>11, PasoDeLlamar DEF IoDespierta
<1>12. CASE IoPostea
  BY <1>0, <1>12, PasoDelManejador DEF IoPostea
<1> QED
  BY <1>0, <1>1, <1>2, <1>3, <1>4, <1>5, <1>6, <1>7, <1>8, <1>9, <1>10, <1>11, <1>12
     DEF Dispatch, Interrupt, Io

\* Where the mutexes are, at every step.
THEOREM DuenosConocidos == Spec => []DuenosSegunFase
<1>1. Init => DuenosSegunFase
  BY DEF Init, DuenosSegunFase, Tipos, DuenosDePcp, DuenosDelResto, DuenosQueBuscan,
         SoloConQuantum, FasesPcp, Buscadores, Mutexes, Estados
<1>2. ASSUME DuenosSegunFase, Next  PROVE DuenosSegunFase'
  <2>1. CASE Gestor \/ Cpu
    BY <1>2, <2>1, NoToca DEF Gestor, Cpu, pcpVars, ticketVars, buscaVars
  <2> QED
    BY <1>2, <2>1, PasosDePcp, PasosDelTimer, PasosDeLosManejadores DEF Next
<1>3. DuenosSegunFase /\ UNCHANGED vars => DuenosSegunFase'
  BY NoToca DEF vars, pcpVars, ticketVars, buscaVars
<1> QED
  BY <1>1, <1>2, <1>3, PTL DEF Spec

\* Who waits in a circle holds a mutex while it waits: only pcp and a timer do.
LEMMA SoloPcpYTimer ==
  ASSUME DuenosSegunFase, NEW S \in SUBSET Actores, Abrazo(S),
         NEW m \in Mutexes, dueno[m] \in S
  PROVE  dueno[m] \in {"pcp", "timer"}
<1>1. ASSUME dueno[m] \in Buscadores  PROVE FALSE
  <2>1. fase[dueno[m]] \in {"saca", "nulo"}
    BY <1>1 DEF DuenosSegunFase, DuenosQueBuscan
  <2>2. PICK n \in Mutexes : Pide(dueno[m], n)
    BY DEF Abrazo
  <2> QED
    BY <1>1, <2>1, <2>2 DEF Pide, Buscadores
<1> QED
  BY <1>1 DEF DuenosSegunFase, DuenosDelResto, Actores

LEMMA AbrazoConocido ==
  ASSUME DuenosSegunFase, NEW S \in SUBSET Actores, Abrazo(S)
  PROVE  algoritmo = "CMN" /\ {"pcp", "timer"} \subseteq S /\ pcp = "pideTicket"
<1>1. ASSUME "timer" \in S  PROVE "pcp" \in S
  <2>1. PICK n \in Mutexes : Pide("timer", n) /\ dueno[n] \in S
    BY <1>1 DEF Abrazo
  <2>2. n = "exec"
    BY <2>1 DEF Pide, Buscadores
  <2> QED
    BY <2>1, <2>2, SoloPcpYTimer DEF DuenosSegunFase, DuenosDelResto
<1>2. ASSUME "pcp" \in S
      PROVE  pcp = "pideTicket" /\ "timer" \in S /\ algoritmo = "CMN"
  <2>1. PICK n \in Mutexes : Pide("pcp", n) /\ dueno[n] \in S
    BY <1>2 DEF Abrazo
  <2>2. dueno[n] \in {"pcp", "timer"}
    BY <2>1, SoloPcpYTimer
  <2>3. \/ n = "ready" /\ pcp \in {"mira", "conExec", "pideReady"}
        \/ n = "exec" /\ pcp \in {"pideExec", "conReady"}
        \/ n = "ticket" /\ pcp = "pideTicket"
    BY <2>1 DEF Pide, Buscadores
  <2>4. n = "ticket" /\ pcp = "pideTicket"
    BY <2>2, <2>3 DEF DuenosSegunFase, DuenosDePcp, DuenosDelResto
  <2>5. dueno["ticket"] = "timer"
    BY <2>2, <2>4 DEF DuenosSegunFase, DuenosDePcp
  <2> QED
    BY <2>1, <2>4, <2>5 DEF DuenosSegunFase, SoloConQuantum
<1>3. PICK a \in S : \E m \in Mutexes : Pide(a, m) /\ dueno[m] \in S
  BY DEF Abrazo
<1>4. "pcp" \in S \/ "timer" \in S
  BY <1>3, SoloPcpYTimer
<1> QED
  BY <1>1, <1>2, <1>4

\* pcp in generar_ticket and a timer past mutex_ticket, under CMN, is the only
\* circle in which the threads of the kernel can wait for one another's
\* mutexes, for any number of threads, dispatches and posts.
THEOREM UnSoloAbrazo == Spec => []UnicoAbrazo
<1>1. DuenosSegunFase => UnicoAbrazo
  BY AbrazoConocido DEF UnicoAbrazo
<1> QED
  BY <1>1, DuenosConocidos, PTL

-----------------------------------------------------------------------------
(* The types of the other variables *)

EnCurso  == [op : {"IO", "THREAD_CREATE", "DESALOJO_QUANTUM"}, tid : Hilos, tcb : Hilos]
Cpus     == [fase : {"libre", "ejecuta", "pide", "bloqueada"}, tid : Hilos]
Turnos   == [tid : Hilos, ref : 0..MaxTickets]

TiposDelKernel ==
  /\ algoritmo \in Algoritmos /\ kernel \in {"vivo", "abortado", "caido"}
  /\ lista \in [Estados -> Seq(Hilos)] /\ proxTid \in 1..(MaxTid + 1)
  /\ semCpu \in Nat /\ semInterr \in Nat /\ gestor \in BOOLEAN
TiposDeTickets ==
  /\ varTicket \in 0..MaxTickets /\ ticket \in [Hilos -> 0..MaxTickets]
  /\ turno \in [1..MaxTickets -> Turnos]
TiposDeBusquedas ==
  /\ busca \in [Buscadores -> EnCurso] /\ tidABuscar \in Hilos
  /\ cruce \in BOOLEAN /\ dormidos \subseteq Hilos
TiposDeCanales ==
  /\ cpu \in Cpus /\ dispKC \in Seq(Hilos) /\ intKC \in Seq(Hilos) /\ intCK \in Seq(Hilos)
  /\ dispCK \in Seq(Syscalls)
TiposDelResto == TiposDelKernel /\ TiposDeTickets /\ TiposDeBusquedas /\ TiposDeCanales

\* The CPU waits for the answer to one syscall, which is in the socket or with
\* its handler; a THREAD_CREATE under way has a tid left.
Pedidos == {s \in Syscalls : s.op # "DESALOJO_SYSCALL"}
UnPedido ==
  /\ AloSumoUno(dispCK, Pedidos)
  /\ fase["dispatch"] # "libre" => Ninguno(dispCK, Pedidos)
  /\ cpu.fase # "pide" => fase["dispatch"] = "libre" /\ Ninguno(dispCK, Pedidos)
  /\ \A i \in 1..Len(dispCK) : dispCK[i] \in Pedidos => dispCK[i].tid = cpu.tid
  /\ \A i \in 1..Len(dispCK) : dispCK[i].op = "THREAD_CREATE" => proxTid <= MaxTid
UnaAtencion ==
  /\ fase["dispatch"] # "libre" /\ busca["dispatch"].op = "IO" => busca["dispatch"].tid = cpu.tid
  /\ fase["dispatch"] = "mano" /\ busca["dispatch"].op = "THREAD_CREATE" =>
       proxTid <= MaxTid /\ busca["dispatch"].tcb = proxTid
  /\ \A b \in Buscadores : busca[b].op = "THREAD_CREATE" =>
       b = "dispatch" /\ fase[b] \notin {"busca", "saca", "nulo"}
  /\ busca["dispatch"].op # "DESALOJO_QUANTUM"

\* What pcp knows of lista_execute_thread while it holds its mutex, and of the
\* tickets left.
EnExec ==
  /\ pcp \in {"conExec", "pideTicket"} => varTicket < MaxTickets
  /\ pcp = "conExec" => lista["exec"] = <<>>
  /\ pcp = "pideTicket" => lista["exec"] # <<>>

Base == DuenosSegunFase /\ TiposDelResto /\ UnPedido /\ UnaAtencion /\ EnExec

LEMMA CeroEsHilo == 0 \in Hilos /\ MaxTid \in Nat /\ MaxTickets \in Nat
BY ConstantesOK DEF Hilos

LEMMA SonEstados ==
  /\ Estados = {"new", "ready", "exec", "exit", "blocked"}
  /\ "ready" \in Estados /\ "exec" \in Estados /\ "blocked" \in Estados
  /\ \A i \in 1..5 : Recorrido[i] \in Estados
BY DEF Estados, Recorrido

LEMMA AgregarNoVacia ==
  ASSUME NEW S, NEW l \in Seq(S), NEW x \in S
  PROVE  Append(l, x) # <<>>
<1>1. Len(Append(l, x)) = Len(l) + 1 /\ Len(l) \in Nat /\ Len(<<>>) = 0
  OBVIOUS
<1> QED
  BY <1>1

\* pcp takes the k-th TCB of READY to EXEC.
LEMMA TiposAlMover ==
  ASSUME NEW L \in [Estados -> Seq(Hilos)], NEW k \in 1..Len(L["ready"])
  PROVE  /\ L["ready"][k] \in Hilos
         /\ [L EXCEPT !["ready"] = SinIndice(L["ready"], k),
                      !["exec"] = Append(L["exec"], L["ready"][k])] \in [Estados -> Seq(Hilos)]
<1>1. L["ready"] \in Seq(Hilos) /\ L["exec"] \in Seq(Hilos)
  BY SonEstados
<1>2. L["ready"][k] \in Hilos
  BY <1>1
<1>3. SinIndice(L["ready"], k) \in Seq(Hilos)
  BY <1>1, SinIndiceTipo
<1>4. Append(L["exec"], L["ready"][k]) \in Seq(Hilos)
  BY <1>1, <1>2
<1> QED
  BY <1>2, <1>3, <1>4, SonEstados

LEMMA TiposAlDespachar ==
  ASSUME Base, Pcp
  PROVE  TiposDelResto' /\ EnExec'
<1>0. UNCHANGED <<algoritmo, proxTid, semInterr, gestor, busca, tidABuscar, cruce, dormidos, cpu,
                  intKC, dispCK, intCK>>
  BY DEF Pcp, interrVars, buscaVars
<1>1. /\ TiposDelKernel /\ TiposDeTickets /\ TiposDeCanales /\ EnExec
      /\ lista \in [Estados -> Seq(Hilos)] /\ dispKC \in Seq(Hilos) /\ semCpu \in Nat
      /\ lista["exec"] \in Seq(Hilos) /\ lista["ready"] \in Seq(Hilos)
  BY SonEstados DEF Base, TiposDelResto, TiposDelKernel, TiposDeCanales
<1>2. TiposDeBusquedas'
  BY <1>0 DEF Base, TiposDelResto, TiposDeBusquedas
<1>3. CASE UNCHANGED <<lista, ticketVars, dispKC>> /\ semCpu' \in Nat
             /\ kernel' \in {"vivo", "abortado", "caido"}
             /\ pcp' \notin {"conExec", "pideTicket"}
  BY <1>0, <1>1, <1>2, <1>3 DEF TiposDelResto, TiposDelKernel, TiposDeTickets, TiposDeCanales,
     ticketVars, EnExec
<1>4. CASE PcpDespierta
  <2>1. semCpu' \in Nat
    BY <1>1, <1>4 DEF PcpDespierta
  <2> QED
    BY <1>1, <1>3, <1>4, <2>1 DEF PcpDespierta, PcpEn, TiposDelKernel
<1>5. CASE PcpMira
  BY <1>1, <1>3, <1>5 DEF PcpMira, PcpEn, TiposDelKernel
<1>6. CASE PcpTomaExec
  <2>1. CASE lista["exec"] = <<>>
    BY <1>0, <1>1, <1>2, <1>6, <2>1, CeroEsHilo
    DEF PcpTomaExec, PcpEn, ticketVars, TiposDelResto, TiposDelKernel, TiposDeTickets,
        TiposDeCanales, EnExec
  <2>2. CASE lista["exec"] # <<>>
    BY <1>1, <1>3, <1>6, <2>2 DEF PcpTomaExec, PcpEn, TiposDelKernel
  <2> QED
    BY <2>1, <2>2
<1>7. CASE PcpSaca
  <2>1. CASE lista["ready"] = <<>> /\ PcpEn("espera") /\ UNCHANGED lista
    BY <1>1, <1>3, <1>7, <2>1 DEF PcpSaca, PcpEn, TiposDelKernel
  <2>2. CASE \E k \in 1..Len(lista["ready"]) :
               /\ lista' = [lista EXCEPT !["ready"] = SinIndice(@, k),
                                         !["exec"] = Append(@, lista["ready"][k])]
               /\ PcpEn("pideTicket")
    <3>1. PICK k \in 1..Len(lista["ready"]) :
               /\ lista' = [lista EXCEPT !["ready"] = SinIndice(lista["ready"], k),
                                         !["exec"] = Append(lista["exec"], lista["ready"][k])]
               /\ pcp' = "pideTicket"
      BY <2>2 DEF PcpEn
    <3>2. lista' \in [Estados -> Seq(Hilos)] /\ lista["ready"][k] \in Hilos
      BY <1>1, <3>1, TiposAlMover
    <3>3. lista'["exec"] = Append(lista["exec"], lista["ready"][k])
      BY <1>1, <3>1, SonEstados
    <3>4. lista'["exec"] # <<>>
      BY <1>1, <3>2, <3>3, AgregarNoVacia
    <3>5. pcp = "conExec" /\ UNCHANGED <<semCpu, ticketVars, dispKC, kernel>>
      BY <1>7 DEF PcpSaca
    <3>6. EnExec'
      BY <1>1, <3>1, <3>4, <3>5 DEF EnExec, ticketVars
    <3> QED
      BY <1>0, <1>1, <1>2, <3>2, <3>5, <3>6
      DEF TiposDelResto, TiposDelKernel, TiposDeTickets, TiposDeCanales, ticketVars
  <2> QED
    BY <1>7, <2>1, <2>2 DEF PcpSaca
<1>8. CASE PcpDespacha
  <2> DEFINE t == lista["exec"][1]
  <2>1. t \in Hilos /\ varTicket + 1 \in 1..MaxTickets /\ varTicket \in 0..MaxTickets
    <3>1. pcp = "pideTicket"
      BY <1>8 DEF PcpDespacha
    <3>2. varTicket < MaxTickets /\ lista["exec"] # <<>> /\ varTicket \in 0..MaxTickets
      BY <1>1, <3>1 DEF EnExec, TiposDeTickets
    <3>3. t \in Hilos
      BY <1>1, <3>2
    <3> QED
      BY <3>2, <3>3, CeroEsHilo
  <2>2. /\ varTicket' = varTicket + 1 /\ ticket' = [ticket EXCEPT ![t] = varTicket + 1]
        /\ dispKC' = Append(dispKC, t) /\ UNCHANGED <<lista, semCpu, kernel>> /\ pcp' = "espera"
        /\ \/ turno' = turno
           \/ turno' = [turno EXCEPT ![varTicket + 1] = [tid |-> t, ref |-> 0]]
    BY <1>8 DEF PcpDespacha, PcpEn
  <2> HIDE DEF t
  <2>3. varTicket' \in 0..MaxTickets /\ ticket' \in [Hilos -> 0..MaxTickets]
    BY <1>1, <2>1, <2>2 DEF TiposDeTickets
  <2>4. [tid |-> t, ref |-> 0] \in Turnos
    BY <2>1, CeroEsHilo DEF Turnos
  <2>5. turno' \in [1..MaxTickets -> Turnos]
    BY <1>1, <2>2, <2>4 DEF TiposDeTickets
  <2>6. dispKC' \in Seq(Hilos)
    BY <1>1, <2>1, <2>2
  <2>7. TiposDelKernel' /\ TiposDeTickets' /\ TiposDeCanales'
    BY <1>0, <1>1, <2>2, <2>3, <2>5, <2>6 DEF TiposDelKernel, TiposDeTickets, TiposDeCanales
  <2> QED
    BY <1>2, <2>2, <2>7 DEF TiposDelResto, EnExec
<1>9. CASE PcpTomaReady
  BY <1>0, <1>1, <1>2, <1>9
  DEF PcpTomaReady, PcpEn, TiposDelResto, TiposDelKernel, TiposDeTickets, TiposDeCanales, ticketVars, EnExec
<1>10. CASE PcpDespachaPorPrioridad
  <2>1. CASE lista["exec"] = <<>>
    <3>1. PICK k \in 1..Len(lista["ready"]) :
               /\ lista' = [lista EXCEPT !["ready"] = SinIndice(lista["ready"], k),
                                         !["exec"] = Append(lista["exec"], lista["ready"][k])]
               /\ dispKC' = Append(dispKC, lista["ready"][k])
      BY <1>10, <2>1 DEF PcpDespachaPorPrioridad
    <3>2. lista' \in [Estados -> Seq(Hilos)] /\ lista["ready"][k] \in Hilos
      BY <1>1, <3>1, TiposAlMover
    <3>3. dispKC' \in Seq(Hilos)
      BY <1>1, <3>1, <3>2
    <3>4. pcp' = "espera" /\ UNCHANGED <<semCpu, ticketVars, kernel>>
      BY <1>10, <2>1 DEF PcpDespachaPorPrioridad, PcpEn
    <3>5. TiposDelKernel' /\ TiposDeTickets' /\ TiposDeCanales'
      BY <1>0, <1>1, <3>2, <3>3, <3>4
      DEF TiposDelKernel, TiposDeTickets, TiposDeCanales, ticketVars
    <3> QED
      BY <1>2, <3>4, <3>5 DEF TiposDelResto, EnExec
  <2>2. CASE lista["exec"] # <<>>
    <3>1. pcp' = "conReady"
      BY <1>10, <2>2 DEF PcpDespachaPorPrioridad
    <3> QED
      BY <1>1, <1>3, <1>10, <2>2, <3>1 DEF PcpDespachaPorPrioridad, TiposDelKernel
  <2> QED
    BY <2>1, <2>2
<1> QED
  BY <1>4, <1>5, <1>6, <1>7, <1>8, <1>9, <1>10 DEF Pcp

\* The request of the CPU and its handler are left alone.
LEMMA PedidoQuieto ==
  ASSUME UnPedido, UnaAtencion, UNCHANGED <<dispCK, cpu, proxTid>>,
         fase'["dispatch"] = fase["dispatch"], busca'["dispatch"] = busca["dispatch"],
         \A b \in Buscadores \ {"dispatch"} : busca'[b].op # "THREAD_CREATE"
  PROVE  UnPedido' /\ UnaAtencion'
BY DEF UnPedido, UnaAtencion

LEMMA BasePcp ==
  ASSUME Base, Pcp
  PROVE  Base'
<1>1. UNCHANGED <<dispCK, cpu, proxTid, fase, busca>>
  BY DEF Pcp, buscaVars
<1>2. UnPedido' /\ UnaAtencion'
  BY <1>1 DEF Base, UnPedido, UnaAtencion
<1> QED
  BY <1>2, PasosDePcp, TiposAlDespachar DEF Base

LEMMA BaseTimer ==
  ASSUME Base, NEW k \in 1..MaxTickets, Timer(k)
  PROVE  Base'
<1>1. UNCHANGED <<algoritmo, kernel, lista, proxTid, semCpu, pcp, varTicket, ticket, gestor, fase, paso,
                  busca, tidABuscar, cruce, dormidos, cpu, dispKC, intKC, dispCK, intCK>>
  BY DEF Timer, pcpVars, buscaVars, cpuVars
<1>2. /\ ticket \in [Hilos -> 0..MaxTickets] /\ turno \in [1..MaxTickets -> Turnos]
      /\ semInterr \in Nat
  BY DEF Base, TiposDelResto, TiposDeTickets, TiposDelKernel
<1>3. turno' \in [1..MaxTickets -> Turnos] /\ semInterr' \in Nat
  <2>1. CASE LeerTicket(k)
    <3>1. turno[k] \in Turnos /\ ticket[turno[k].tid] \in 0..MaxTickets
      BY <1>2 DEF Turnos
    <3>2. turno' = [turno EXCEPT ![k] = [turno[k] EXCEPT !.ref = ticket[turno[k].tid]]]
      BY <2>1 DEF LeerTicket
    <3>3. [turno[k] EXCEPT !.ref = ticket[turno[k].tid]] \in Turnos
      BY <3>1 DEF Turnos
    <3> QED
      BY <1>2, <2>1, <3>2, <3>3 DEF LeerTicket
  <2>2. CASE TimerDespierta(k)
    BY <1>2, <2>2 DEF TimerDespierta
  <2>3. CASE TimerVence(k)
    <3>1. [tid |-> 0, ref |-> 0] \in Turnos
      BY CeroEsHilo DEF Turnos
    <3> QED
      BY <1>2, <2>3, <3>1 DEF TimerVence
  <2> QED
    BY <2>1, <2>2, <2>3 DEF Timer
<1>4. TiposDelResto'
  BY <1>1, <1>3 DEF Base, TiposDelResto, TiposDelKernel, TiposDeTickets, TiposDeBusquedas, TiposDeCanales
<1>5. UnPedido' /\ UnaAtencion' /\ EnExec'
  BY <1>1 DEF Base, UnPedido, UnaAtencion, EnExec
<1> QED
  BY <1>4, <1>5, PasosDelTimer DEF Base

LEMMA BaseGestor ==
  ASSUME Base, Gestor
  PROVE  Base'
<1>1. UNCHANGED <<algoritmo, kernel, lista, dueno, proxTid, semCpu, pcp, varTicket, ticket, timer, turno,
                  fase, paso, busca, tidABuscar, cruce, dormidos, cpu, dispKC, dispCK, intCK>>
  BY DEF Gestor, pcpVars, ticketVars, buscaVars
<1>2. /\ semInterr \in Nat /\ gestor \in BOOLEAN /\ intKC \in Seq(Hilos)
      /\ lista["exec"] \in Seq(Hilos)
  BY SonEstados DEF Base, TiposDelResto, TiposDelKernel, TiposDeCanales
<1>3. semInterr' \in Nat /\ gestor' \in BOOLEAN /\ intKC' \in Seq(Hilos)
  <2>1. CASE GestorDespierta
    BY <1>2, <2>1 DEF GestorDespierta
  <2>2. CASE GestorEnvia
    <3>1. CASE lista["exec"] = <<>>
      BY <1>2, <2>2, <3>1 DEF GestorEnvia
    <3>2. CASE lista["exec"] # <<>>
      <4>1. PICK t \in Hilos : t = lista["exec"][1]
        BY <1>2, <3>2
      <4>2. intKC' = Append(intKC, t) /\ gestor' = FALSE /\ semInterr' = semInterr
        BY <2>2, <3>2, <4>1 DEF GestorEnvia
      <4>3. intKC' \in Seq(Hilos)
        BY <1>2, <4>1, <4>2, AgregarNoVacia, EnListaAgregar
      <4> QED
        BY <1>2, <4>2, <4>3
    <3> QED
      BY <3>1, <3>2
  <2> QED
    BY <2>1, <2>2 DEF Gestor
<1>4. TiposDelResto'
  BY <1>1, <1>3 DEF Base, TiposDelResto, TiposDelKernel, TiposDeTickets, TiposDeBusquedas, TiposDeCanales
<1>5. UnPedido' /\ UnaAtencion' /\ EnExec'
  BY <1>1 DEF Base, UnPedido, UnaAtencion, EnExec
<1>6. DuenosSegunFase'
  BY <1>1, NoToca DEF Base
<1> QED
  BY <1>4, <1>5, <1>6 DEF Base

\* What the CPU does: it asks for something when it has no answer to wait for.
LEMMA BaseCpu ==
  ASSUME Base, Cpu
  PROVE  Base'
<1>1. UNCHANGED <<algoritmo, kernel, lista, dueno, proxTid, semCpu, pcp, varTicket, ticket, timer, turno,
                  semInterr, gestor, fase, paso, busca, tidABuscar, cruce, dormidos>>
  BY DEF Cpu, pcpVars, ticketVars, interrVars, buscaVars
<1>2. /\ cpu \in Cpus /\ dispKC \in Seq(Hilos) /\ intKC \in Seq(Hilos) /\ intCK \in Seq(Hilos)
      /\ dispCK \in Seq(Syscalls) /\ cpu.tid \in Hilos
      /\ UnPedido /\ UnaAtencion
  BY DEF Base, TiposDelResto, TiposDeCanales, Cpus
<1>3. TiposDeCanales' /\ UnPedido' /\ UnaAtencion'
  <2>1. CASE CpuCarga
    <3>1. /\ cpu.fase = "libre" /\ dispKC # <<>>
          /\ cpu' = Ejecuta(Head(dispKC)) /\ dispKC' = Tail(dispKC)
          /\ UNCHANGED <<intKC, dispCK, intCK>>
      BY <2>1 DEF CpuCarga
    <3>2. Head(dispKC) \in Hilos /\ Tail(dispKC) \in Seq(Hilos)
      BY <1>2, <3>1
    <3>3. cpu'.fase = "ejecuta" /\ cpu' \in Cpus
      BY <3>1, <3>2 DEF Ejecuta, Cpus
    <3>4. UnPedido' /\ UnaAtencion'
      BY <1>1, <1>2, <3>1, <3>3 DEF UnPedido, UnaAtencion, Ninguno
    <3> QED
      BY <1>2, <3>1, <3>2, <3>3, <3>4 DEF TiposDeCanales
  <2>2. CASE \E o \in {"IO", "THREAD_CREATE"} : CpuPide(o)
    <3>1. PICK o \in {"IO", "THREAD_CREATE"} : CpuPide(o)
      BY <2>2
    <3> DEFINE s == [op |-> o, tid |-> cpu.tid]
    <3>2. /\ cpu.fase = "ejecuta" /\ (o = "THREAD_CREATE" => proxTid <= MaxTid)
          /\ cpu' = [cpu EXCEPT !.fase = "pide"] /\ dispCK' = Append(dispCK, s)
          /\ UNCHANGED <<dispKC, intKC, intCK>>
      BY <3>1 DEF CpuPide
    <3>3. s \in Syscalls /\ s \in Pedidos /\ s.tid = cpu.tid /\ s.op = o
      BY <1>2 DEF Syscalls, Pedidos
    <3>4. cpu' \in Cpus /\ cpu'.fase = "pide" /\ cpu'.tid = cpu.tid
      BY <1>2, <3>2 DEF Cpus
    <3>5. fase["dispatch"] = "libre" /\ Ninguno(dispCK, Pedidos)
      BY <1>2, <3>2 DEF UnPedido
    <3> HIDE DEF s
    <3>6. AloSumoUno(dispCK', Pedidos) /\ dispCK' \in Seq(Syscalls)
      BY <1>2, <3>2, <3>3, <3>5, AgregarPrimero
    <3>7. \A i \in 1..Len(dispCK') :
            dispCK'[i] = s \/ (i \in 1..Len(dispCK) /\ dispCK'[i] = dispCK[i])
      BY <1>2, <3>2, <3>3, AgregarForma
    <3>8. UnPedido' /\ UnaAtencion'
      BY <1>1, <1>2, <3>2, <3>3, <3>4, <3>5, <3>6, <3>7, SMTT(30) DEF UnPedido, UnaAtencion
    <3> QED
      BY <1>2, <3>2, <3>4, <3>6, <3>8 DEF TiposDeCanales
  <2>3. CASE CpuDeja
    <3> DEFINE s == [op |-> "DESALOJO_SYSCALL", tid |-> cpu.tid]
    <3>2. /\ cpu.fase = "bloqueada" /\ cpu' = CpuLibre /\ dispCK' = Append(dispCK, s)
          /\ UNCHANGED <<dispKC, intKC, intCK>>
      BY <2>3 DEF CpuDeja
    <3>3. s \in Syscalls /\ s \notin Pedidos /\ s.op = "DESALOJO_SYSCALL"
      BY <1>2 DEF Syscalls, Pedidos
    <3>4. cpu' \in Cpus /\ cpu'.fase = "libre"
      BY <3>2, CeroEsHilo DEF CpuLibre, Cpus
    <3>5. fase["dispatch"] = "libre" /\ Ninguno(dispCK, Pedidos) /\ AloSumoUno(dispCK, Pedidos)
      BY <1>2, <3>2 DEF UnPedido
    <3> HIDE DEF s
    <3>6. dispCK' \in Seq(Syscalls) /\ Ninguno(dispCK', Pedidos) /\ AloSumoUno(dispCK', Pedidos)
      BY <1>2, <3>2, <3>3, <3>5, AgregarAjeno
    <3>7. \A i \in 1..Len(dispCK') : dispCK'[i].op # "THREAD_CREATE"
      <4>1. \A i \in 1..Len(dispCK') : dispCK'[i] \in Syscalls /\ dispCK'[i] \notin Pedidos
        BY <3>6 DEF Ninguno
      <4> QED
        BY <4>1 DEF Pedidos
    <3>8. UnPedido' /\ UnaAtencion'
      BY <1>1, <1>2, <3>4, <3>5, <3>6, <3>7 DEF UnPedido, UnaAtencion, Ninguno
    <3> QED
      BY <1>2, <3>2, <3>4, <3>6, <3>8 DEF TiposDeCanales
  <2>4. CASE CpuInterrumpe
    <3>1. /\ intKC # <<>> /\ intKC' = Tail(intKC) /\ UNCHANGED <<dispKC, dispCK>>
          /\ Head(intKC) \in Hilos /\ Tail(intKC) \in Seq(Hilos)
      BY <1>2, <2>4 DEF CpuInterrumpe
    <3>2. CASE cpu = Ejecuta(Head(intKC))
      <4>1. cpu' = CpuLibre /\ intCK' = Append(intCK, Head(intKC)) /\ cpu.fase = "ejecuta"
        BY <2>4, <3>2 DEF CpuInterrumpe, Ejecuta
      <4>2. cpu' \in Cpus /\ cpu'.fase = "libre" /\ intCK' \in Seq(Hilos)
        BY <1>2, <3>1, <4>1, CeroEsHilo DEF CpuLibre, Cpus
      <4>3. UnPedido' /\ UnaAtencion'
        BY <1>1, <1>2, <3>1, <4>1, <4>2 DEF UnPedido, UnaAtencion, Ninguno
      <4> QED
        BY <1>2, <3>1, <4>2, <4>3 DEF TiposDeCanales
    <3>3. CASE cpu # Ejecuta(Head(intKC))
      <4>1. UNCHANGED <<cpu, intCK>>
        BY <2>4, <3>3 DEF CpuInterrumpe
      <4>2. UnPedido' /\ UnaAtencion'
        BY <1>1, <1>2, <3>1, <4>1 DEF UnPedido, UnaAtencion
      <4> QED
        BY <1>2, <3>1, <4>1, <4>2 DEF TiposDeCanales
    <3> QED
      BY <3>2, <3>3
  <2> QED
    BY <2>1, <2>2, <2>3, <2>4 DEF Cpu
<1>4. TiposDelKernel' /\ TiposDeTickets' /\ TiposDeBusquedas'
  BY <1>1 DEF Base, TiposDelResto, TiposDelKernel, TiposDeTickets, TiposDeBusquedas
<1>5. EnExec'
  BY <1>1 DEF Base, EnExec
<1>6. DuenosSegunFase'
  BY <1>1, NoToca DEF Base
<1> QED
  BY <1>3, <1>4, <1>5, <1>6 DEF Base, TiposDelResto

\* What the handlers leave alone, whichever it is.
LEMMA ManejadorQuieto ==
  ASSUME Manejador(Dispatch) \/ Manejador(Interrupt) \/ Manejador(Io)
  PROVE  /\ UNCHANGED <<algoritmo, pcp, varTicket, ticket, timer, turno, semInterr, gestor>>
         /\ kernel = "vivo" /\ (Dispatch \/ Interrupt \/ Io)
BY DEF Manejador, ticketVars, interrVars

\* A search, of any handler.
LEMMA BaseBuscar ==
  ASSUME Base, NEW b \in Buscadores, Buscar(b),
         UNCHANGED <<algoritmo, pcp, varTicket, ticket, timer, turno, semInterr, gestor>>
  PROVE  TiposDelResto' /\ UnPedido' /\ UnaAtencion' /\ EnExec'
<1> DEFINE m == Recorrido[paso[b]]
<1>1. UNCHANGED <<proxTid, semCpu, dormidos, cpu, dispKC, intKC, dispCK, intCK, tidABuscar, cruce>>
  BY DEF Buscar, Mirar, Sacar, cpuVars
<1>2. /\ TiposDelKernel /\ TiposDeTickets /\ TiposDeBusquedas /\ TiposDeCanales
      /\ UnPedido /\ UnaAtencion /\ EnExec
      /\ lista \in [Estados -> Seq(Hilos)] /\ busca \in [Buscadores -> EnCurso]
      /\ tidABuscar \in Hilos /\ kernel \in {"vivo", "abortado", "caido"}
      /\ fase \in [Buscadores -> {"libre", "busca", "saca", "mano", "cierra", "nulo"}]
      /\ m \in Estados
  BY SonEstados DEF Base, TiposDelResto, TiposDelKernel, TiposDeBusquedas, DuenosSegunFase, Tipos
<1>3. /\ fase[b] \in {"busca", "saca"} /\ busca[b].op # "THREAD_CREATE"
      /\ \E f \in {"busca", "saca", "mano", "nulo"} : fase' = [fase EXCEPT ![b] = f]
  <2>1. fase[b] \in {"busca", "saca"}
    BY DEF Buscar, Mirar, Sacar
  <2>2. \/ fase' = fase
        \/ \E f \in {"busca", "saca", "mano", "nulo"} : fase' = [fase EXCEPT ![b] = f]
    BY DEF Buscar, Mirar, Sacar, En
  <2>3. fase' = fase => fase' = [fase EXCEPT ![b] = fase[b]]
    BY <1>2
  <2> QED
    BY <1>2, <2>1, <2>2, <2>3 DEF UnaAtencion
<1>4. /\ kernel' \in {"vivo", "abortado", "caido"}
      /\ \/ lista' = lista
         \/ fase[b] = "saca" /\ lista' = [lista EXCEPT ![m] = Quitar(lista[m], tidABuscar)]
      /\ \/ busca' = busca
         \/ busca' = [busca EXCEPT ![b] = [busca[b] EXCEPT !.tcb = tidABuscar]]
  BY <1>2 DEF Buscar, Mirar, Sacar
<1> HIDE DEF m
<1>5. lista' \in [Estados -> Seq(Hilos)]
  <2>1. lista[m] \in Seq(Hilos)
    BY <1>2
  <2>2. Quitar(lista[m], tidABuscar) \in Seq(Hilos)
    BY <2>1, QuitarTipo
  <2> QED
    BY <1>2, <1>4, <2>2
<1>6. /\ busca' \in [Buscadores -> EnCurso]
      /\ \A c \in Buscadores : busca'[c].op = busca[c].op /\ busca'[c].tid = busca[c].tid
      /\ \A c \in Buscadores \ {b} : busca'[c] = busca[c]
  <2>1. [busca[b] EXCEPT !.tcb = tidABuscar] \in EnCurso
    BY <1>2 DEF EnCurso
  <2>2. /\ [busca[b] EXCEPT !.tcb = tidABuscar].op = busca[b].op
        /\ [busca[b] EXCEPT !.tcb = tidABuscar].tid = busca[b].tid
    BY <1>2 DEF EnCurso
  <2>3. CASE busca' = busca
    BY <1>2, <2>3
  <2>4. CASE busca' = [busca EXCEPT ![b] = [busca[b] EXCEPT !.tcb = tidABuscar]]
    BY <1>2, <2>1, <2>2, <2>4
  <2> QED
    BY <1>4, <2>3, <2>4
<1>7. EnExec'
  <2>1. fase[b] = "saca" => dueno[m] = b
    BY DEF Base, DuenosSegunFase, DuenosQueBuscan, m
  <2>2. pcp \in {"conExec", "pideTicket"} => dueno["exec"] = "pcp"
    BY DEF Base, DuenosSegunFase, DuenosDePcp
  <2>3. b # "pcp"
    BY DEF Buscadores
  <2>4. pcp \in {"conExec", "pideTicket"} => lista'["exec"] = lista["exec"]
    BY <1>2, <1>4, <2>1, <2>2, <2>3, SonEstados
  <2> QED
    BY <1>2, <2>4 DEF EnExec
<1>8. "dispatch" \in Buscadores
  BY DEF Buscadores
<1>9. PICK f \in {"busca", "saca", "mano", "nulo"} : fase' = [fase EXCEPT ![b] = f]
  BY <1>3
<1>10. fase' = [fase EXCEPT ![b] = f] /\ f # "libre" /\ fase[b] # "libre"
  BY <1>3, <1>9
<1>11. fase'["dispatch"] = "libre" <=> fase["dispatch"] = "libre"
  BY <1>2, <1>8, <1>10
<1>12. UnPedido'
  BY <1>1, <1>2, <1>11 DEF UnPedido
<1>13. \A c \in Buscadores : c # b => fase'[c] = fase[c]
  BY <1>2, <1>10
<1>14. UnaAtencion'
  <2>1. CASE b = "dispatch"
    BY <1>1, <1>2, <1>3, <1>6, <1>8, <1>11, <1>13, <2>1 DEF UnaAtencion
  <2>2. CASE b # "dispatch"
    BY <1>1, <1>2, <1>3, <1>6, <1>8, <1>13, <2>2 DEF UnaAtencion
  <2> QED
    BY <2>1, <2>2
<1>15. TiposDelKernel' /\ TiposDeTickets' /\ TiposDeBusquedas' /\ TiposDeCanales'
  BY <1>1, <1>2, <1>4, <1>5, <1>6 DEF TiposDelKernel, TiposDeTickets, TiposDeBusquedas, TiposDeCanales
<1> QED
  BY <1>7, <1>12, <1>14, <1>15 DEF TiposDelResto

\* A message of the CPU is taken: a request or the notice of a blocked thread.
LEMMA TomaDelCanal ==
  ASSUME Base, dispCK # <<>>, dispCK' = Tail(dispCK)
  PROVE  /\ Head(dispCK) \in Syscalls /\ dispCK' \in Seq(Syscalls)
         /\ AloSumoUno(dispCK', Pedidos)
         /\ Head(dispCK) \in Pedidos =>
              /\ cpu.fase = "pide" /\ Head(dispCK).tid = cpu.tid /\ Ninguno(dispCK', Pedidos)
              /\ Head(dispCK).op = "THREAD_CREATE" => proxTid <= MaxTid
         /\ Ninguno(dispCK, Pedidos) => Ninguno(dispCK', Pedidos)
         /\ \A i \in 1..Len(dispCK') : i + 1 \in 1..Len(dispCK) /\ dispCK'[i] = dispCK[i + 1]
<1>1. dispCK \in Seq(Syscalls) /\ UnPedido
  BY DEF Base, TiposDelResto, TiposDeCanales
<1>2. AloSumoUno(dispCK, Pedidos)
  BY <1>1 DEF UnPedido
<1>3. /\ Head(dispCK) \in Syscalls /\ dispCK' \in Seq(Syscalls)
      /\ AloSumoUno(dispCK', Pedidos)
      /\ Head(dispCK) \in Pedidos => Ninguno(dispCK', Pedidos)
      /\ Ninguno(dispCK, Pedidos) => Ninguno(dispCK', Pedidos) /\ Head(dispCK) \notin Pedidos
  BY <1>1, <1>2, SacarPrimero
<1>4. Head(dispCK) = dispCK[1] /\ 1 \in 1..Len(dispCK)
  BY <1>1
<1>5. Head(dispCK) \in Pedidos =>
        /\ cpu.fase = "pide" /\ Head(dispCK).tid = cpu.tid
        /\ Head(dispCK).op = "THREAD_CREATE" => proxTid <= MaxTid
  BY <1>1, <1>3, <1>4 DEF UnPedido
<1>6. \A i \in 1..Len(dispCK') : i + 1 \in 1..Len(dispCK) /\ dispCK'[i] = dispCK[i + 1]
  BY <1>1, ColaForma
<1> QED
  BY <1>3, <1>5, <1>6

\* The handler of the socket of the dispatches takes its next message.
LEMMA BaseRecibe ==
  ASSUME Base, DispatchDesalojoSyscall \/ DispatchIo \/ DispatchThreadCreate,
         UNCHANGED <<algoritmo, pcp, varTicket, ticket, timer, turno, semInterr, gestor>>
  PROVE  TiposDelResto' /\ UnPedido' /\ UnaAtencion' /\ EnExec'
<1> DEFINE s == Head(dispCK)
<1>1. /\ fase["dispatch"] = "libre" /\ dispCK # <<>> /\ dispCK' = Tail(dispCK)
      /\ UNCHANGED <<kernel, lista, dueno, proxTid, cpu, dispKC, intKC, intCK>>
  BY DEF DispatchDesalojoSyscall, DispatchIo, DispatchThreadCreate, Recibe
<1>2. /\ TiposDelKernel /\ TiposDeTickets /\ TiposDeBusquedas /\ TiposDeCanales
      /\ UnPedido /\ UnaAtencion /\ EnExec
      /\ busca \in [Buscadores -> EnCurso] /\ proxTid \in 1..(MaxTid + 1)
      /\ fase \in [Buscadores -> {"libre", "busca", "saca", "mano", "cierra", "nulo"}]
      /\ "dispatch" \in Buscadores
  BY DEF Base, TiposDelResto, TiposDeBusquedas, TiposDelKernel, DuenosSegunFase, Tipos, Buscadores
<1>3. /\ s \in Syscalls /\ dispCK' \in Seq(Syscalls) /\ AloSumoUno(dispCK', Pedidos)
      /\ s \in Pedidos =>
              /\ cpu.fase = "pide" /\ s.tid = cpu.tid /\ Ninguno(dispCK', Pedidos)
              /\ s.op = "THREAD_CREATE" => proxTid <= MaxTid
      /\ Ninguno(dispCK, Pedidos) => Ninguno(dispCK', Pedidos)
      /\ \A i \in 1..Len(dispCK') : i + 1 \in 1..Len(dispCK) /\ dispCK'[i] = dispCK[i + 1]
  BY <1>1, TomaDelCanal
<1>4. TiposDeTickets' /\ EnExec' /\ TiposDeCanales'
  BY <1>1, <1>2, <1>3 DEF TiposDeTickets, EnExec, TiposDeCanales
<1>5. s.tid \in Hilos /\ (s \in Pedidos <=> s.op # "DESALOJO_SYSCALL")
  BY <1>3 DEF Syscalls, Pedidos
<1>6. /\ \A i \in 1..Len(dispCK') : dispCK'[i] \in Pedidos => dispCK'[i].tid = cpu.tid
      /\ \A i \in 1..Len(dispCK') : dispCK'[i].op = "THREAD_CREATE" => proxTid <= MaxTid
  BY <1>2, <1>3 DEF UnPedido
<1> HIDE DEF s
<1>7. CASE DispatchDesalojoSyscall
  <2>1. UNCHANGED <<fase, paso, busca, tidABuscar, cruce, dormidos>> /\ semCpu' = semCpu + 1
    BY <1>7 DEF DispatchDesalojoSyscall, buscaVars
  <2>2. TiposDelKernel' /\ TiposDeBusquedas'
    BY <1>1, <1>2, <2>1 DEF TiposDelKernel, TiposDeBusquedas
  <2>3. UnPedido' /\ UnaAtencion'
    BY <1>1, <1>2, <1>3, <1>6, <2>1 DEF UnPedido, UnaAtencion
  <2> QED
    BY <1>4, <2>2, <2>3 DEF TiposDelResto
<1>8. CASE DispatchIo
  <2>1. /\ s.op = "IO" /\ tidABuscar' = s.tid /\ fase' = [fase EXCEPT !["dispatch"] = "busca"]
        /\ busca' = [busca EXCEPT !["dispatch"] = [op |-> "IO", tid |-> s.tid, tcb |-> 0]]
        /\ cruce' \in BOOLEAN /\ UNCHANGED <<semCpu, dormidos>>
    BY <1>2, <1>8 DEF DispatchIo, Recibe, Llamar, En, s, TiposDeBusquedas
  <2>2. [op |-> "IO", tid |-> s.tid, tcb |-> 0] \in EnCurso
    BY <1>5, CeroEsHilo DEF EnCurso
  <2>3. TiposDelKernel' /\ TiposDeBusquedas'
    BY <1>1, <1>2, <1>5, <2>1, <2>2 DEF TiposDelKernel, TiposDeBusquedas
  <2>4. /\ fase'["dispatch"] = "busca" /\ busca'["dispatch"].op = "IO" /\ busca'["dispatch"].tid = s.tid
        /\ \A b \in Buscadores \ {"dispatch"} : fase'[b] = fase[b] /\ busca'[b] = busca[b]
    BY <1>2, <2>1
  <2>5. cpu.fase = "pide" /\ s.tid = cpu.tid /\ Ninguno(dispCK', Pedidos)
    BY <1>3, <1>5, <2>1
  <2>6. UnPedido' /\ UnaAtencion'
    BY <1>1, <1>2, <1>3, <1>6, <2>4, <2>5 DEF UnPedido, UnaAtencion
  <2> QED
    BY <1>4, <2>3, <2>6 DEF TiposDelResto
<1>9. CASE DispatchThreadCreate
  <2> DEFINE r == [EnReposo EXCEPT !.op = "THREAD_CREATE", !.tcb = proxTid]
  <2>1. /\ s.op = "THREAD_CREATE" /\ fase' = [fase EXCEPT !["dispatch"] = "mano"]
        /\ busca' = [busca EXCEPT !["dispatch"] = r]
        /\ UNCHANGED <<paso, tidABuscar, cruce, dormidos, semCpu>>
    BY <1>9 DEF DispatchThreadCreate, Recibe, En, s
  <2>2. cpu.fase = "pide" /\ Ninguno(dispCK', Pedidos) /\ proxTid <= MaxTid
    BY <1>3, <1>5, <2>1
  <2>3. r.op = "THREAD_CREATE" /\ r.tcb = proxTid /\ r.tid = 0
    BY DEF EnReposo
  <2>4. proxTid \in Hilos
    BY <1>2, <2>2, CeroEsHilo DEF Hilos
  <2>5. r \in EnCurso
    BY <2>4, CeroEsHilo DEF EnReposo, EnCurso
  <2> HIDE DEF r
  <2>6. TiposDelKernel' /\ TiposDeBusquedas'
    BY <1>1, <1>2, <2>1, <2>5 DEF TiposDelKernel, TiposDeBusquedas
  <2>7. /\ fase'["dispatch"] = "mano" /\ busca'["dispatch"] = r
        /\ \A b \in Buscadores \ {"dispatch"} : fase'[b] = fase[b] /\ busca'[b] = busca[b]
    BY <1>2, <2>1
  <2>8. UnPedido' /\ UnaAtencion'
    BY <1>1, <1>2, <1>3, <1>6, <2>2, <2>3, <2>7 DEF UnPedido, UnaAtencion
  <2> QED
    BY <1>4, <2>6, <2>8 DEF TiposDelResto
<1> QED
  BY <1>7, <1>8, <1>9

\* A handler puts its TCB in READY or BLOCKED.
LEMMA BaseAgregar ==
  ASSUME Base, NEW b \in Buscadores, NEW e \in {"ready", "blocked"}, Agregar(b, e),
         UNCHANGED <<algoritmo, pcp, varTicket, ticket, timer, turno, semInterr, gestor>>
  PROVE  TiposDelResto' /\ UnPedido' /\ UnaAtencion' /\ EnExec'
<1>1. /\ fase[b] = "mano" /\ fase' = [fase EXCEPT ![b] = "cierra"]
      /\ lista' = [lista EXCEPT ![e] = Append(lista[e], busca[b].tcb)]
      /\ UNCHANGED <<kernel, dueno, proxTid, paso, busca, tidABuscar, cruce, semCpu, dormidos,
                     cpu, dispKC, intKC, dispCK, intCK>>
  BY DEF Agregar, En, cpuVars
<1>2. /\ TiposDelKernel /\ TiposDeTickets /\ TiposDeBusquedas /\ TiposDeCanales
      /\ UnPedido /\ UnaAtencion /\ EnExec
      /\ lista \in [Estados -> Seq(Hilos)] /\ busca[b].tcb \in Hilos
      /\ fase \in [Buscadores -> {"libre", "busca", "saca", "mano", "cierra", "nulo"}]
      /\ "dispatch" \in Buscadores /\ e \in Estados
  BY SonEstados DEF Base, TiposDelResto, TiposDeBusquedas, TiposDelKernel, DuenosSegunFase, Tipos,
     Buscadores, EnCurso
<1>3. lista' \in [Estados -> Seq(Hilos)] /\ lista'["exec"] = lista["exec"]
  <2>1. PICK x \in Hilos : x = busca[b].tcb
    BY <1>2
  <2>2. Append(lista[e], x) \in Seq(Hilos)
    BY <1>2, <2>1, EnListaAgregar
  <2> QED
    BY <1>1, <1>2, <2>1, <2>2, SonEstados
<1>4. fase'["dispatch"] = "libre" <=> fase["dispatch"] = "libre"
  BY <1>1, <1>2
<1>5. UnPedido' /\ EnExec'
  BY <1>1, <1>2, <1>3, <1>4 DEF UnPedido, EnExec
<1>6. \A c \in Buscadores : fase'[c] = IF c = b THEN "cierra" ELSE fase[c]
  BY <1>1, <1>2
<1>7. UnaAtencion'
  BY <1>1, <1>2, <1>4, <1>6 DEF UnaAtencion
<1>8. TiposDelKernel' /\ TiposDeTickets' /\ TiposDeBusquedas' /\ TiposDeCanales'
  BY <1>1, <1>2, <1>3 DEF TiposDelKernel, TiposDeTickets, TiposDeBusquedas, TiposDeCanales
<1> QED
  BY <1>5, <1>7, <1>8 DEF TiposDelResto

\* crear_hilo: the TCB takes the next tid, and there was one.
LEMMA BaseCrea ==
  ASSUME Base, DispatchCrea,
         UNCHANGED <<algoritmo, pcp, varTicket, ticket, timer, turno, semInterr, gestor>>
  PROVE  TiposDelResto' /\ UnPedido' /\ UnaAtencion' /\ EnExec'
<1>1. /\ fase["dispatch"] = "mano" /\ fase' = [fase EXCEPT !["dispatch"] = "cierra"]
      /\ busca["dispatch"].op = "THREAD_CREATE" /\ proxTid' = proxTid + 1
      /\ lista' = [lista EXCEPT !["ready"] = Append(lista["ready"], proxTid)]
      /\ UNCHANGED <<dueno, paso, busca, tidABuscar, cruce, semCpu, dormidos,
                     cpu, dispKC, intKC, dispCK, intCK>>
  BY DEF DispatchCrea, En, cpuVars
<1>2. /\ TiposDelKernel /\ TiposDeTickets /\ TiposDeBusquedas /\ TiposDeCanales
      /\ UnPedido /\ UnaAtencion /\ EnExec
      /\ lista \in [Estados -> Seq(Hilos)] /\ proxTid \in 1..(MaxTid + 1)
      /\ kernel \in {"vivo", "abortado", "caido"}
      /\ fase \in [Buscadores -> {"libre", "busca", "saca", "mano", "cierra", "nulo"}]
      /\ "dispatch" \in Buscadores /\ dispCK \in Seq(Syscalls)
  BY DEF Base, TiposDelResto, TiposDeBusquedas, TiposDelKernel, DuenosSegunFase, Tipos,
     Buscadores, TiposDeCanales
<1>3. proxTid <= MaxTid
  BY <1>1, <1>2 DEF UnaAtencion
<1>4. proxTid \in Hilos /\ proxTid + 1 \in 1..(MaxTid + 1)
  BY <1>2, <1>3, CeroEsHilo DEF Hilos
<1>5. lista' \in [Estados -> Seq(Hilos)] /\ lista'["exec"] = lista["exec"]
  <2>1. PICK x \in Hilos : x = proxTid
    BY <1>4
  <2>2. Append(lista["ready"], x) \in Seq(Hilos)
    BY <1>2, <2>1, EnListaAgregar, SonEstados
  <2> QED
    BY <1>1, <1>2, <2>1, <2>2, SonEstados
<1>6. kernel' \in {"vivo", "abortado", "caido"}
  BY <1>2 DEF DispatchCrea
<1>7. \A i \in 1..Len(dispCK) : dispCK[i].op # "THREAD_CREATE"
  <2>1. \A i \in 1..Len(dispCK) : dispCK[i] \in Syscalls /\ dispCK[i] \notin Pedidos
    BY <1>1, <1>2 DEF UnPedido, Ninguno
  <2> QED
    BY <2>1 DEF Pedidos
<1>8. /\ fase'["dispatch"] = "cierra"
      /\ \A b \in Buscadores \ {"dispatch"} : fase'[b] = fase[b]
  BY <1>1, <1>2
<1>9. UnPedido' /\ UnaAtencion'
  BY <1>1, <1>2, <1>7, <1>8 DEF UnPedido, UnaAtencion
<1>10. EnExec'
  BY <1>2, <1>5 DEF EnExec
<1>11. TiposDelKernel' /\ TiposDeTickets' /\ TiposDeBusquedas' /\ TiposDeCanales'
  BY <1>1, <1>2, <1>4, <1>5, <1>6 DEF TiposDelKernel, TiposDeTickets, TiposDeBusquedas, TiposDeCanales
<1> QED
  BY <1>9, <1>10, <1>11 DEF TiposDelResto

\* aviso_finalizacion_syscall.
LEMMA BaseAvisa ==
  ASSUME Base, DispatchAvisa,
         UNCHANGED <<algoritmo, pcp, varTicket, ticket, timer, turno, semInterr, gestor>>
  PROVE  TiposDelResto' /\ UnPedido' /\ UnaAtencion' /\ EnExec'
<1>1. /\ fase["dispatch"] = "cierra" /\ fase' = [fase EXCEPT !["dispatch"] = "libre"]
      /\ busca' = [busca EXCEPT !["dispatch"] = EnReposo]
      /\ \/ dormidos' = dormidos \/ dormidos' = dormidos \cup {busca["dispatch"].tid}
      /\ \E f \in {"bloqueada", "ejecuta"} : cpu' = [cpu EXCEPT !.fase = f]
      /\ UNCHANGED <<kernel, lista, dueno, proxTid, paso, tidABuscar, cruce, semCpu, dispKC, intKC,
                     dispCK, intCK>>
  BY DEF DispatchAvisa, En
<1>2. /\ TiposDelKernel /\ TiposDeTickets /\ TiposDeBusquedas /\ TiposDeCanales
      /\ UnPedido /\ UnaAtencion /\ EnExec
      /\ busca \in [Buscadores -> EnCurso] /\ cpu \in Cpus /\ dormidos \subseteq Hilos
      /\ fase \in [Buscadores -> {"libre", "busca", "saca", "mano", "cierra", "nulo"}]
      /\ "dispatch" \in Buscadores /\ dispCK \in Seq(Syscalls)
  BY DEF Base, TiposDelResto, TiposDeBusquedas, TiposDelKernel, DuenosSegunFase, Tipos,
     Buscadores, TiposDeCanales
<1>3. PICK f \in {"bloqueada", "ejecuta"} : cpu' = [cpu EXCEPT !.fase = f]
  BY <1>1
<1>4. cpu' \in Cpus /\ cpu'.fase # "pide"
  BY <1>2, <1>3 DEF Cpus
<1>5. EnReposo \in EnCurso /\ EnReposo.op = "IO"
  BY CeroEsHilo DEF EnReposo, EnCurso
<1>6. busca["dispatch"].tid \in Hilos
  BY <1>2 DEF EnCurso
<1>7. Ninguno(dispCK, Pedidos)
  BY <1>1, <1>2 DEF UnPedido
<1>8. \A i \in 1..Len(dispCK) : dispCK[i].op # "THREAD_CREATE"
  <2>1. \A i \in 1..Len(dispCK) : dispCK[i] \in Syscalls /\ dispCK[i] \notin Pedidos
    BY <1>2, <1>7 DEF Ninguno
  <2> QED
    BY <2>1 DEF Pedidos
<1>9. /\ fase'["dispatch"] = "libre" /\ busca'["dispatch"] = EnReposo
      /\ \A b \in Buscadores \ {"dispatch"} : fase'[b] = fase[b] /\ busca'[b] = busca[b]
  BY <1>1, <1>2
<1>10. UnPedido' /\ UnaAtencion' /\ EnExec'
  BY <1>1, <1>2, <1>4, <1>5, <1>7, <1>8, <1>9 DEF UnPedido, UnaAtencion, EnExec, Ninguno
<1>11. dormidos' \subseteq Hilos
  BY <1>1, <1>2, <1>6
<1>12. TiposDelKernel' /\ TiposDeTickets' /\ TiposDeBusquedas' /\ TiposDeCanales'
  BY <1>1, <1>2, <1>4, <1>5, <1>11 DEF TiposDelKernel, TiposDeTickets, TiposDeBusquedas, TiposDeCanales
<1> QED
  BY <1>10, <1>12 DEF TiposDelResto

\* The other two handlers start a search and end their work.
LEMMA BaseLlamar ==
  ASSUME Base, NEW b \in Buscadores \ {"dispatch"}, NEW o \in {"IO", "DESALOJO_QUANTUM"},
         NEW t \in Hilos, Llamar(b, o, t),
         UNCHANGED <<algoritmo, pcp, varTicket, ticket, timer, turno, semInterr, gestor>>,
         UNCHANGED <<kernel, lista, dueno, proxTid, semCpu, cpu, dispKC, intKC, dispCK>>,
         dormidos' \subseteq dormidos, intCK' \in Seq(Hilos)
  PROVE  TiposDelResto' /\ UnPedido' /\ UnaAtencion' /\ EnExec'
<1> DEFINE r == [op |-> o, tid |-> t, tcb |-> 0]
<1>1. /\ tidABuscar' = t /\ fase' = [fase EXCEPT ![b] = "busca"] /\ cruce' \in BOOLEAN
      /\ busca' = [busca EXCEPT ![b] = r]
  BY DEF Llamar, En, Base, TiposDelResto, TiposDeBusquedas
<1>2. /\ TiposDelKernel /\ TiposDeTickets /\ TiposDeBusquedas /\ TiposDeCanales
      /\ UnPedido /\ UnaAtencion /\ EnExec
      /\ busca \in [Buscadores -> EnCurso]
      /\ fase \in [Buscadores -> {"libre", "busca", "saca", "mano", "cierra", "nulo"}]
      /\ "dispatch" \in Buscadores
  BY DEF Base, TiposDelResto, TiposDeBusquedas, DuenosSegunFase, Tipos, Buscadores
<1>3. r \in EnCurso /\ r.op # "THREAD_CREATE"
  BY CeroEsHilo DEF EnCurso
<1> HIDE DEF r
<1>4. /\ fase'["dispatch"] = fase["dispatch"] /\ busca'["dispatch"] = busca["dispatch"]
      /\ \A c \in Buscadores : busca'[c] = IF c = b THEN r ELSE busca[c]
  BY <1>1, <1>2
<1>5. UnPedido' /\ UnaAtencion' /\ EnExec'
  BY <1>2, <1>3, <1>4, PedidoQuieto DEF UnaAtencion, EnExec
<1>6. TiposDelKernel' /\ TiposDeTickets' /\ TiposDeBusquedas' /\ TiposDeCanales'
  BY <1>1, <1>2, <1>3 DEF TiposDelKernel, TiposDeTickets, TiposDeBusquedas, TiposDeCanales
<1> QED
  BY <1>5, <1>6 DEF TiposDelResto

LEMMA BasePostea ==
  ASSUME Base, NEW b \in Buscadores \ {"dispatch"}, semCpu' \in Nat,
         En(b, "libre"), busca' = [busca EXCEPT ![b] = EnReposo],
         UNCHANGED <<algoritmo, pcp, varTicket, ticket, timer, turno, semInterr, gestor>>,
         UNCHANGED <<kernel, lista, dueno, proxTid, paso, tidABuscar, cruce, dormidos, cpu, dispKC,
                     intKC, dispCK, intCK>>
  PROVE  TiposDelResto' /\ UnPedido' /\ UnaAtencion' /\ EnExec'
<1>1. fase' = [fase EXCEPT ![b] = "libre"]
  BY DEF En
<1>2. /\ TiposDelKernel /\ TiposDeTickets /\ TiposDeBusquedas /\ TiposDeCanales
      /\ UnPedido /\ UnaAtencion /\ EnExec
      /\ busca \in [Buscadores -> EnCurso]
      /\ fase \in [Buscadores -> {"libre", "busca", "saca", "mano", "cierra", "nulo"}]
      /\ "dispatch" \in Buscadores
  BY DEF Base, TiposDelResto, TiposDeBusquedas, DuenosSegunFase, Tipos, Buscadores
<1>3. EnReposo \in EnCurso /\ EnReposo.op # "THREAD_CREATE"
  BY CeroEsHilo DEF EnCurso, EnReposo
<1>4. /\ fase'["dispatch"] = fase["dispatch"] /\ busca'["dispatch"] = busca["dispatch"]
      /\ \A c \in Buscadores : busca'[c] = IF c = b THEN EnReposo ELSE busca[c]
  BY <1>1, <1>2
<1>5. UnPedido' /\ UnaAtencion' /\ EnExec'
  BY <1>2, <1>3, <1>4, PedidoQuieto DEF UnaAtencion, EnExec
<1>6. TiposDelKernel' /\ TiposDeTickets' /\ TiposDeBusquedas' /\ TiposDeCanales'
  BY <1>1, <1>2, <1>3 DEF TiposDelKernel, TiposDeTickets, TiposDeBusquedas, TiposDeCanales
<1> QED
  BY <1>5, <1>6 DEF TiposDelResto

LEMMA BaseManejadores ==
  ASSUME Base, Manejador(Dispatch) \/ Manejador(Interrupt) \/ Manejador(Io)
  PROVE  Base'
<1> SUFFICES TiposDelResto' /\ UnPedido' /\ UnaAtencion' /\ EnExec'
  BY PasosDeLosManejadores DEF Base
<1>1. /\ UNCHANGED <<algoritmo, pcp, varTicket, ticket, timer, turno, semInterr, gestor>>
      /\ Dispatch \/ Interrupt \/ Io
  BY ManejadorQuieto
<1>2. "dispatch" \in Buscadores /\ {"interrupt", "io"} \subseteq Buscadores \ {"dispatch"}
  BY DEF Buscadores
<1>3. semCpu \in Nat /\ intCK \in Seq(Hilos) /\ dormidos \subseteq Hilos
  BY DEF Base, TiposDelResto, TiposDelKernel, TiposDeCanales, TiposDeBusquedas
<1>4. CASE DispatchBloquea
  BY <1>1, <1>2, <1>4, BaseAgregar DEF DispatchBloquea
<1>5. CASE InterruptRecibe
  <2>1. Head(intCK) \in Hilos /\ Tail(intCK) \in Seq(Hilos)
    BY <1>3, <1>5 DEF InterruptRecibe
  <2> QED
    BY <1>1, <1>2, <1>5, <2>1, BaseLlamar DEF InterruptRecibe
<1>6. CASE InterruptPostea
  <2>1. semCpu' \in Nat
    BY <1>3, <1>6 DEF InterruptPostea
  <2> QED
    BY <1>1, <1>2, <1>6, <2>1, BasePostea DEF InterruptPostea, cpuVars
<1>7. CASE \E t \in Hilos : IoDespierta(t)
  BY <1>1, <1>2, <1>3, <1>7, BaseLlamar DEF IoDespierta, cpuVars
<1>8. CASE IoPostea
  <2>1. semCpu' \in Nat
    BY <1>3, <1>8 DEF IoPostea
  <2> QED
    BY <1>1, <1>2, <1>8, <2>1, BasePostea DEF IoPostea, cpuVars
<1>9. CASE Agregar("interrupt", "ready") \/ Agregar("io", "ready")
  BY <1>1, <1>2, <1>9, BaseAgregar
<1>10. CASE \E b \in Buscadores : Buscar(b)
  BY <1>1, <1>10, BaseBuscar
<1> QED
  BY <1>1, <1>2, <1>4, <1>5, <1>6, <1>7, <1>8, <1>9, <1>10, BaseRecibe, BaseCrea, BaseAvisa
  DEF Dispatch, Interrupt, Io

\* The mutexes, the types, the request of the CPU and what pcp knows of EXEC.
LEMMA BaseSiempre == Spec => []Base
<1>1. Init => Base
  <2> SUFFICES ASSUME Init  PROVE Base
    OBVIOUS
  <2>1. DuenosSegunFase
    BY DEF Init, DuenosSegunFase, Tipos, DuenosDePcp, DuenosDelResto, DuenosQueBuscan,
           SoloConQuantum, FasesPcp, Buscadores, Mutexes, Estados
  <2>2. TiposDelKernel
    <3>1. <<0>> \in Seq(Hilos) /\ <<>> \in Seq(Hilos)
      BY CeroEsHilo
    <3>2. lista \in [Estados -> Seq(Hilos)]
      BY <3>1 DEF Init
    <3>3. 1 \in 1..(MaxTid + 1)
      BY CeroEsHilo
    <3> QED
      BY <3>2, <3>3 DEF Init, TiposDelKernel
  <2>3. TiposDeTickets
    BY CeroEsHilo DEF Init, TiposDeTickets, Turnos
  <2>4. TiposDeBusquedas
    BY CeroEsHilo DEF Init, TiposDeBusquedas, EnCurso, EnReposo
  <2>5. TiposDeCanales
    BY CeroEsHilo DEF Init, TiposDeCanales, Cpus, CpuLibre
  <2>6. UnPedido
    BY DEF Init, UnPedido, AloSumoUno, Ninguno, Buscadores
  <2>7. UnaAtencion
    BY DEF Init, UnaAtencion, EnReposo, Buscadores
  <2>8. EnExec
    BY DEF Init, EnExec
  <2> QED
    BY <2>1, <2>2, <2>3, <2>4, <2>5, <2>6, <2>7, <2>8 DEF Base, TiposDelResto
<1>2. Base /\ Next => Base'
  BY BasePcp, BaseTimer, BaseGestor, BaseManejadores, BaseCpu DEF Next
<1>3. Base /\ UNCHANGED vars => Base'
  <2> SUFFICES ASSUME Base, UNCHANGED vars  PROVE Base'
    OBVIOUS
  <2>1. UNCHANGED <<algoritmo, kernel, lista, dueno, proxTid, semCpu, pcp, varTicket, ticket, timer, turno,
                    semInterr, gestor, fase, paso, busca, tidABuscar, cruce, dormidos, cpu,
                    dispKC, intKC, dispCK, intCK>>
    BY DEF vars, pcpVars, ticketVars, interrVars, buscaVars, cpuVars
  <2>2. DuenosSegunFase'
    BY <2>1, NoToca DEF Base
  <2>3. TiposDelResto'
    BY <2>1 DEF Base, TiposDelResto, TiposDelKernel, TiposDeTickets, TiposDeBusquedas, TiposDeCanales
  <2>4. UnPedido' /\ UnaAtencion' /\ EnExec'
    BY <2>1 DEF Base, UnPedido, UnaAtencion, EnExec
  <2> QED
    BY <2>2, <2>3, <2>4 DEF Base
<1> QED
  BY <1>1, <1>2, <1>3, PTL DEF Spec

\* Every variable stays within its type: pcp always has a thread in EXEC to
\* dispatch and a ticket to give it, and crear_hilo a tid.
THEOREM TiposDeLosCerrojos == Spec => []TypeOK
<1>1. Base => TypeOK
  <2>1. Len(Recorrido) = 5
    BY DEF Recorrido
  <2> QED
    BY <2>1 DEF Base, DuenosSegunFase, Tipos, FasesPcp, TiposDelResto, TiposDelKernel,
       TiposDeTickets, TiposDeBusquedas, TiposDeCanales, EnCurso, Cpus, Turnos, TypeOK
<1> QED
  BY <1>1, BaseSiempre, PTL

-----------------------------------------------------------------------------
(* Each TCB is in one place *)

\* b has in its hands the TCB t, which it took from a list.
EnMano(b, t) == fase[b] = "mano" /\ busca[b].tcb = t /\ busca[b].op # "THREAD_CREATE"

Simples == \A e \in Estados : SinRepetir(lista[e])
UnaLista ==
  \A e, f \in Estados, t \in Hilos : EnLista(lista[e], t) /\ EnLista(lista[f], t) => e = f
ListaOMano ==
  \A e \in Estados, t \in Hilos, b \in Buscadores : ~(EnLista(lista[e], t) /\ EnMano(b, t))
UnaMano == \A b, c \in Buscadores, t \in Hilos : EnMano(b, t) /\ EnMano(c, t) => b = c
Creados ==
  /\ \A e \in Estados, t \in Hilos : EnLista(lista[e], t) => t < proxTid
  /\ \A b \in Buscadores, t \in Hilos : EnMano(b, t) => t < proxTid
Hallados ==
  \A t \in Hilos : t < proxTid =>
    (\E e \in Estados : EnLista(lista[e], t)) \/ \E b \in Buscadores : EnMano(b, t)

Lugar == Simples /\ UnaLista /\ ListaOMano /\ UnaMano /\ Creados /\ Hallados

\* No TCB changes place.
LEMMA LugarQuieto ==
  ASSUME Lugar, UNCHANGED <<lista, proxTid>>,
         \A b \in Buscadores, t \in Hilos : EnMano(b, t)' <=> EnMano(b, t)
  PROVE  Lugar'
BY DEF Lugar, Simples, UnaLista, ListaOMano, UnaMano, Creados, Hallados

\* A handler moves on with nothing in its hands.
LEMMA ManosQuietas ==
  ASSUME Base, NEW b \in Buscadores, NEW f, fase' = [fase EXCEPT ![b] = f],
         fase[b] # "mano" \/ busca[b].op = "THREAD_CREATE", f # "mano",
         \A c \in Buscadores \ {b} : busca'[c] = busca[c]
  PROVE  \A c \in Buscadores, t \in Hilos : EnMano(c, t)' <=> EnMano(c, t)
<1>1. \A c \in Buscadores : fase'[c] = IF c = b THEN f ELSE fase[c]
  BY DEF Base, DuenosSegunFase, Tipos
<1> QED
  BY <1>1 DEF EnMano

\* From one list to another.
LEMMA LugarDeListaALista ==
  ASSUME Base, Lugar, NEW k \in 1..Len(lista["ready"]), UNCHANGED <<proxTid, fase, busca>>,
         lista' = [lista EXCEPT !["ready"] = SinIndice(lista["ready"], k),
                                !["exec"] = Append(lista["exec"], lista["ready"][k])]
  PROVE  /\ Lugar' /\ lista["ready"][k] \in Hilos
         /\ \A u : EnLista(lista'["exec"], u) <=> EnLista(lista["exec"], u) \/ u = lista["ready"][k]
         /\ \A e \in Estados \ {"ready", "exec"} : lista'[e] = lista[e]
<1>0. PICK t : t = lista["ready"][k]
  OBVIOUS
<1>1. /\ lista["ready"] \in Seq(Hilos) /\ lista["exec"] \in Seq(Hilos)
      /\ lista \in [Estados -> Seq(Hilos)]
      /\ SinRepetir(lista["ready"]) /\ SinRepetir(lista["exec"])
  BY SonEstados DEF Base, TiposDelResto, TiposDelKernel, Lugar, Simples
<1>2. t \in Hilos /\ EnLista(lista["ready"], t)
  BY <1>0, <1>1 DEF EnLista
<1>3. /\ lista'["ready"] = SinIndice(lista["ready"], k)
      /\ lista'["exec"] = Append(lista["exec"], t)
      /\ \A e \in Estados \ {"ready", "exec"} : lista'[e] = lista[e]
  BY <1>0, <1>1, SonEstados
<1>4. /\ \A h : EnLista(lista'["ready"], h) <=> EnLista(lista["ready"], h) /\ h # t
      /\ SinRepetir(lista'["ready"])
  BY <1>0, <1>1, <1>3, EnListaSinIndice
<1>5. ~EnLista(lista["exec"], t) /\ lista["exec"] \in Seq(Hilos)
  BY <1>1, <1>2, SonEstados DEF Lugar, UnaLista
<1>6. /\ \A h : EnLista(lista'["exec"], h) <=> EnLista(lista["exec"], h) \/ h = t
      /\ SinRepetir(lista'["exec"])
  <2>1. PICK l : l = lista["exec"]
    OBVIOUS
  <2>2. /\ \A h : EnLista(Append(l, t), h) <=> EnLista(l, h) \/ h = t
        /\ SinRepetir(Append(l, t))
    BY <1>1, <1>2, <1>5, <2>1, EnListaAgregar
  <2> QED
    BY <1>3, <2>1, <2>2
<1>7. \A e \in Estados, h \in Hilos :
        EnLista(lista'[e], h) <=> IF h = t THEN e = "exec" ELSE EnLista(lista[e], h)
  <2>1. \A e \in Estados : EnLista(lista[e], t) => e = "ready"
    BY <1>2, SonEstados DEF Lugar, Simples, UnaLista, ListaOMano, UnaMano, Creados, Hallados
  <2> QED
    BY <1>3, <1>4, <1>6, <2>1
<1>8. \A b \in Buscadores, h \in Hilos : EnMano(b, h)' <=> EnMano(b, h)
  BY DEF EnMano
<1>9. \A e \in Estados : SinRepetir(lista'[e])
  BY <1>3, <1>4, <1>6 DEF Lugar, Simples, UnaLista, ListaOMano, UnaMano, Creados, Hallados
<1>10. (\A b \in Buscadores : ~EnMano(b, t)) /\ t < proxTid
  BY <1>2, SonEstados DEF Lugar, Simples, UnaLista, ListaOMano, UnaMano, Creados, Hallados
<1>11. Lugar'
  <2>1. Simples'
    BY <1>2, <1>7, <1>8, <1>9, <1>10, SonEstados DEF Lugar, Simples
  <2>2. UnaLista'
    <3> SUFFICES ASSUME NEW e \in Estados, NEW f \in Estados, NEW h \in Hilos,
                        EnLista(lista'[e], h), EnLista(lista'[f], h)
                 PROVE  e = f
      BY DEF UnaLista
    <3>1. CASE h = t
      BY <1>7, <3>1
    <3>2. CASE h # t
      <4>1. EnLista(lista[e], h) /\ EnLista(lista[f], h)
        BY <1>7, <3>2
      <4> QED
        BY <4>1 DEF Lugar, UnaLista
    <3> QED
      BY <3>1, <3>2
  <2>3. ListaOMano'
    <3> SUFFICES ASSUME NEW e \in Estados, NEW h \in Hilos, NEW b \in Buscadores,
                        EnLista(lista'[e], h), EnMano(b, h)'
                 PROVE  FALSE
      BY DEF ListaOMano
    <3>1. EnMano(b, h)
      BY <1>8
    <3>2. EnLista(lista[e], h)
      BY <1>7, <1>10, <3>1
    <3> QED
      BY <3>1, <3>2 DEF Lugar, ListaOMano
  <2>4. UnaMano'
    BY <1>2, <1>7, <1>8, <1>9, <1>10, SonEstados DEF Lugar, UnaMano
  <2>5. Creados'
    BY <1>2, <1>7, <1>8, <1>9, <1>10, SonEstados DEF Lugar, Creados
  <2>6. Hallados'
    BY <1>2, <1>7, <1>8, <1>9, <1>10, SonEstados DEF Lugar, Hallados
  <2> QED
    BY <2>1, <2>2, <2>3, <2>4, <2>5, <2>6 DEF Lugar
<1> QED
  BY <1>0, <1>2, <1>3, <1>6, <1>11

\* From a list to the hands of b.
LEMMA LugarASacar ==
  ASSUME Base, Lugar, NEW b \in Buscadores, NEW m \in Estados, EnLista(lista[m], tidABuscar),
         fase[b] = "saca", UNCHANGED proxTid,
         lista' = [lista EXCEPT ![m] = Quitar(lista[m], tidABuscar)],
         fase' = [fase EXCEPT ![b] = "mano"],
         busca' = [busca EXCEPT ![b] = [busca[b] EXCEPT !.tcb = tidABuscar]]
  PROVE  /\ Lugar'
         /\ \A u : EnLista(lista'[m], u) <=> EnLista(lista[m], u) /\ u # tidABuscar
         /\ \A e \in Estados \ {m} : lista'[e] = lista[e]
<1>0. PICK t : t = tidABuscar
  OBVIOUS
<1>1. /\ lista[m] \in Seq(Hilos) /\ lista \in [Estados -> Seq(Hilos)] /\ SinRepetir(lista[m])
      /\ t \in Hilos /\ busca \in [Buscadores -> EnCurso] /\ busca[b].op # "THREAD_CREATE"
      /\ fase \in [Buscadores -> {"libre", "busca", "saca", "mano", "cierra", "nulo"}]
  BY <1>0 DEF Base, TiposDelResto, TiposDelKernel, TiposDeBusquedas, Lugar, Simples, UnaAtencion,
     DuenosSegunFase, Tipos
<1>2. lista'[m] = Quitar(lista[m], t) /\ \A e \in Estados \ {m} : lista'[e] = lista[e]
  BY <1>0, <1>1
<1>3. /\ \A h : EnLista(lista'[m], h) <=> EnLista(lista[m], h) /\ h # t
      /\ SinRepetir(lista'[m])
  BY <1>1, <1>2, EnListaQuitar
<1>4. \A e \in Estados : EnLista(lista[e], t) => e = m
  BY <1>0, <1>1 DEF Lugar, Simples, UnaLista, ListaOMano, UnaMano, Creados, Hallados
<1>5. \A e \in Estados, h \in Hilos : EnLista(lista'[e], h) <=> EnLista(lista[e], h) /\ h # t
  BY <1>2, <1>3, <1>4
<1>6. busca'[b].tcb = t /\ busca'[b].op # "THREAD_CREATE" /\ fase'[b] = "mano"
  BY <1>0, <1>1 DEF EnCurso
<1>7. \A c \in Buscadores \ {b} : busca'[c] = busca[c] /\ fase'[c] = fase[c]
  BY <1>1
<1>8. \A c \in Buscadores, h \in Hilos : EnMano(c, h)' <=> IF c = b THEN h = t ELSE EnMano(c, h)
  BY <1>6, <1>7 DEF EnMano
<1>9. \A h \in Hilos : ~EnMano(b, h)
  BY DEF EnMano
<1>10. (\A c \in Buscadores : ~EnMano(c, t)) /\ t < proxTid
  BY <1>0, <1>1 DEF Lugar, Simples, UnaLista, ListaOMano, UnaMano, Creados, Hallados
<1>11. \A e \in Estados : SinRepetir(lista'[e])
  BY <1>2, <1>3 DEF Lugar, Simples, UnaLista, ListaOMano, UnaMano, Creados, Hallados
<1>12. Lugar'
  <2>1. Simples'
    BY <1>1, <1>5, <1>8, <1>9, <1>10, <1>11 DEF Lugar, Simples
  <2>2. UnaLista'
    BY <1>1, <1>5, <1>8, <1>9, <1>10, <1>11 DEF Lugar, UnaLista
  <2>3. ListaOMano'
    BY <1>1, <1>5, <1>8, <1>9, <1>10, <1>11 DEF Lugar, ListaOMano
  <2>4. UnaMano'
    BY <1>1, <1>5, <1>8, <1>9, <1>10, <1>11 DEF Lugar, UnaMano
  <2>5. Creados'
    BY <1>1, <1>5, <1>8, <1>9, <1>10, <1>11 DEF Lugar, Creados
  <2>6. Hallados'
    BY <1>1, <1>5, <1>8, <1>9, <1>10, <1>11 DEF Lugar, Hallados
  <2> QED
    BY <2>1, <2>2, <2>3, <2>4, <2>5, <2>6 DEF Lugar
<1> QED
  BY <1>0, <1>2, <1>3, <1>12

\* From the hands of b to a list.
LEMMA LugarAlAgregar ==
  ASSUME Base, Lugar, NEW b \in Buscadores, NEW e \in {"ready", "blocked"}, Agregar(b, e),
         busca[b].op # "THREAD_CREATE"
  PROVE  /\ Lugar' /\ busca[b].tcb \in Hilos /\ EnMano(b, busca[b].tcb)
         /\ \A u : EnLista(lista'[e], u) <=> EnLista(lista[e], u) \/ u = busca[b].tcb
         /\ \A f \in Estados \ {e} : lista'[f] = lista[f]
<1>0. PICK t : t = busca[b].tcb
  OBVIOUS
<1>1. /\ lista[e] \in Seq(Hilos) /\ lista \in [Estados -> Seq(Hilos)] /\ SinRepetir(lista[e])
      /\ t \in Hilos /\ e \in Estados
      /\ fase \in [Buscadores -> {"libre", "busca", "saca", "mano", "cierra", "nulo"}]
  BY <1>0, SonEstados DEF Base, TiposDelResto, TiposDelKernel, TiposDeBusquedas, Lugar, Simples, EnCurso,
     DuenosSegunFase, Tipos
<1>2. /\ lista' = [lista EXCEPT ![e] = Append(lista[e], t)]
      /\ fase[b] = "mano" /\ fase' = [fase EXCEPT ![b] = "cierra"]
      /\ UNCHANGED <<proxTid, busca>>
  BY <1>0 DEF Agregar, En
<1>3. lista'[e] = Append(lista[e], t) /\ \A f \in Estados \ {e} : lista'[f] = lista[f]
  BY <1>1, <1>2
<1>4. EnMano(b, t) /\ \A h \in Hilos : EnMano(b, h) => h = t
  BY <1>0, <1>2 DEF EnMano
<1>5. \A f \in Estados : ~EnLista(lista[f], t)
  BY <1>1, <1>4 DEF Lugar, Simples, UnaLista, ListaOMano, UnaMano, Creados, Hallados
<1>6. /\ \A h : EnLista(lista'[e], h) <=> EnLista(lista[e], h) \/ h = t
      /\ SinRepetir(lista'[e])
  BY <1>1, <1>3, <1>5, EnListaAgregar
<1>7. \A f \in Estados, h \in Hilos :
        EnLista(lista'[f], h) <=> EnLista(lista[f], h) \/ (f = e /\ h = t)
  BY <1>3, <1>6
<1>8. \A c \in Buscadores : fase'[c] = IF c = b THEN "cierra" ELSE fase[c]
  BY <1>1, <1>2
<1>9. \A c \in Buscadores, h \in Hilos : EnMano(c, h)' <=> EnMano(c, h) /\ c # b
  BY <1>2, <1>8 DEF EnMano
<1>10. \A c \in Buscadores : EnMano(c, t) => c = b
  BY <1>1, <1>4 DEF Lugar, Simples, UnaLista, ListaOMano, UnaMano, Creados, Hallados
<1>11. t < proxTid
  BY <1>1, <1>4 DEF Lugar, Simples, UnaLista, ListaOMano, UnaMano, Creados, Hallados
<1>12. \A f \in Estados : SinRepetir(lista'[f])
  BY <1>3, <1>6 DEF Lugar, Simples, UnaLista, ListaOMano, UnaMano, Creados, Hallados
<1>13. Lugar'
  <2>1. Simples'
    BY <1>1, <1>2, <1>4, <1>5, <1>7, <1>9, <1>10, <1>11, <1>12 DEF Lugar, Simples
  <2>2. UnaLista'
    BY <1>1, <1>2, <1>4, <1>5, <1>7, <1>9, <1>10, <1>11, <1>12 DEF Lugar, UnaLista
  <2>3. ListaOMano'
    BY <1>1, <1>2, <1>4, <1>5, <1>7, <1>9, <1>10, <1>11, <1>12 DEF Lugar, ListaOMano
  <2>4. UnaMano'
    BY <1>1, <1>2, <1>4, <1>5, <1>7, <1>9, <1>10, <1>11, <1>12 DEF Lugar, UnaMano
  <2>5. Creados'
    BY <1>1, <1>2, <1>4, <1>5, <1>7, <1>9, <1>10, <1>11, <1>12 DEF Lugar, Creados
  <2>6. Hallados'
    BY <1>1, <1>2, <1>4, <1>5, <1>7, <1>9, <1>10, <1>11, <1>12 DEF Lugar, Hallados
  <2> QED
    BY <2>1, <2>2, <2>3, <2>4, <2>5, <2>6 DEF Lugar
<1> QED
  BY <1>0, <1>1, <1>3, <1>4, <1>6, <1>13

\* crear_hilo puts the new TCB in READY.
LEMMA LugarAlCrear ==
  ASSUME Base, Lugar, DispatchCrea
  PROVE  /\ Lugar'
         /\ \A e \in Estados \ {"ready"} : lista'[e] = lista[e]
<1>0. PICK t : t = proxTid
  OBVIOUS
<1>1. /\ fase["dispatch"] = "mano" /\ fase' = [fase EXCEPT !["dispatch"] = "cierra"]
      /\ busca["dispatch"].op = "THREAD_CREATE" /\ proxTid' = t + 1
      /\ lista' = [lista EXCEPT !["ready"] = Append(lista["ready"], t)]
      /\ UNCHANGED busca
  BY <1>0 DEF DispatchCrea, En
<1>2. /\ lista["ready"] \in Seq(Hilos) /\ lista \in [Estados -> Seq(Hilos)]
      /\ SinRepetir(lista["ready"]) /\ t \in 1..(MaxTid + 1) /\ t <= MaxTid
      /\ fase \in [Buscadores -> {"libre", "busca", "saca", "mano", "cierra", "nulo"}]
      /\ "dispatch" \in Buscadores
  BY <1>0, <1>1, SonEstados DEF Base, TiposDelResto, TiposDelKernel, UnaAtencion, Lugar, Simples,
     DuenosSegunFase, Tipos, Buscadores
<1>3. t \in Hilos
  BY <1>2, CeroEsHilo DEF Hilos
<1>4. /\ lista'["ready"] = Append(lista["ready"], t)
      /\ \A e \in Estados \ {"ready"} : lista'[e] = lista[e]
  BY <1>1, <1>2, SonEstados
<1>5. \A h \in Hilos : h \in Nat
  BY CeroEsHilo DEF Hilos
<1>6. ~(t < proxTid)
  BY <1>0, <1>3, <1>5
<1>7. (\A f \in Estados : ~EnLista(lista[f], t)) /\ \A c \in Buscadores : ~EnMano(c, t)
  BY <1>3, <1>6 DEF Lugar, Simples, UnaLista, ListaOMano, UnaMano, Creados, Hallados
<1>8. /\ \A h : EnLista(lista'["ready"], h) <=> EnLista(lista["ready"], h) \/ h = t
      /\ SinRepetir(lista'["ready"])
  BY <1>2, <1>3, <1>4, <1>7, EnListaAgregar, SonEstados
<1>9. \A f \in Estados, h \in Hilos :
        EnLista(lista'[f], h) <=> EnLista(lista[f], h) \/ (f = "ready" /\ h = t)
  BY <1>4, <1>8
<1>10. \A c \in Buscadores, h \in Hilos : EnMano(c, h)' <=> EnMano(c, h)
  BY <1>1, <1>2, ManosQuietas
<1>11. \A h \in Hilos : h < proxTid' <=> h < proxTid \/ h = t
  BY <1>0, <1>1, <1>3, <1>5
<1>12. \A f \in Estados : SinRepetir(lista'[f])
  BY <1>4, <1>8 DEF Lugar, Simples, UnaLista, ListaOMano, UnaMano, Creados, Hallados
<1>13. Lugar'
  <2>1. Simples'
    BY <1>3, <1>7, <1>9, <1>10, <1>11, <1>12, SonEstados DEF Lugar, Simples
  <2>2. UnaLista'
    BY <1>3, <1>7, <1>9, <1>10, <1>11, <1>12, SonEstados DEF Lugar, UnaLista
  <2>3. ListaOMano'
    BY <1>3, <1>7, <1>9, <1>10, <1>11, <1>12, SonEstados DEF Lugar, ListaOMano
  <2>4. UnaMano'
    BY <1>3, <1>7, <1>9, <1>10, <1>11, <1>12, SonEstados DEF Lugar, UnaMano
  <2>5. Creados'
    BY <1>3, <1>7, <1>9, <1>10, <1>11, <1>12, SonEstados DEF Lugar, Creados
  <2>6. Hallados'
    BY <1>3, <1>7, <1>9, <1>10, <1>11, <1>12, SonEstados DEF Lugar, Hallados
  <2> QED
    BY <2>1, <2>2, <2>3, <2>4, <2>5, <2>6 DEF Lugar
<1> QED
  BY <1>4, <1>13

LEMMA LugarPcp ==
  ASSUME Base, Lugar, Pcp
  PROVE  Lugar'
<1>1. UNCHANGED <<proxTid, fase, busca>>
  BY DEF Pcp, buscaVars
<1>2. CASE UNCHANGED lista
  BY <1>1, <1>2, LugarQuieto DEF EnMano
<1>3. CASE \E k \in 1..Len(lista["ready"]) :
             lista' = [lista EXCEPT !["ready"] = SinIndice(@, k),
                                    !["exec"] = Append(@, lista["ready"][k])]
  <2>1. PICK k \in 1..Len(lista["ready"]) :
          lista' = [lista EXCEPT !["ready"] = SinIndice(lista["ready"], k),
                                 !["exec"] = Append(lista["exec"], lista["ready"][k])]
    BY <1>3
  <2> QED
    BY <1>1, <2>1, LugarDeListaALista
<1>4. UNCHANGED lista \/ \E k \in 1..Len(lista["ready"]) :
             lista' = [lista EXCEPT !["ready"] = SinIndice(@, k),
                                    !["exec"] = Append(@, lista["ready"][k])]
  BY DEF Pcp, PcpDespierta, PcpMira, PcpTomaExec, PcpSaca, PcpDespacha, PcpTomaReady,
         PcpDespachaPorPrioridad
<1> QED
  BY <1>2, <1>3, <1>4

LEMMA LugarBuscar ==
  ASSUME Base, Lugar, NEW b \in Buscadores, Buscar(b)
  PROVE  Lugar'
<1>1. UNCHANGED <<proxTid, tidABuscar>>
  BY DEF Buscar, Mirar, Sacar
<1>2. Recorrido[paso[b]] \in Estados
  BY SonEstados DEF Base, DuenosSegunFase, Tipos
<1>3. CASE UNCHANGED <<lista, busca>> /\ fase[b] \in {"busca", "saca"}
             /\ \E f \in {"busca", "saca", "nulo"} : fase' = [fase EXCEPT ![b] = f]
  <2>1. PICK f \in {"busca", "saca", "nulo"} : fase' = [fase EXCEPT ![b] = f]
    BY <1>3
  <2>2. fase[b] # "mano" /\ f # "mano"
    BY <1>3, <2>1
  <2>3. \A c \in Buscadores \ {b} : busca'[c] = busca[c]
    BY <1>3
  <2>4. \A c \in Buscadores, t \in Hilos : EnMano(c, t)' <=> EnMano(c, t)
    BY <2>1, <2>2, <2>3, ManosQuietas
  <2> QED
    BY <1>1, <1>3, <2>4, LugarQuieto
<1>4. CASE Sacar(b) /\ EnLista(lista[Recorrido[paso[b]]], tidABuscar)
  <2>1. PICK m \in Estados : m = Recorrido[paso[b]]
    BY <1>2
  <2>2. /\ fase[b] = "saca" /\ EnLista(lista[m], tidABuscar)
        /\ lista' = [lista EXCEPT ![m] = Quitar(lista[m], tidABuscar)]
        /\ fase' = [fase EXCEPT ![b] = "mano"]
        /\ busca' = [busca EXCEPT ![b] = [busca[b] EXCEPT !.tcb = tidABuscar]]
    BY <1>4, <2>1 DEF Sacar, En
  <2> QED
    BY <1>1, <2>2, LugarASacar
<1>5. CASE Sacar(b) /\ ~EnLista(lista[Recorrido[paso[b]]], tidABuscar)
  BY <1>3, <1>5 DEF Sacar, En
<1>6. CASE Mirar(b)
  <2>1. /\ UNCHANGED <<lista, busca>> /\ fase[b] = "busca"
        /\ fase' = fase \/ \E f \in {"saca", "nulo"} : fase' = [fase EXCEPT ![b] = f]
    BY <1>6 DEF Mirar, En
  <2>2. fase = [fase EXCEPT ![b] = "busca"]
    BY <2>1 DEF Base, DuenosSegunFase, Tipos
  <2> QED
    BY <1>3, <2>1, <2>2
<1> QED
  BY <1>4, <1>5, <1>6 DEF Buscar

\* The handlers that neither take a TCB nor leave one.
LEMMA LugarSinTocar ==
  ASSUME Base, Lugar, NEW b \in Buscadores, UNCHANGED <<lista, proxTid>>, NEW f,
         fase' = [fase EXCEPT ![b] = f], fase[b] # "mano",
         f # "mano" \/ busca'[b].op = "THREAD_CREATE",
         NEW r, busca' = [busca EXCEPT ![b] = r]
  PROVE  Lugar'
<1>1. \A c \in Buscadores : fase'[c] = IF c = b THEN f ELSE fase[c]
  BY DEF Base, DuenosSegunFase, Tipos
<1>2. \A c \in Buscadores \ {b} : busca'[c] = busca[c]
  BY DEF Base, TiposDelResto, TiposDeBusquedas
<1>3. \A c \in Buscadores, t \in Hilos : EnMano(c, t)' <=> EnMano(c, t)
  BY <1>1, <1>2 DEF EnMano
<1> QED
  BY <1>3, LugarQuieto

LEMMA LugarManejadores ==
  ASSUME Base, Lugar, Manejador(Dispatch) \/ Manejador(Interrupt) \/ Manejador(Io)
  PROVE  Lugar'
<1>1. Dispatch \/ Interrupt \/ Io
  BY ManejadorQuieto
<1>2. Buscadores = {"dispatch", "interrupt", "io"}
  BY DEF Buscadores
<1>3. CASE DispatchDesalojoSyscall
  <2>1. UNCHANGED <<lista, proxTid, fase, busca>>
    BY <1>3 DEF DispatchDesalojoSyscall, Recibe, buscaVars
  <2> QED
    BY <2>1, LugarQuieto DEF EnMano
<1>4. CASE DispatchIo
  <2>1. /\ UNCHANGED <<lista, proxTid>> /\ fase["dispatch"] = "libre"
        /\ fase' = [fase EXCEPT !["dispatch"] = "busca"]
        /\ busca' = [busca EXCEPT !["dispatch"] = [op |-> "IO", tid |-> Head(dispCK).tid, tcb |-> 0]]
    BY <1>4 DEF DispatchIo, Recibe, Llamar, En
  <2>2. "libre" # "mano" /\ "busca" # "mano"
    OBVIOUS
  <2> QED
    BY <1>2, <2>1, <2>2, LugarSinTocar
<1>5. CASE DispatchThreadCreate
  <2> DEFINE r == [EnReposo EXCEPT !.op = "THREAD_CREATE", !.tcb = proxTid]
  <2>1. /\ UNCHANGED <<lista, proxTid>> /\ fase["dispatch"] = "libre"
        /\ fase' = [fase EXCEPT !["dispatch"] = "mano"]
        /\ busca' = [busca EXCEPT !["dispatch"] = r]
    BY <1>5 DEF DispatchThreadCreate, Recibe, En
  <2>2. r.op = "THREAD_CREATE"
    BY DEF EnReposo
  <2> HIDE DEF r
  <2>3. busca'["dispatch"].op = "THREAD_CREATE"
    BY <1>2, <2>1, <2>2 DEF Base, TiposDelResto, TiposDeBusquedas
  <2>4. fase["dispatch"] # "mano"
    BY <2>1
  <2> QED
    BY <1>2, <2>1, <2>3, <2>4, LugarSinTocar
<1>6. CASE DispatchAvisa
  <2>1. /\ UNCHANGED <<lista, proxTid>> /\ fase["dispatch"] = "cierra"
        /\ fase' = [fase EXCEPT !["dispatch"] = "libre"]
        /\ busca' = [busca EXCEPT !["dispatch"] = EnReposo]
    BY <1>6 DEF DispatchAvisa, En
  <2>2. "cierra" # "mano" /\ "libre" # "mano"
    OBVIOUS
  <2> QED
    BY <1>2, <2>1, <2>2, LugarSinTocar
<1>7. CASE InterruptRecibe
  <2>1. /\ UNCHANGED <<lista, proxTid>> /\ fase["interrupt"] = "libre"
        /\ fase' = [fase EXCEPT !["interrupt"] = "busca"]
        /\ busca' = [busca EXCEPT !["interrupt"] =
                      [op |-> "DESALOJO_QUANTUM", tid |-> Head(intCK), tcb |-> 0]]
    BY <1>7 DEF InterruptRecibe, Llamar, En
  <2>2. "libre" # "mano" /\ "busca" # "mano"
    OBVIOUS
  <2> QED
    BY <1>2, <2>1, <2>2, LugarSinTocar
<1>8. CASE \E t \in Hilos : IoDespierta(t)
  <2>1. PICK t \in Hilos : IoDespierta(t)
    BY <1>8
  <2>2. /\ UNCHANGED <<lista, proxTid>> /\ fase["io"] = "libre"
        /\ fase' = [fase EXCEPT !["io"] = "busca"]
        /\ busca' = [busca EXCEPT !["io"] = [op |-> "IO", tid |-> t, tcb |-> 0]]
    BY <2>1 DEF IoDespierta, Llamar, En
  <2>3. "libre" # "mano" /\ "busca" # "mano"
    OBVIOUS
  <2> QED
    BY <1>2, <2>2, <2>3, LugarSinTocar
<1>9. CASE InterruptPostea \/ IoPostea
  <2>1. PICK b \in Buscadores :
          /\ UNCHANGED <<lista, proxTid>> /\ fase[b] = "cierra"
          /\ fase' = [fase EXCEPT ![b] = "libre"]
          /\ busca' = [busca EXCEPT ![b] = EnReposo]
    BY <1>2, <1>9 DEF InterruptPostea, IoPostea, En
  <2>2. "cierra" # "mano" /\ "libre" # "mano"
    OBVIOUS
  <2> QED
    BY <2>1, <2>2, LugarSinTocar
<1>10. CASE DispatchBloquea
  <2>1. busca["dispatch"].op # "THREAD_CREATE" /\ Agregar("dispatch", "blocked")
    BY <1>10 DEF DispatchBloquea
  <2> QED
    BY <1>2, <2>1, LugarAlAgregar
<1>11. CASE Agregar("interrupt", "ready") \/ Agregar("io", "ready")
  <2>1. PICK b \in {"interrupt", "io"} : Agregar(b, "ready")
    BY <1>11
  <2>2. b \in Buscadores /\ b # "dispatch"
    BY <1>2
  <2>3. busca[b].op # "THREAD_CREATE"
    BY <2>2 DEF Base, UnaAtencion
  <2> QED
    BY <2>1, <2>2, <2>3, LugarAlAgregar
<1>12. CASE \E b \in Buscadores : Buscar(b)
  BY <1>12, LugarBuscar
<1>13. CASE DispatchCrea
  BY <1>13, LugarAlCrear
<1> QED
  BY <1>1, <1>2, <1>3, <1>4, <1>5, <1>6, <1>7, <1>8, <1>9, <1>10, <1>11, <1>12, <1>13
  DEF Dispatch, Interrupt, Io

LEMMA LugarSiempre == Spec => []Lugar
<1>1. Init => Lugar
  <2> SUFFICES ASSUME Init  PROVE Lugar
    OBVIOUS
  <2>1. /\ lista = [e \in Estados |-> IF e = "ready" THEN <<0>> ELSE <<>>]
        /\ proxTid = 1 /\ \A b \in Buscadores : fase[b] = "libre"
    BY DEF Init
  <2>2. \A e \in Estados : lista[e] = IF e = "ready" THEN <<0>> ELSE <<>>
    BY <2>1
  <2>3. Len(<<0>>) = 1 /\ <<0>>[1] = 0 /\ Len(<<>>) = 0 /\ 1..0 = {} /\ 1..1 = {1}
    OBVIOUS
  <2>4. (\A t : EnLista(<<0>>, t) <=> t = 0) /\ (\A t : ~EnLista(<<>>, t))
    BY <2>3 DEF EnLista
  <2>5. SinRepetir(<<0>>) /\ SinRepetir(<<>>)
    BY <2>3 DEF SinRepetir
  <2>6. \A b \in Buscadores, t \in Hilos : ~EnMano(b, t)
    BY <2>1 DEF EnMano
  <2>7. \A t \in Hilos : t < proxTid <=> t = 0
    BY <2>1, CeroEsHilo DEF Hilos
  <2>8. \A e \in Estados, t \in Hilos : EnLista(lista[e], t) <=> e = "ready" /\ t = 0
    BY <2>2, <2>4
  <2>9. Simples
    BY <2>2, <2>5 DEF Simples
  <2>10. UnaLista /\ Creados /\ Hallados
    BY <2>6, <2>7, <2>8, SonEstados DEF UnaLista, Creados, Hallados
  <2>11. ListaOMano /\ UnaMano
    BY <2>6 DEF ListaOMano, UnaMano
  <2> QED
    BY <2>9, <2>10, <2>11 DEF Lugar
<1>2. Base /\ Lugar /\ Next => Lugar'
  <2> SUFFICES ASSUME Base, Lugar, Next  PROVE Lugar'
    OBVIOUS
  <2>1. CASE Gestor \/ Cpu \/ \E k \in 1..MaxTickets : Timer(k)
    <3>1. UNCHANGED <<lista, proxTid, fase, busca>>
      BY <2>1 DEF Gestor, Cpu, Timer, buscaVars
    <3> QED
      BY <3>1, LugarQuieto DEF EnMano
  <2> QED
    BY <2>1, LugarPcp, LugarManejadores DEF Next
<1>3. Lugar /\ UNCHANGED vars => Lugar'
  <2> SUFFICES ASSUME Lugar, UNCHANGED vars  PROVE Lugar'
    OBVIOUS
  <2>1. UNCHANGED <<lista, proxTid, fase, busca>>
    BY DEF vars, buscaVars
  <2> QED
    BY <2>1, LugarQuieto DEF EnMano
<1> QED
  BY <1>1, <1>2, <1>3, BaseSiempre, PTL DEF Spec

\* Each TCB is in one of the five lists, once, or in the hands of the one
\* handler that is moving it, whatever the interleaving of the searches.
THEOREM UnLugarPorHilo == Spec => []CadaHiloEnUnLugar
<1>1. Base /\ Lugar => CadaHiloEnUnLugar
  <2> SUFFICES ASSUME Base, Lugar, NEW t \in 0..(proxTid - 1)
               PROVE  \/ Manos(t) = {} /\ \E p \in Lugares(t) : Lugares(t) = {p}
                      \/ Lugares(t) = {} /\ \E b \in Buscadores : Manos(t) = {b}
    BY DEF CadaHiloEnUnLugar
  <2>1. t \in Hilos /\ t < proxTid /\ t # proxTid
    <3>1. proxTid \in 1..(MaxTid + 1)
      BY DEF Base, TiposDelResto, TiposDelKernel
    <3> QED
      BY <3>1, CeroEsHilo DEF Hilos
  <2>2. Manos(t) = {b \in Buscadores : EnMano(b, t)}
    <3>1. \A b \in Buscadores : fase[b] = "mano" /\ busca[b].op = "THREAD_CREATE" => busca[b].tcb # t
      BY <2>1 DEF Base, UnaAtencion
    <3> QED
      BY <3>1 DEF Manos, EnMano
  <2>3. \A e, i : <<e, i>> \in Lugares(t) <=> e \in Estados /\ i \in 1..Len(lista[e]) /\ lista[e][i] = t
    BY DEF Lugares
  <2>4. \A p \in Lugares(t) : \E e, i : p = <<e, i>>
    BY DEF Lugares
  <2>5. CASE \E e \in Estados : EnLista(lista[e], t)
    <3>1. PICK e \in Estados : EnLista(lista[e], t)
      BY <2>5
    <3>2. PICK i \in 1..Len(lista[e]) : lista[e][i] = t
      BY <3>1 DEF EnLista
    <3>3. Manos(t) = {}
      BY <2>1, <2>2, <3>1 DEF Lugar, ListaOMano
    <3>4. \A f, j : <<f, j>> \in Lugares(t) => f = e /\ j = i
      <4> SUFFICES ASSUME NEW f, NEW j, <<f, j>> \in Lugares(t)  PROVE f = e /\ j = i
        OBVIOUS
      <4>1. f \in Estados /\ j \in 1..Len(lista[f]) /\ lista[f][j] = t
        BY <2>3
      <4>2. EnLista(lista[f], t)
        BY <4>1 DEF EnLista
      <4>3. f = e
        BY <2>1, <3>1, <4>1, <4>2 DEF Lugar, UnaLista
      <4>4. SinRepetir(lista[e])
        BY DEF Lugar, Simples
      <4> QED
        BY <3>2, <4>1, <4>3, <4>4 DEF SinRepetir
    <3>5. <<e, i>> \in Lugares(t)
      BY <2>3, <3>1, <3>2
    <3>6. Lugares(t) = {<<e, i>>}
      BY <2>4, <3>4, <3>5
    <3> QED
      BY <3>3, <3>5, <3>6
  <2>6. CASE ~\E e \in Estados : EnLista(lista[e], t)
    <3>1. Lugares(t) = {}
      <4>1. \A e, i : <<e, i>> \notin Lugares(t)
        BY <2>3, <2>6 DEF EnLista
      <4> QED
        BY <2>4, <4>1
    <3>2. PICK b \in Buscadores : EnMano(b, t)
      BY <2>1, <2>6 DEF Lugar, Hallados
    <3>3. Manos(t) = {b}
      BY <2>1, <2>2, <3>2 DEF Lugar, UnaMano
    <3> QED
      BY <3>1, <3>3
  <2> QED
    BY <2>5, <2>6
<1> QED
  BY <1>1, BaseSiempre, LugarSiempre, PTL

-----------------------------------------------------------------------------
(* A search that is alone finds its TCB *)

\* The handler of IO has already taken its TCB out of EXEC.
YaSaco == fase["dispatch"] \in {"mano", "cierra"} /\ busca["dispatch"].op = "IO"

\* Who has the turn of a TCB that is in EXEC: pcp that put it there, the
\* dispatch in the socket, the CPU, the eviction in the socket or the search
\* of the eviction.
Tiene(x) ==
  \/ x = "pcp" /\ pcp = "pideTicket"
  \/ x = "dispKC" /\ dispKC # <<>>
  \/ x = "cpu" /\ (cpu.fase = "ejecuta" \/ (cpu.fase = "pide" /\ ~YaSaco))
  \/ x = "intCK" /\ intCK # <<>>
  \/ x = "interrupt" /\ Buscando("interrupt")
UnTurno == \A x, y : Tiene(x) /\ Tiene(y) => x = y

\* While one has it, its TCB does not leave EXEC.
EnSuLugar ==
  /\ dispKC # <<>> => Len(dispKC) = 1 /\ EnLista(lista["exec"], dispKC[1])
  /\ intCK # <<>> => Len(intCK) = 1 /\ EnLista(lista["exec"], intCK[1])
  /\ Tiene("cpu") => EnLista(lista["exec"], cpu.tid)
  /\ Buscando("interrupt") => EnLista(lista["exec"], busca["interrupt"].tid)

\* The list in which a search finds its TCB, the third or the fifth.
Destino(b) == IF b = "io" THEN "blocked" ELSE "exec"
Meta(b)    == IF b = "io" THEN 5 ELSE 3

Sana(b) ==
  /\ fase[b] # "nulo"
  /\ Buscando(b) => tidABuscar = busca[b].tid /\ paso[b] <= Meta(b)
  /\ fase[b] = "saca" => paso[b] = Meta(b)
  /\ fase[b] \in {"mano", "cierra"} /\ busca[b].op # "THREAD_CREATE" => busca[b].tcb = busca[b].tid
UnaBusqueda ==
  /\ \A b, c \in Buscadores : Buscando(b) /\ Buscando(c) => b = c
  /\ \A b \in Buscadores : Sana(b)

\* The threads asleep, the one that wakes and the one about to sleep are in
\* BLOCKED, and they are different.
Durmiendo ==
  /\ \A t \in dormidos : EnLista(lista["blocked"], t)
  /\ Buscando("io") => EnLista(lista["blocked"], busca["io"].tid) /\ busca["io"].tid \notin dormidos
  /\ fase["dispatch"] = "cierra" /\ busca["dispatch"].op = "IO" =>
       /\ EnLista(lista["blocked"], busca["dispatch"].tid)
       /\ busca["dispatch"].tid \notin dormidos
       /\ Buscando("io") => busca["io"].tid # busca["dispatch"].tid

Sola == UnTurno /\ EnSuLugar /\ UnaBusqueda /\ Durmiendo

LEMMA FasesBien ==
  ASSUME Base
  PROVE  /\ Buscadores = {"dispatch", "interrupt", "io"}
         /\ fase \in [Buscadores -> {"libre", "busca", "saca", "mano", "cierra", "nulo"}]
         /\ paso \in [Buscadores -> 1..5] /\ busca \in [Buscadores -> EnCurso]
         /\ lista \in [Estados -> Seq(Hilos)] /\ tidABuscar \in Hilos
         /\ cpu \in Cpus /\ dispKC \in Seq(Hilos) /\ intCK \in Seq(Hilos)
         /\ dispCK \in Seq(Syscalls) /\ dormidos \subseteq Hilos
BY DEF Base, DuenosSegunFase, Tipos, TiposDelResto, TiposDelKernel, TiposDeBusquedas,
       TiposDeCanales, Buscadores

\* attend_kernel_cpu_dispatch searches for the thread the CPU runs.
LEMMA BuscaElQueEjecuta ==
  ASSUME Base, Buscando("dispatch")
  PROVE  Tiene("cpu") /\ busca["dispatch"].tid = cpu.tid /\ busca["dispatch"].op = "IO"
<1>1. "dispatch" \in Buscadores /\ fase["dispatch"] \in {"busca", "saca"}
  BY DEF Buscadores, Buscando
<1>2. busca["dispatch"].op = "IO"
  BY <1>1, FasesBien DEF Base, UnaAtencion, EnCurso
<1>3. busca["dispatch"].tid = cpu.tid /\ cpu.fase = "pide"
  BY <1>1, <1>2 DEF Base, UnaAtencion, UnPedido
<1> QED
  BY <1>1, <1>2, <1>3 DEF Tiene, YaSaco

\* The TCB a search looks for is in one list only.
LEMMA EstaEnDestino ==
  ASSUME Base, Lugar, Sola, NEW b \in Buscadores, Buscando(b)
  PROVE  /\ busca[b].tid \in Hilos /\ tidABuscar = busca[b].tid
         /\ Destino(b) \in Estados /\ Destino(b) = Recorrido[Meta(b)] /\ Meta(b) \in {3, 5}
         /\ EnLista(lista[Destino(b)], tidABuscar)
         /\ \A e \in Estados : EnLista(lista[e], tidABuscar) => e = Destino(b)
         /\ \A i \in 1..5 : Recorrido[i] = Destino(b) => i = Meta(b)
<1>1. tidABuscar = busca[b].tid /\ busca[b].tid \in Hilos
  BY FasesBien DEF Sola, UnaBusqueda, Sana
<1>2. EnLista(lista[Destino(b)], busca[b].tid)
  <2>1. CASE b = "dispatch"
    BY <2>1, BuscaElQueEjecuta DEF Destino, Sola, EnSuLugar
  <2>2. CASE b = "interrupt"
    BY <2>2 DEF Destino, Sola, EnSuLugar
  <2>3. CASE b = "io"
    BY <2>3 DEF Destino, Sola, Durmiendo
  <2> QED
    BY <2>1, <2>2, <2>3 DEF Buscadores
<1>3. /\ Recorrido[1] = "new" /\ Recorrido[2] = "ready" /\ Recorrido[3] = "exec"
      /\ Recorrido[4] = "exit" /\ Recorrido[5] = "blocked"
  BY DEF Recorrido
<1>4. Destino(b) \in Estados /\ Destino(b) = Recorrido[Meta(b)] /\ Meta(b) \in {3, 5}
  BY <1>3, SonEstados DEF Destino, Meta
<1>5. \A i \in 1..5 : i = 1 \/ i = 2 \/ i = 3 \/ i = 4 \/ i = 5
  OBVIOUS
<1>6. \A i \in 1..5 : Recorrido[i] = Destino(b) => i = Meta(b)
  <2> SUFFICES ASSUME NEW i \in 1..5, Recorrido[i] = Destino(b)  PROVE i = Meta(b)
    OBVIOUS
  <2> QED
    BY <1>3, <1>5 DEF Destino, Meta
<1>7. \A e \in Estados : EnLista(lista[e], tidABuscar) => e = Destino(b)
  BY <1>1, <1>2, <1>4 DEF Lugar, UnaLista
<1> QED
  BY <1>1, <1>2, <1>4, <1>6, <1>7

-----------------------------------------------------------------------------
(* What keeps each part *)

\* No turn begins, and those that do not end keep their TCB in EXEC.
LEMMA TurnosQuedan ==
  ASSUME UnTurno, EnSuLugar,
         \A x : Tiene(x)' => Tiene(x),
         dispKC' = dispKC \/ dispKC' = <<>>, intCK' = intCK \/ intCK' = <<>>,
         Tiene("cpu")' => cpu'.tid = cpu.tid,
         Buscando("interrupt")' => busca'["interrupt"].tid = busca["interrupt"].tid,
         \A t : EnLista(lista["exec"], t) => EnLista(lista'["exec"], t)
  PROVE  UnTurno' /\ EnSuLugar'
<1>1. UnTurno'
  BY DEF UnTurno
<1>2. dispKC' # <<>> => Len(dispKC') = 1 /\ EnLista(lista'["exec"], dispKC'[1])
  BY DEF EnSuLugar
<1>3. intCK' # <<>> => Len(intCK') = 1 /\ EnLista(lista'["exec"], intCK'[1])
  BY DEF EnSuLugar
<1>4. Tiene("cpu")' => EnLista(lista'["exec"], cpu'.tid)
  BY DEF EnSuLugar
<1>5. Buscando("interrupt")' => EnLista(lista'["exec"], busca'["interrupt"].tid)
  <2> SUFFICES ASSUME Buscando("interrupt")'
               PROVE  EnLista(lista'["exec"], busca'["interrupt"].tid)
    OBVIOUS
  <2>1. Tiene("interrupt")'
    BY DEF Tiene
  <2>2. Tiene("interrupt")
    BY <2>1
  <2>3. Buscando("interrupt")
    BY <2>2 DEF Tiene
  <2> QED
    BY <2>3 DEF EnSuLugar
<1>6. EnSuLugar'
  BY <1>2, <1>3, <1>4, <1>5 DEF EnSuLugar
<1> QED
  BY <1>1, <1>6

\* After the step nobody has a turn.
LEMMA TurnosAcaban ==
  ASSUME \A x : ~Tiene(x)'
  PROVE  UnTurno' /\ EnSuLugar'
<1>1. ~Tiene("dispKC")' /\ ~Tiene("intCK")' /\ ~Tiene("cpu")' /\ ~Tiene("interrupt")'
  OBVIOUS
<1>2. dispKC' = <<>> /\ intCK' = <<>> /\ ~Buscando("interrupt")'
  BY <1>1 DEF Tiene
<1> QED
  BY <1>1, <1>2 DEF UnTurno, EnSuLugar

\* While EXEC is empty nobody has a turn.
LEMMA SinTurnos ==
  ASSUME EnSuLugar, lista["exec"] = <<>>, pcp # "pideTicket"
  PROVE  \A x : ~Tiene(x)
<1>1. \A t : ~EnLista(lista["exec"], t)
  <2>1. Len(<<>>) = 0 /\ 1..0 = {}
    OBVIOUS
  <2> QED
    BY <2>1 DEF EnLista
<1>2. dispKC = <<>> /\ intCK = <<>> /\ ~Tiene("cpu") /\ ~Buscando("interrupt")
  BY <1>1 DEF EnSuLugar
<1> QED
  BY <1>2 DEF Tiene

\* Only b moves, and it begins to search when no other handler is searching.
LEMMA BusquedaDeUno ==
  ASSUME Base, UnaBusqueda, NEW b \in Buscadores, NEW f, fase' = [fase EXCEPT ![b] = f],
         \A c \in Buscadores \ {b} : busca'[c] = busca[c] /\ paso'[c] = paso[c],
         UNCHANGED tidABuscar \/ \A c \in Buscadores \ {b} : ~Buscando(c),
         f \in {"busca", "saca"} => Buscando(b) \/ \A c \in Buscadores \ {b} : ~Buscando(c),
         Sana(b)'
  PROVE  UnaBusqueda'
<1>1. \A c \in Buscadores : fase'[c] = IF c = b THEN f ELSE fase[c]
  BY FasesBien
<1>2. \A c \in Buscadores \ {b} : Buscando(c)' <=> Buscando(c)
  BY <1>1 DEF Buscando
<1>3. Buscando(b)' <=> f \in {"busca", "saca"}
  BY <1>1 DEF Buscando
<1>4. \A c, d \in Buscadores : Buscando(c)' /\ Buscando(d)' => c = d
  BY <1>2, <1>3 DEF UnaBusqueda
<1>5. \A c \in Buscadores \ {b} : Sana(c)'
  <2> SUFFICES ASSUME NEW c \in Buscadores \ {b}  PROVE Sana(c)'
    OBVIOUS
  <2>1. Sana(c)
    BY DEF UnaBusqueda
  <2>2. Buscando(c) => UNCHANGED tidABuscar
    OBVIOUS
  <2> QED
    BY <1>1, <1>2, <2>1, <2>2 DEF Sana
<1> QED
  BY <1>4, <1>5 DEF UnaBusqueda

\* No search moves.
LEMMA BusquedasQuietas ==
  ASSUME UnaBusqueda, UNCHANGED <<fase, paso, busca, tidABuscar>>
  PROVE  UnaBusqueda'
BY DEF UnaBusqueda, Sana, Buscando

\* Neither BLOCKED nor the sleepers change.
LEMMA DurmiendoQuieto ==
  ASSUME Durmiendo, lista'["blocked"] = lista["blocked"], UNCHANGED dormidos,
         Buscando("io")' => Buscando("io") /\ busca'["io"].tid = busca["io"].tid,
         fase'["dispatch"] = "cierra" /\ busca'["dispatch"].op = "IO" =>
           /\ fase["dispatch"] = "cierra" /\ busca["dispatch"].op = "IO"
           /\ busca'["dispatch"].tid = busca["dispatch"].tid
  PROVE  Durmiendo'
BY DEF Durmiendo

\* What Sola looks at does not change.
LEMMA SolaQuieta ==
  ASSUME Sola, lista'["exec"] = lista["exec"], lista'["blocked"] = lista["blocked"],
         UNCHANGED <<fase, paso, busca, tidABuscar, dormidos, cpu, dispKC, intCK>>,
         pcp' = "pideTicket" => pcp = "pideTicket"
  PROVE  Sola'
<1>1. \A x : Tiene(x)' => Tiene(x)
  BY DEF Tiene, YaSaco, Buscando
<1>2. UnTurno' /\ EnSuLugar'
  BY <1>1, TurnosQuedan DEF Sola
<1>3. UnaBusqueda'
  BY BusquedasQuietas DEF Sola
<1>4. Durmiendo'
  BY DurmiendoQuieto DEF Sola, Buscando
<1> QED
  BY <1>2, <1>3, <1>4 DEF Sola

-----------------------------------------------------------------------------
(* The steps *)

\* The sequence with one element.
LEMMA AgregarAVacia ==
  ASSUME NEW S, NEW x \in S
  PROVE  Len(Append(<<>>, x)) = 1 /\ Append(<<>>, x)[1] = x /\ Append(<<>>, x) # <<>>
<1>1. <<>> \in Seq(S) /\ Len(<<>>) = 0
  OBVIOUS
<1>2. PICK l \in Seq(S) : l = <<>>
  BY <1>1
<1>3. Len(Append(l, x)) = Len(l) + 1 /\ Append(l, x)[Len(l) + 1] = x
  OBVIOUS
<1>4. Append(l, x) # <<>>
  BY <1>2, AgregarNoVacia
<1> QED
  BY <1>1, <1>2, <1>3, <1>4

LEMMA ColaDeUno ==
  ASSUME NEW S, NEW l \in Seq(S), Len(l) = 1
  PROVE  Tail(l) = <<>> /\ Head(l) = l[1] /\ l # <<>>
<1>1. l # <<>>
  OBVIOUS
<1>2. Tail(l) \in Seq(S) /\ Len(Tail(l)) = 0
  BY <1>1
<1>3. \A m \in Seq(S) : m # <<>> => Len(m) # 0
  OBVIOUS
<1>4. Tail(l) = <<>>
  BY <1>2, <1>3
<1>5. Head(l) = l[1]
  BY <1>1
<1> QED
  BY <1>1, <1>4, <1>5

LEMMA SolaPcp ==
  ASSUME Base, Lugar, Sola, Pcp
  PROVE  Sola'
<1>1. UNCHANGED <<fase, paso, busca, tidABuscar, dormidos, cpu, intCK>>
  BY DEF Pcp, buscaVars
<1>2. CASE UNCHANGED <<lista, dispKC>> /\ (pcp' = "pideTicket" => pcp = "pideTicket")
  BY <1>1, <1>2, SolaQuieta
<1>3. UnaBusqueda'
  BY <1>1, BusquedasQuietas DEF Sola
<1>4. CASE PcpSaca /\ ~UNCHANGED lista
  <2>1. PICK k \in 1..Len(lista["ready"]) :
          lista' = [lista EXCEPT !["ready"] = SinIndice(lista["ready"], k),
                                 !["exec"] = Append(lista["exec"], lista["ready"][k])]
    BY <1>4 DEF PcpSaca
  <2>2. pcp = "conExec" /\ pcp' = "pideTicket" /\ dispKC' = dispKC
    BY <1>4 DEF PcpSaca, PcpEn
  <2>3. lista["exec"] = <<>>
    BY <2>2 DEF Base, EnExec
  <2>4. \A x : ~Tiene(x)
    BY <2>2, <2>3, SinTurnos DEF Sola
  <2>5. UNCHANGED <<proxTid, fase, busca>>
    BY <1>1 DEF Pcp
  <2>6. lista'["blocked"] = lista["blocked"]
    BY <2>1, <2>5, LugarDeListaALista, SonEstados
  <2>7. \A x : Tiene(x)' => x = "pcp"
    BY <1>1, <2>2, <2>4 DEF Tiene, YaSaco, Buscando
  <2>8. UnTurno' /\ EnSuLugar'
    <3>1. UnTurno'
      BY <2>7 DEF UnTurno
    <3>2. ~Tiene("dispKC")' /\ ~Tiene("intCK")' /\ ~Tiene("cpu")' /\ ~Tiene("interrupt")'
      BY <2>7
    <3>3. dispKC' = <<>> /\ intCK' = <<>> /\ ~Buscando("interrupt")'
      BY <3>2 DEF Tiene
    <3> QED
      BY <3>1, <3>2, <3>3 DEF EnSuLugar
  <2>9. Durmiendo'
    BY <1>1, <2>6, DurmiendoQuieto DEF Sola, Buscando
  <2> QED
    BY <1>3, <2>8, <2>9 DEF Sola
<1>5. CASE PcpDespacha
  <2>1. PICK t : t = lista["exec"][1]
    OBVIOUS
  <2>2. /\ pcp = "pideTicket" /\ pcp' = "espera" /\ UNCHANGED lista
        /\ dispKC' = Append(dispKC, t)
    BY <1>5, <2>1 DEF PcpDespacha, PcpEn
  <2>3. lista["exec"] # <<>> /\ lista["exec"] \in Seq(Hilos)
    BY <2>2, FasesBien, SonEstados DEF Base, EnExec
  <2>4. 1 \in 1..Len(lista["exec"]) /\ t \in Hilos
    BY <2>1, <2>3
  <2>5. EnLista(lista["exec"], t)
    BY <2>1, <2>4 DEF EnLista
  <2>6. \A x : Tiene(x) => x = "pcp"
    BY <2>2 DEF Tiene, Sola, UnTurno
  <2>7. dispKC = <<>> /\ intCK = <<>> /\ ~Tiene("cpu") /\ ~Buscando("interrupt")
    <3>1. ~Tiene("dispKC") /\ ~Tiene("intCK") /\ ~Tiene("cpu") /\ ~Tiene("interrupt")
      BY <2>6
    <3> QED
      BY <3>1 DEF Tiene
  <2>8. ~Tiene("cpu")' /\ ~Buscando("interrupt")' /\ intCK' = <<>>
    BY <1>1, <2>7 DEF Tiene, YaSaco, Buscando
  <2>9. Len(dispKC') = 1 /\ dispKC'[1] = t
    BY <2>2, <2>4, <2>7, AgregarAVacia
  <2>10. EnSuLugar'
    BY <2>2, <2>5, <2>8, <2>9 DEF EnSuLugar
  <2>11. UnTurno'
    <3>1. \A x : Tiene(x)' => x = "dispKC"
      BY <2>2, <2>8 DEF Tiene
    <3> QED
      BY <3>1 DEF UnTurno
  <2>12. Durmiendo'
    BY <1>1, <2>2, DurmiendoQuieto DEF Sola, Buscando
  <2> QED
    BY <1>3, <2>10, <2>11, <2>12 DEF Sola
<1>6. CASE PcpDespachaPorPrioridad /\ lista["exec"] = <<>>
  <2>1. PICK k \in 1..Len(lista["ready"]) :
          /\ lista' = [lista EXCEPT !["ready"] = SinIndice(lista["ready"], k),
                                    !["exec"] = Append(lista["exec"], lista["ready"][k])]
          /\ dispKC' = Append(dispKC, lista["ready"][k])
    BY <1>6 DEF PcpDespachaPorPrioridad
  <2>2. PICK t : t = lista["ready"][k]
    OBVIOUS
  <2>3. pcp = "conReady" /\ pcp' = "espera"
    BY <1>6 DEF PcpDespachaPorPrioridad, PcpEn
  <2>4. \A x : ~Tiene(x)
    BY <1>6, <2>3, SinTurnos DEF Sola
  <2>5. UNCHANGED <<proxTid, fase, busca>>
    BY <1>1 DEF Pcp
  <2>6. lista'["blocked"] = lista["blocked"] /\ t \in Hilos /\ EnLista(lista'["exec"], t)
    BY <2>1, <2>2, <2>5, LugarDeListaALista, SonEstados
  <2>7. dispKC = <<>> /\ intCK = <<>> /\ ~Tiene("cpu") /\ ~Buscando("interrupt")
    <3>1. ~Tiene("dispKC") /\ ~Tiene("intCK") /\ ~Tiene("cpu") /\ ~Tiene("interrupt")
      BY <2>4
    <3> QED
      BY <3>1 DEF Tiene
  <2>8. ~Tiene("cpu")' /\ ~Buscando("interrupt")' /\ intCK' = <<>>
    BY <1>1, <2>7 DEF Tiene, YaSaco, Buscando
  <2>9. Len(dispKC') = 1 /\ dispKC'[1] = t
    BY <2>1, <2>2, <2>6, <2>7, AgregarAVacia
  <2>10. EnSuLugar'
    BY <2>6, <2>8, <2>9 DEF EnSuLugar
  <2>11. UnTurno'
    <3>1. \A x : Tiene(x)' => x = "dispKC"
      BY <2>3, <2>8 DEF Tiene
    <3> QED
      BY <3>1 DEF UnTurno
  <2>12. Durmiendo'
    BY <1>1, <2>6, DurmiendoQuieto DEF Sola, Buscando
  <2> QED
    BY <1>3, <2>10, <2>11, <2>12 DEF Sola
<1>7. CASE PcpDespierta \/ PcpMira \/ PcpTomaExec \/ PcpTomaReady \/ (PcpSaca /\ UNCHANGED lista)
           \/ (PcpDespachaPorPrioridad /\ lista["exec"] # <<>>)
  <2>1. UNCHANGED <<lista, dispKC>>
    BY <1>7 DEF PcpDespierta, PcpMira, PcpTomaExec, PcpSaca, PcpTomaReady, PcpDespachaPorPrioridad
  <2>2. CASE PcpDespierta \/ PcpMira \/ PcpTomaExec \/ PcpTomaReady
             \/ (PcpDespachaPorPrioridad /\ lista["exec"] # <<>>)
    <3>1. pcp' # "pideTicket" \/ pcp' = pcp
      BY <2>2 DEF PcpDespierta, PcpMira, PcpTomaExec, PcpTomaReady, PcpDespachaPorPrioridad, PcpEn
    <3> QED
      BY <1>2, <2>1, <3>1
  <2>3. CASE PcpSaca /\ UNCHANGED lista
    <3>1. CASE pcp' = "espera"
      BY <1>2, <2>1, <3>1
    <3>2. CASE pcp' # "espera"
      <4>1. PICK k \in 1..Len(lista["ready"]) :
              lista' = [lista EXCEPT !["ready"] = SinIndice(lista["ready"], k),
                                     !["exec"] = Append(lista["exec"], lista["ready"][k])]
        BY <2>3, <3>2 DEF PcpSaca, PcpEn
      <4>2. lista["exec"] = <<>> /\ lista["exec"] \in Seq(Hilos) /\ lista["ready"][k] \in Hilos
        BY <2>3, FasesBien, SonEstados DEF PcpSaca, Base, EnExec
      <4>3. lista'["exec"] = Append(lista["exec"], lista["ready"][k])
        BY <4>1, FasesBien, SonEstados
      <4>4. lista'["exec"] # <<>>
        BY <4>2, <4>3, AgregarAVacia
      <4> QED
        BY <2>3, <4>2, <4>4
    <3> QED
      BY <3>1, <3>2
  <2> QED
    BY <1>7, <2>2, <2>3
<1> QED
  BY <1>4, <1>5, <1>6, <1>7 DEF Pcp

LEMMA SolaCpu ==
  ASSUME Base, Sola, Cpu
  PROVE  Sola'
<1>1. UNCHANGED <<fase, paso, busca, tidABuscar, dormidos, lista, pcp>>
  BY DEF Cpu, buscaVars, pcpVars
<1>2. UnaBusqueda' /\ Durmiendo'
  BY <1>1, BusquedasQuietas, DurmiendoQuieto DEF Sola, Buscando
<1> SUFFICES UnTurno' /\ EnSuLugar'
  BY <1>2 DEF Sola
<1>3. cpu \in Cpus /\ dispKC \in Seq(Hilos) /\ intCK \in Seq(Hilos) /\ UnTurno /\ EnSuLugar
  BY FasesBien DEF Sola
<1>4. /\ YaSaco' <=> YaSaco
      /\ Buscando("interrupt")' <=> Buscando("interrupt")
  BY <1>1 DEF YaSaco, Buscando
<1>5. CASE CpuCarga
  <2>1. PICK t : t = Head(dispKC)
    OBVIOUS
  <2>2. /\ cpu.fase = "libre" /\ dispKC # <<>> /\ cpu' = Ejecuta(t) /\ dispKC' = Tail(dispKC)
        /\ intCK' = intCK
    BY <1>5, <2>1 DEF CpuCarga
  <2>3. cpu'.tid = t /\ cpu'.fase = "ejecuta"
    BY <2>2 DEF Ejecuta
  <2>4. Len(dispKC) = 1 /\ EnLista(lista["exec"], dispKC[1])
    BY <1>3, <2>2 DEF EnSuLugar
  <2>5. dispKC' = <<>> /\ t = dispKC[1]
    BY <1>3, <2>1, <2>2, <2>4, ColaDeUno
  <2>6. \A x : Tiene(x) => x = "dispKC"
    BY <1>3, <2>2 DEF Tiene, UnTurno
  <2>7. intCK = <<>> /\ ~Buscando("interrupt") /\ pcp # "pideTicket"
    <3>1. ~Tiene("intCK") /\ ~Tiene("interrupt") /\ ~Tiene("pcp")
      BY <2>6
    <3> QED
      BY <3>1 DEF Tiene
  <2>8. \A x : Tiene(x)' => x = "cpu"
    BY <1>1, <1>4, <2>2, <2>5, <2>7 DEF Tiene
  <2>9. EnSuLugar'
    BY <1>1, <1>4, <2>2, <2>3, <2>4, <2>5, <2>7 DEF EnSuLugar
  <2> QED
    BY <2>8, <2>9 DEF UnTurno
<1>6. CASE \E o \in {"IO", "THREAD_CREATE"} : CpuPide(o)
  <2>1. /\ cpu.fase = "ejecuta" /\ cpu' = [cpu EXCEPT !.fase = "pide"]
        /\ UNCHANGED <<dispKC, intCK>>
    BY <1>6 DEF CpuPide
  <2>2. cpu'.tid = cpu.tid /\ cpu'.fase = "pide"
    BY <1>3, <2>1 DEF Cpus
  <2>3. \A x : Tiene(x)' => Tiene(x)
    BY <1>1, <1>4, <2>1, <2>2 DEF Tiene
  <2> QED
    BY <1>1, <1>3, <2>1, <2>2, <2>3, TurnosQuedan
<1>7. CASE CpuDeja
  <2>1. cpu' = CpuLibre /\ UNCHANGED <<dispKC, intCK>>
    BY <1>7 DEF CpuDeja
  <2>2. cpu'.fase = "libre"
    BY <2>1 DEF CpuLibre
  <2>3. \A x : Tiene(x)' => Tiene(x) /\ x # "cpu"
    BY <1>1, <1>4, <2>1, <2>2 DEF Tiene
  <2>4. ~Tiene("cpu")'
    BY <2>3
  <2> QED
    BY <1>1, <1>3, <2>1, <2>3, <2>4, TurnosQuedan
<1>8. CASE CpuInterrumpe /\ cpu = Ejecuta(Head(intKC))
  <2>1. PICK t : t = Head(intKC)
    OBVIOUS
  <2>2. /\ cpu = Ejecuta(t) /\ cpu' = CpuLibre /\ intCK' = Append(intCK, t)
        /\ dispKC' = dispKC
    BY <1>8, <2>1 DEF CpuInterrumpe
  <2>3. cpu.tid = t /\ cpu.fase = "ejecuta" /\ cpu'.fase = "libre" /\ t \in Hilos
    BY <1>3, <2>2 DEF Ejecuta, CpuLibre, Cpus
  <2>4. Tiene("cpu")
    BY <2>3 DEF Tiene
  <2>5. \A x : Tiene(x) => x = "cpu"
    BY <1>3, <2>4 DEF UnTurno
  <2>6. dispKC = <<>> /\ intCK = <<>> /\ ~Buscando("interrupt") /\ pcp # "pideTicket"
    <3>1. ~Tiene("dispKC") /\ ~Tiene("intCK") /\ ~Tiene("interrupt") /\ ~Tiene("pcp")
      BY <2>5
    <3> QED
      BY <3>1 DEF Tiene
  <2>7. Len(intCK') = 1 /\ intCK'[1] = t
    BY <2>2, <2>3, <2>6, AgregarAVacia
  <2>8. EnLista(lista["exec"], t)
    BY <1>3, <2>3, <2>4 DEF EnSuLugar
  <2>9. \A x : Tiene(x)' => x = "intCK"
    BY <1>1, <1>4, <2>2, <2>3, <2>6 DEF Tiene
  <2>10. ~Tiene("cpu")'
    BY <2>9
  <2>11. EnSuLugar'
    BY <1>1, <1>4, <2>2, <2>6, <2>7, <2>8, <2>10 DEF EnSuLugar
  <2> QED
    BY <2>9, <2>11 DEF UnTurno
<1>9. CASE CpuInterrumpe /\ cpu # Ejecuta(Head(intKC))
  <2>1. UNCHANGED <<cpu, intCK, dispKC>>
    BY <1>9 DEF CpuInterrumpe
  <2>2. \A x : Tiene(x)' => Tiene(x)
    BY <1>1, <1>4, <2>1 DEF Tiene
  <2> QED
    BY <1>1, <1>3, <2>1, <2>2, TurnosQuedan
<1> QED
  BY <1>5, <1>6, <1>7, <1>8, <1>9 DEF Cpu

\* A search looks at the next list.
LEMMA SolaMirar ==
  ASSUME Base, Lugar, Sola, NEW b \in Buscadores, Mirar(b),
         UNCHANGED <<pcp, dormidos, cpu, dispKC, intCK>>
  PROVE  Sola'
<1> DEFINE i == paso[b]
<1>1. /\ fase[b] = "busca" /\ Buscando(b) /\ UNCHANGED <<lista, busca, tidABuscar>>
      /\ i \in 1..5 /\ Len(Recorrido) = 5
  BY FasesBien DEF Mirar, Buscando, Recorrido
<1>2. /\ Meta(b) \in {3, 5} /\ EnLista(lista[Destino(b)], tidABuscar)
      /\ Destino(b) = Recorrido[Meta(b)] /\ tidABuscar = busca[b].tid
      /\ \A e \in Estados : EnLista(lista[e], tidABuscar) => e = Destino(b)
      /\ \A j \in 1..5 : Recorrido[j] = Destino(b) => j = Meta(b)
  BY <1>1, EstaEnDestino
<1>3. i <= Meta(b)
  BY <1>1 DEF Sola, UnaBusqueda, Sana
<1>4. Recorrido[i] \in Estados
  BY <1>1, SonEstados
<1>5. EnLista(lista[Recorrido[i]], tidABuscar) <=> i = Meta(b)
  BY <1>1, <1>2, <1>4
<1>6. /\ \A c \in Buscadores \ {b} : busca'[c] = busca[c] /\ paso'[c] = paso[c]
      /\ \/ /\ i = Meta(b) /\ fase' = [fase EXCEPT ![b] = "saca"] /\ paso'[b] = i
         \/ /\ i # Meta(b) /\ fase' = [fase EXCEPT ![b] = "busca"] /\ paso'[b] = i + 1
  <2>1. CASE EnLista(lista[Recorrido[i]], tidABuscar)
    <3>1. fase' = [fase EXCEPT ![b] = "saca"] /\ UNCHANGED <<paso, busca>>
      BY <2>1 DEF Mirar, En
    <3> QED
      BY <1>5, <2>1, <3>1
  <2>2. CASE ~EnLista(lista[Recorrido[i]], tidABuscar)
    <3>1. i # Meta(b)
      BY <1>5, <2>2
    <3>2. i < 5
      BY <1>1, <1>2, <1>3, <3>1
    <3>3. paso' = [paso EXCEPT ![b] = i + 1] /\ UNCHANGED <<fase, busca>>
      BY <1>1, <2>2, <3>2 DEF Mirar
    <3>4. fase' = [fase EXCEPT ![b] = "busca"]
      BY <1>1, <3>3, FasesBien
    <3> QED
      BY <3>1, <3>3, <3>4, FasesBien
  <2> QED
    BY <2>1, <2>2
<1> HIDE DEF i
<1>7. PICK f \in {"busca", "saca"} : fase' = [fase EXCEPT ![b] = f]
  BY <1>6
<1>8. \A c \in Buscadores : fase'[c] = IF c = b THEN f ELSE fase[c]
  BY <1>7, FasesBien
<1>9. UnaBusqueda'
  <2>1. Sana(b)'
    <3>1. CASE i = Meta(b)
      <4>1. fase'[b] = "saca" /\ paso'[b] = i
        BY <1>6, <3>1, FasesBien
      <4> QED
        BY <1>1, <1>2, <1>3, <3>1, <4>1 DEF Sana, Meta
    <3>2. CASE i # Meta(b)
      <4>1. fase'[b] = "busca" /\ paso'[b] = i + 1
        BY <1>6, <3>2, FasesBien
      <4>2. i + 1 <= Meta(b)
        BY <1>1, <1>2, <1>3, <3>2
      <4> QED
        BY <1>1, <1>2, <4>1, <4>2 DEF Sana, Meta
    <3> QED
      BY <3>1, <3>2
  <2> QED
    BY <1>1, <1>6, <1>7, <2>1, BusquedaDeUno DEF Sola
<1>10. /\ "dispatch" \in Buscadores /\ "interrupt" \in Buscadores /\ "io" \in Buscadores
  BY DEF Buscadores
<1>11. \A c \in Buscadores : (Buscando(c)' <=> Buscando(c)) /\ (fase'[c] = fase[c] \/ Buscando(c))
  BY <1>1, <1>8 DEF Buscando
<1>12. YaSaco' <=> YaSaco
  BY <1>1, <1>8, <1>10 DEF YaSaco
<1>13. \A x : Tiene(x)' => Tiene(x)
  BY <1>10, <1>11, <1>12 DEF Tiene
<1>14. UnTurno' /\ EnSuLugar'
  BY <1>1, <1>13, TurnosQuedan DEF Sola
<1>15. fase'["dispatch"] = "cierra" => fase["dispatch"] = "cierra"
  BY <1>8, <1>10
<1>16. Durmiendo'
  BY <1>1, <1>10, <1>11, <1>15, DurmiendoQuieto DEF Sola
<1> QED
  BY <1>9, <1>14, <1>16 DEF Sola

\* A search takes its TCB out of the list.
LEMMA SolaSacar ==
  ASSUME Base, Lugar, Sola, NEW b \in Buscadores, Sacar(b),
         UNCHANGED <<proxTid, pcp, dormidos, cpu, dispKC, intCK>>
  PROVE  Sola'
<1> DEFINE m == Destino(b)
<1>1. fase[b] = "saca" /\ Buscando(b) /\ UNCHANGED <<paso, tidABuscar>>
  BY DEF Sacar, Buscando
<1>2. /\ m \in Estados /\ EnLista(lista[m], tidABuscar) /\ m = Recorrido[Meta(b)]
      /\ tidABuscar = busca[b].tid /\ busca[b].tid \in Hilos
  BY <1>1, EstaEnDestino
<1>3. paso[b] = Meta(b)
  BY <1>1 DEF Sola, UnaBusqueda, Sana
<1>4. /\ lista' = [lista EXCEPT ![m] = Quitar(lista[m], tidABuscar)]
      /\ fase' = [fase EXCEPT ![b] = "mano"]
      /\ busca' = [busca EXCEPT ![b] = [busca[b] EXCEPT !.tcb = tidABuscar]]
  BY <1>2, <1>3 DEF Sacar, En
<1> HIDE DEF m
<1>5. /\ \A u : EnLista(lista'[m], u) <=> EnLista(lista[m], u) /\ u # tidABuscar
      /\ \A e \in Estados \ {m} : lista'[e] = lista[e]
  BY <1>1, <1>2, <1>4, LugarASacar
<1>6. \A c \in Buscadores : fase'[c] = IF c = b THEN "mano" ELSE fase[c]
  BY <1>4, FasesBien
<1>7. /\ busca'[b].tcb = tidABuscar /\ busca'[b].tid = busca[b].tid
      /\ busca'[b].op = busca[b].op
      /\ \A c \in Buscadores \ {b} : busca'[c] = busca[c]
  BY <1>4, FasesBien DEF EnCurso
<1>8. UnaBusqueda'
  <2>1. Sana(b)'
    BY <1>2, <1>6, <1>7 DEF Sana, Buscando
  <2> QED
    BY <1>1, <1>4, <1>7, <2>1, BusquedaDeUno DEF Sola
<1>9. Buscadores = {"dispatch", "interrupt", "io"}
  BY DEF Buscadores
<1>10. \A c \in Buscadores : ~Buscando(c)'
  BY <1>1, <1>6 DEF Sola, UnaBusqueda, Buscando
<1>11. CASE b = "dispatch"
  <2>1. Tiene("cpu") /\ busca["dispatch"].op = "IO"
    BY <1>1, <1>11, BuscaElQueEjecuta
  <2>2. YaSaco'
    BY <1>6, <1>7, <1>11, <2>1 DEF YaSaco
  <2>3. cpu.fase = "pide"
    BY <1>1, <1>11 DEF Base, UnPedido
  <2>4. \A x : Tiene(x) => x = "cpu"
    BY <2>1 DEF Sola, UnTurno
  <2>5. \A x : ~Tiene(x)'
    <3>1. \A x : Tiene(x)' => Tiene(x) /\ x # "cpu"
      BY <1>9, <1>10, <2>2, <2>3 DEF Tiene
    <3> QED
      BY <2>4, <3>1
  <2>6. UnTurno' /\ EnSuLugar'
    BY <2>5, TurnosAcaban
  <2>7. lista'["blocked"] = lista["blocked"]
    BY <1>5, <1>11, SonEstados DEF m, Destino
  <2>8. fase'["dispatch"] = "mano"
    BY <1>6, <1>11
  <2>9. Durmiendo'
    BY <1>9, <1>10, <2>7, <2>8, DurmiendoQuieto DEF Sola
  <2> QED
    BY <1>8, <2>6, <2>9 DEF Sola
<1>12. CASE b = "interrupt"
  <2>1. Tiene("interrupt")
    BY <1>1, <1>12 DEF Tiene
  <2>2. \A x : Tiene(x) => x = "interrupt"
    BY <2>1 DEF Sola, UnTurno
  <2>3. YaSaco' <=> YaSaco
    BY <1>6, <1>7, <1>9, <1>12 DEF YaSaco
  <2>4. \A x : ~Tiene(x)'
    <3>1. \A x : Tiene(x)' => Tiene(x) /\ x # "interrupt"
      BY <1>9, <1>10, <2>3 DEF Tiene
    <3> QED
      BY <2>2, <3>1
  <2>5. UnTurno' /\ EnSuLugar'
    BY <2>4, TurnosAcaban
  <2>6. lista'["blocked"] = lista["blocked"]
    BY <1>5, <1>12, SonEstados DEF m, Destino
  <2>7. Durmiendo'
    BY <1>6, <1>7, <1>9, <1>10, <1>12, <2>6, DurmiendoQuieto DEF Sola
  <2> QED
    BY <1>8, <2>5, <2>7 DEF Sola
<1>13. CASE b = "io"
  <2>1. m = "blocked" /\ lista'["exec"] = lista["exec"]
    BY <1>5, <1>13, SonEstados DEF m, Destino
  <2>2. YaSaco' <=> YaSaco
    BY <1>6, <1>7, <1>9, <1>13 DEF YaSaco
  <2>3. \A x : Tiene(x)' => Tiene(x)
    BY <1>9, <1>10, <2>2 DEF Tiene
  <2>4. UnTurno' /\ EnSuLugar'
    BY <1>9, <1>10, <2>1, <2>3, TurnosQuedan DEF Sola
  <2>5. Durmiendo'
    <3>1. busca["io"].tid \notin dormidos /\ tidABuscar = busca["io"].tid
      BY <1>1, <1>2, <1>13 DEF Sola, Durmiendo
    <3>2. \A t \in dormidos : EnLista(lista'["blocked"], t)
      BY <1>5, <2>1, <3>1 DEF Sola, Durmiendo
    <3>3. fase'["dispatch"] = fase["dispatch"] /\ busca'["dispatch"] = busca["dispatch"]
      BY <1>6, <1>7, <1>9, <1>13
    <3>4. fase["dispatch"] = "cierra" /\ busca["dispatch"].op = "IO" =>
            /\ EnLista(lista["blocked"], busca["dispatch"].tid)
            /\ busca["dispatch"].tid \notin dormidos
            /\ busca["dispatch"].tid # tidABuscar
      BY <1>1, <1>13, <3>1 DEF Sola, Durmiendo
    <3>5. fase["dispatch"] = "cierra" /\ busca["dispatch"].op = "IO" =>
            EnLista(lista'["blocked"], busca["dispatch"].tid)
      BY <1>5, <2>1, <3>4
    <3> QED
      BY <1>9, <1>10, <3>2, <3>3, <3>4, <3>5 DEF Durmiendo
  <2> QED
    BY <1>8, <2>4, <2>5 DEF Sola
<1> QED
  BY <1>9, <1>11, <1>12, <1>13

\* The call of a search, when no other is under way: b was not searching and
\* holds nothing.
LEMMA UnaSolaLlamada ==
  ASSUME Base, Sola, NEW b \in Buscadores, NEW o, NEW t \in Hilos, Llamar(b, o, t),
         fase[b] = "libre", ~cruce'
  PROVE  /\ UnaBusqueda' /\ Buscando(b)' /\ busca'[b].tid = t /\ busca'[b].op = o
         /\ \A c \in Buscadores \ {b} : ~Buscando(c) /\ fase'[c] = fase[c] /\ busca'[c] = busca[c]
         /\ fase'[b] = "busca"
<1>1. /\ tidABuscar' = t /\ fase' = [fase EXCEPT ![b] = "busca"] /\ paso' = [paso EXCEPT ![b] = 1]
      /\ busca' = [busca EXCEPT ![b] = [op |-> o, tid |-> t, tcb |-> 0]]
      /\ \A c \in Buscadores \ {b} : ~Buscando(c)
  BY DEF Llamar, En
<1>2. /\ busca'[b] = [op |-> o, tid |-> t, tcb |-> 0] /\ paso'[b] = 1 /\ fase'[b] = "busca"
      /\ \A c \in Buscadores \ {b} :
           busca'[c] = busca[c] /\ paso'[c] = paso[c] /\ fase'[c] = fase[c]
  BY <1>1, FasesBien
<1>3. busca'[b].tid = t /\ busca'[b].op = o
  BY <1>2
<1>4. Sana(b)'
  BY <1>1, <1>2, <1>3 DEF Sana, Buscando, Meta
<1>5. UnaBusqueda'
  BY <1>1, <1>2, <1>4, BusquedaDeUno DEF Sola
<1> QED
  BY <1>1, <1>2, <1>3, <1>5 DEF Buscando

LEMMA SolaIo ==
  ASSUME Base, Lugar, Sola, DispatchIo, UNCHANGED pcp, ~cruce'
  PROVE  Sola'
<1>1. PICK t : t = Head(dispCK).tid
  OBVIOUS
<1>2. /\ fase["dispatch"] = "libre" /\ Llamar("dispatch", "IO", t) /\ dispCK # <<>>
      /\ UNCHANGED <<lista, dormidos, cpu, dispKC, intCK>>
  BY <1>1 DEF DispatchIo, Recibe
<1>3. t \in Hilos
  <2>1. Head(dispCK) \in Syscalls
    BY <1>2, FasesBien
  <2> QED
    BY <1>1, <2>1 DEF Syscalls
<1>4. Buscadores = {"dispatch", "interrupt", "io"}
  BY DEF Buscadores
<1>5. /\ UnaBusqueda' /\ fase'["dispatch"] = "busca"
      /\ \A c \in Buscadores \ {"dispatch"} :
           ~Buscando(c) /\ fase'[c] = fase[c] /\ busca'[c] = busca[c]
  BY <1>2, <1>3, <1>4, UnaSolaLlamada
<1>6. ~YaSaco /\ ~YaSaco' /\ (Buscando("interrupt")' <=> Buscando("interrupt"))
      /\ (Buscando("io")' <=> Buscando("io"))
  BY <1>2, <1>4, <1>5 DEF YaSaco, Buscando
<1>7. \A x : Tiene(x)' => Tiene(x)
  BY <1>2, <1>6 DEF Tiene
<1>8. UnTurno' /\ EnSuLugar'
  BY <1>2, <1>4, <1>5, <1>7, TurnosQuedan DEF Sola
<1>9. Durmiendo'
  BY <1>2, <1>4, <1>5, <1>6, DurmiendoQuieto DEF Sola
<1> QED
  BY <1>5, <1>8, <1>9 DEF Sola

LEMMA SolaInterrupt ==
  ASSUME Base, Lugar, Sola, InterruptRecibe, UNCHANGED pcp, ~cruce'
  PROVE  Sola'
<1>1. PICK t : t = Head(intCK)
  OBVIOUS
<1>2. /\ fase["interrupt"] = "libre" /\ Llamar("interrupt", "DESALOJO_QUANTUM", t) /\ intCK # <<>>
      /\ intCK' = Tail(intCK)
      /\ UNCHANGED <<lista, dormidos, cpu, dispKC>>
  BY <1>1 DEF InterruptRecibe
<1>3. t \in Hilos
  BY <1>1, <1>2, FasesBien
<1>4. Buscadores = {"dispatch", "interrupt", "io"}
  BY DEF Buscadores
<1>5. /\ UnaBusqueda' /\ fase'["interrupt"] = "busca" /\ busca'["interrupt"].tid = t
      /\ \A c \in Buscadores \ {"interrupt"} :
           ~Buscando(c) /\ fase'[c] = fase[c] /\ busca'[c] = busca[c]
  BY <1>2, <1>3, <1>4, UnaSolaLlamada
<1>6. Len(intCK) = 1 /\ EnLista(lista["exec"], intCK[1])
  BY <1>2 DEF Sola, EnSuLugar
<1>7. intCK' = <<>> /\ t = intCK[1]
  BY <1>1, <1>2, <1>6, FasesBien, ColaDeUno
<1>8. \A x : Tiene(x) => x = "intCK"
  BY <1>2 DEF Tiene, Sola, UnTurno
<1>9. dispKC = <<>> /\ ~Tiene("cpu") /\ pcp # "pideTicket"
  <2>1. ~Tiene("dispKC") /\ ~Tiene("cpu") /\ ~Tiene("pcp")
    BY <1>8
  <2> QED
    BY <2>1 DEF Tiene
<1>10. YaSaco' <=> YaSaco
  BY <1>4, <1>5 DEF YaSaco
<1>11. ~Tiene("cpu")' /\ dispKC' = <<>>
  BY <1>2, <1>9, <1>10 DEF Tiene
<1>12. \A x : Tiene(x)' => x = "interrupt"
  BY <1>7, <1>9, <1>11 DEF Tiene
<1>13. UnTurno' /\ EnSuLugar'
  BY <1>2, <1>5, <1>6, <1>7, <1>11, <1>12 DEF UnTurno, EnSuLugar
<1>14. Durmiendo'
  BY <1>2, <1>4, <1>5, DurmiendoQuieto DEF Sola, Buscando
<1> QED
  BY <1>5, <1>13, <1>14 DEF Sola

LEMMA SolaDespierta ==
  ASSUME Base, Lugar, Sola, NEW t \in Hilos, IoDespierta(t), UNCHANGED pcp, ~cruce'
  PROVE  Sola'
<1>1. /\ fase["io"] = "libre" /\ Llamar("io", "IO", t) /\ t \in dormidos
      /\ dormidos' = dormidos \ {t} /\ UNCHANGED <<lista, cpu, dispKC, intCK>>
  BY DEF IoDespierta, cpuVars
<1>2. Buscadores = {"dispatch", "interrupt", "io"}
  BY DEF Buscadores
<1>3. /\ UnaBusqueda' /\ fase'["io"] = "busca" /\ busca'["io"].tid = t
      /\ \A c \in Buscadores \ {"io"} :
           ~Buscando(c) /\ fase'[c] = fase[c] /\ busca'[c] = busca[c]
  BY <1>1, <1>2, UnaSolaLlamada
<1>4. (YaSaco' <=> YaSaco) /\ (Buscando("interrupt")' <=> Buscando("interrupt"))
  BY <1>2, <1>3 DEF YaSaco, Buscando
<1>5. \A x : Tiene(x)' => Tiene(x)
  BY <1>1, <1>4 DEF Tiene
<1>6. UnTurno' /\ EnSuLugar'
  BY <1>1, <1>2, <1>3, <1>5, TurnosQuedan DEF Sola
<1>7. EnLista(lista["blocked"], t) /\ \A u \in dormidos : EnLista(lista["blocked"], u)
  BY <1>1 DEF Sola, Durmiendo
<1>8. fase["dispatch"] = "cierra" /\ busca["dispatch"].op = "IO" =>
        /\ EnLista(lista["blocked"], busca["dispatch"].tid)
        /\ busca["dispatch"].tid \notin dormidos
  BY DEF Sola, Durmiendo
<1>9. fase'["dispatch"] = fase["dispatch"] /\ busca'["dispatch"] = busca["dispatch"]
  BY <1>2, <1>3
<1>10. /\ \A u \in dormidos' : EnLista(lista'["blocked"], u)
       /\ EnLista(lista'["blocked"], busca'["io"].tid) /\ busca'["io"].tid \notin dormidos'
  BY <1>1, <1>3, <1>7
<1>11. fase'["dispatch"] = "cierra" /\ busca'["dispatch"].op = "IO" =>
         /\ EnLista(lista'["blocked"], busca'["dispatch"].tid)
         /\ busca'["dispatch"].tid \notin dormidos'
         /\ busca'["io"].tid # busca'["dispatch"].tid
  BY <1>1, <1>3, <1>8, <1>9
<1>12. Durmiendo'
  BY <1>10, <1>11 DEF Durmiendo
<1> QED
  BY <1>3, <1>6, <1>12 DEF Sola

\* A handler leaves its TCB in READY.
LEMMA SolaAReady ==
  ASSUME Base, Lugar, Sola, NEW b \in {"interrupt", "io"}, Agregar(b, "ready"), UNCHANGED pcp
  PROVE  Sola'
<1>1. /\ b \in Buscadores /\ b # "dispatch" /\ "dispatch" \in Buscadores
      /\ {"interrupt", "io"} \subseteq Buscadores
  BY DEF Buscadores
<1>2. /\ fase[b] = "mano" /\ fase' = [fase EXCEPT ![b] = "cierra"]
      /\ UNCHANGED <<paso, busca, tidABuscar, dormidos, cpu, dispKC, intCK>>
  BY DEF Agregar, En, cpuVars
<1>3. busca[b].op # "THREAD_CREATE"
  BY <1>1 DEF Base, UnaAtencion
<1>4. \A f \in Estados \ {"ready"} : lista'[f] = lista[f]
  BY <1>1, <1>3, LugarAlAgregar
<1>5. lista'["exec"] = lista["exec"] /\ lista'["blocked"] = lista["blocked"]
  BY <1>4, SonEstados
<1>6. \A c \in Buscadores : fase'[c] = IF c = b THEN "cierra" ELSE fase[c]
  BY <1>1, <1>2, FasesBien
<1>7. \A c \in Buscadores : Buscando(c)' <=> Buscando(c)
  BY <1>2, <1>6 DEF Buscando
<1>8. Sana(b)'
  <2>1. Sana(b)
    BY <1>1 DEF Sola, UnaBusqueda
  <2> QED
    BY <1>1, <1>2, <1>6, <2>1 DEF Sana, Buscando
<1>9. UnaBusqueda'
  BY <1>1, <1>2, <1>8, BusquedaDeUno DEF Sola
<1>10. YaSaco' <=> YaSaco
  BY <1>1, <1>2, <1>6 DEF YaSaco
<1>11. \A x : Tiene(x)' => Tiene(x)
  BY <1>1, <1>2, <1>7, <1>10 DEF Tiene
<1>12. UnTurno' /\ EnSuLugar'
  BY <1>2, <1>5, <1>11, TurnosQuedan DEF Sola
<1>13. Durmiendo'
  BY <1>1, <1>2, <1>5, <1>6, <1>7, DurmiendoQuieto DEF Sola
<1> QED
  BY <1>9, <1>12, <1>13 DEF Sola

\* bloquear_hilo_syscall leaves its TCB in BLOCKED.
LEMMA SolaABlocked ==
  ASSUME Base, Lugar, Sola, DispatchBloquea, UNCHANGED pcp
  PROVE  Sola'
<1>1. "dispatch" \in Buscadores /\ {"interrupt", "io"} \subseteq Buscadores
  BY DEF Buscadores
<1>2. /\ fase["dispatch"] = "mano" /\ fase' = [fase EXCEPT !["dispatch"] = "cierra"]
      /\ busca["dispatch"].op = "IO" /\ Agregar("dispatch", "blocked")
      /\ UNCHANGED <<paso, busca, tidABuscar, dormidos, cpu, dispKC, intCK>>
  BY DEF DispatchBloquea, Agregar, En, cpuVars
<1>3. PICK u : u = busca["dispatch"].tcb
  OBVIOUS
<1>4. Sana("dispatch")
  BY <1>1 DEF Sola, UnaBusqueda
<1>5. u = busca["dispatch"].tid
  BY <1>2, <1>3, <1>4 DEF Sana
<1>6. /\ u \in Hilos /\ EnMano("dispatch", u)
      /\ \A t : EnLista(lista'["blocked"], t) <=> EnLista(lista["blocked"], t) \/ t = u
      /\ \A f \in Estados \ {"blocked"} : lista'[f] = lista[f]
  <2>1. busca["dispatch"].op # "THREAD_CREATE"
    BY <1>2
  <2> QED
    BY <1>1, <1>2, <1>3, <2>1, LugarAlAgregar
<1>7. lista'["exec"] = lista["exec"] /\ ~EnLista(lista["blocked"], u)
  BY <1>1, <1>6, SonEstados DEF Lugar, ListaOMano
<1>8. \A c \in Buscadores : fase'[c] = IF c = "dispatch" THEN "cierra" ELSE fase[c]
  BY <1>1, <1>2, FasesBien
<1>9. \A c \in Buscadores : Buscando(c)' <=> Buscando(c)
  BY <1>2, <1>8 DEF Buscando
<1>10. Sana("dispatch")'
  BY <1>1, <1>2, <1>4, <1>8 DEF Sana, Buscando
<1>11. UnaBusqueda'
  BY <1>1, <1>2, <1>10, BusquedaDeUno DEF Sola
<1>12. YaSaco' <=> YaSaco
  BY <1>1, <1>2, <1>8 DEF YaSaco
<1>13. \A x : Tiene(x)' => Tiene(x)
  BY <1>1, <1>2, <1>9, <1>12 DEF Tiene
<1>14. UnTurno' /\ EnSuLugar'
  BY <1>2, <1>7, <1>13, TurnosQuedan DEF Sola
<1>15. u \notin dormidos /\ (Buscando("io") => busca["io"].tid # u)
  BY <1>7 DEF Sola, Durmiendo
<1>16. Durmiendo'
  <2>1. \A t \in dormidos' : EnLista(lista'["blocked"], t)
    BY <1>2, <1>6 DEF Sola, Durmiendo
  <2>2. Buscando("io")' => /\ EnLista(lista'["blocked"], busca'["io"].tid)
                           /\ busca'["io"].tid \notin dormidos'
    BY <1>1, <1>2, <1>6, <1>9 DEF Sola, Durmiendo
  <2>3. /\ EnLista(lista'["blocked"], busca'["dispatch"].tid)
        /\ busca'["dispatch"].tid \notin dormidos'
        /\ Buscando("io")' => busca'["io"].tid # busca'["dispatch"].tid
    BY <1>1, <1>2, <1>5, <1>6, <1>9, <1>15
  <2> QED
    BY <2>1, <2>2, <2>3 DEF Durmiendo
<1> QED
  BY <1>11, <1>14, <1>16 DEF Sola

\* THREAD_CREATE neither searches nor touches EXEC and BLOCKED.
LEMMA SolaThreadCreate ==
  ASSUME Base, Sola, DispatchThreadCreate, UNCHANGED pcp
  PROVE  Sola'
<1> DEFINE r == [EnReposo EXCEPT !.op = "THREAD_CREATE", !.tcb = proxTid]
<1>1. /\ fase["dispatch"] = "libre" /\ fase' = [fase EXCEPT !["dispatch"] = "mano"]
      /\ busca' = [busca EXCEPT !["dispatch"] = r]
      /\ UNCHANGED <<lista, paso, tidABuscar, dormidos, cpu, dispKC, intCK>>
  BY DEF DispatchThreadCreate, Recibe, En
<1>2. "dispatch" \in Buscadores /\ {"interrupt", "io"} \subseteq Buscadores \ {"dispatch"}
  BY DEF Buscadores
<1>3. r.op = "THREAD_CREATE"
  BY DEF EnReposo
<1> HIDE DEF r
<1>4. /\ busca'["dispatch"].op = "THREAD_CREATE" /\ fase'["dispatch"] = "mano"
      /\ \A c \in Buscadores \ {"dispatch"} : busca'[c] = busca[c] /\ fase'[c] = fase[c]
  BY <1>1, <1>2, <1>3, FasesBien
<1>5. Sana("dispatch")'
  BY <1>4 DEF Sana, Buscando
<1>6. UnaBusqueda'
  BY <1>1, <1>2, <1>4, <1>5, BusquedaDeUno DEF Sola
<1>7. ~YaSaco' /\ ~YaSaco
  BY <1>1, <1>4 DEF YaSaco
<1>8. \A c \in {"interrupt", "io"} : Buscando(c)' <=> Buscando(c)
  BY <1>2, <1>4 DEF Buscando
<1>9. \A x : Tiene(x)' => Tiene(x)
  BY <1>1, <1>7, <1>8 DEF Tiene
<1>10. UnTurno' /\ EnSuLugar'
  BY <1>1, <1>2, <1>4, <1>9, TurnosQuedan DEF Sola
<1>11. Durmiendo'
  BY <1>1, <1>2, <1>4, <1>8, DurmiendoQuieto DEF Sola
<1> QED
  BY <1>6, <1>10, <1>11 DEF Sola

LEMMA SolaCrea ==
  ASSUME Base, Lugar, Sola, DispatchCrea, UNCHANGED pcp
  PROVE  Sola'
<1>1. /\ fase["dispatch"] = "mano" /\ fase' = [fase EXCEPT !["dispatch"] = "cierra"]
      /\ busca["dispatch"].op = "THREAD_CREATE"
      /\ UNCHANGED <<busca, paso, tidABuscar, dormidos, cpu, dispKC, intCK>>
  BY DEF DispatchCrea, En, cpuVars
<1>2. "dispatch" \in Buscadores /\ {"interrupt", "io"} \subseteq Buscadores \ {"dispatch"}
  BY DEF Buscadores
<1>3. lista'["exec"] = lista["exec"] /\ lista'["blocked"] = lista["blocked"]
  BY LugarAlCrear, SonEstados
<1>4. \A c \in Buscadores : fase'[c] = IF c = "dispatch" THEN "cierra" ELSE fase[c]
  BY <1>1, <1>2, FasesBien
<1>5. Sana("dispatch")'
  BY <1>1, <1>2, <1>4 DEF Sana, Buscando
<1>6. UnaBusqueda'
  BY <1>1, <1>2, <1>5, BusquedaDeUno DEF Sola
<1>7. ~YaSaco' /\ ~YaSaco
  BY <1>1 DEF YaSaco
<1>8. \A c \in {"interrupt", "io"} : Buscando(c)' <=> Buscando(c)
  BY <1>2, <1>4 DEF Buscando
<1>9. \A x : Tiene(x)' => Tiene(x)
  BY <1>1, <1>7, <1>8 DEF Tiene
<1>10. UnTurno' /\ EnSuLugar'
  BY <1>1, <1>3, <1>9, TurnosQuedan DEF Sola
<1>11. busca'["dispatch"].op # "IO"
  BY <1>1
<1>12. Durmiendo'
  BY <1>1, <1>3, <1>8, <1>11, DurmiendoQuieto DEF Sola
<1> QED
  BY <1>6, <1>10, <1>12 DEF Sola

\* The answer to the CPU: the thread of IO goes to sleep, that of THREAD_CREATE
\* goes on with its turn.
LEMMA SolaAvisa ==
  ASSUME Base, Sola, DispatchAvisa, UNCHANGED pcp
  PROVE  Sola'
<1>1. /\ fase["dispatch"] = "cierra" /\ fase' = [fase EXCEPT !["dispatch"] = "libre"]
      /\ busca' = [busca EXCEPT !["dispatch"] = EnReposo]
      /\ UNCHANGED <<lista, paso, tidABuscar, dispKC, intCK>>
  BY DEF DispatchAvisa, En
<1>2. "dispatch" \in Buscadores /\ {"interrupt", "io"} \subseteq Buscadores \ {"dispatch"}
  BY DEF Buscadores
<1>3. /\ busca'["dispatch"] = EnReposo /\ fase'["dispatch"] = "libre"
      /\ \A c \in Buscadores \ {"dispatch"} : busca'[c] = busca[c] /\ fase'[c] = fase[c]
  BY <1>1, <1>2, FasesBien
<1>4. Sana("dispatch")'
  BY <1>3 DEF Sana, Buscando
<1>5. UnaBusqueda'
  BY <1>1, <1>2, <1>3, <1>4, BusquedaDeUno DEF Sola
<1>6. \A c \in {"interrupt", "io"} : Buscando(c)' <=> Buscando(c)
  BY <1>2, <1>3 DEF Buscando
<1>7. cpu.fase = "pide" /\ cpu \in Cpus
  BY <1>1, FasesBien DEF Base, UnPedido
<1>8. CASE busca["dispatch"].op = "IO"
  <2>1. cpu' = [cpu EXCEPT !.fase = "bloqueada"]
        /\ dormidos' = dormidos \cup {busca["dispatch"].tid}
    BY <1>8 DEF DispatchAvisa
  <2>2. cpu'.fase = "bloqueada"
    BY <1>7, <2>1 DEF Cpus
  <2>3. \A x : Tiene(x)' => Tiene(x) /\ x # "cpu"
    BY <1>1, <1>6, <2>2 DEF Tiene
  <2>4. ~Tiene("cpu")'
    BY <2>3
  <2>5. UnTurno' /\ EnSuLugar'
    BY <1>1, <1>2, <1>3, <2>3, <2>4, TurnosQuedan DEF Sola
  <2>6. /\ \A t \in dormidos : EnLista(lista["blocked"], t)
        /\ EnLista(lista["blocked"], busca["dispatch"].tid)
        /\ Buscando("io") => /\ EnLista(lista["blocked"], busca["io"].tid)
                             /\ busca["io"].tid \notin dormidos
                             /\ busca["io"].tid # busca["dispatch"].tid
    BY <1>1, <1>8 DEF Sola, Durmiendo
  <2>7. Durmiendo'
    BY <1>1, <1>2, <1>3, <1>6, <2>1, <2>6 DEF Durmiendo
  <2> QED
    BY <1>5, <2>5, <2>7 DEF Sola
<1>9. CASE busca["dispatch"].op # "IO"
  <2>1. cpu' = [cpu EXCEPT !.fase = "ejecuta"] /\ dormidos' = dormidos
    BY <1>9 DEF DispatchAvisa
  <2>2. cpu'.fase = "ejecuta" /\ cpu'.tid = cpu.tid
    BY <1>7, <2>1 DEF Cpus
  <2>3. ~YaSaco
    BY <1>9 DEF YaSaco
  <2>4. \A x : Tiene(x)' => Tiene(x)
    BY <1>1, <1>6, <1>7, <2>2, <2>3 DEF Tiene
  <2>5. UnTurno' /\ EnSuLugar'
    BY <1>1, <1>2, <1>3, <2>2, <2>4, TurnosQuedan DEF Sola
  <2>6. Durmiendo'
    BY <1>1, <1>2, <1>3, <1>6, <2>1, DurmiendoQuieto DEF Sola
  <2> QED
    BY <1>5, <2>5, <2>6 DEF Sola
<1> QED
  BY <1>8, <1>9

\* The handlers of the eviction and of the end of IO leave.
LEMMA SolaPostea ==
  ASSUME Base, Sola, NEW b \in {"interrupt", "io"}, fase[b] = "cierra", En(b, "libre"),
         busca' = [busca EXCEPT ![b] = EnReposo],
         UNCHANGED <<lista, paso, tidABuscar, dormidos, cpu, dispKC, intCK, pcp>>
  PROVE  Sola'
<1>1. b \in Buscadores \ {"dispatch"} /\ Buscadores = {"dispatch", "interrupt", "io"}
  BY DEF Buscadores
<1>2. fase' = [fase EXCEPT ![b] = "libre"]
  BY DEF En
<1>3. /\ busca'[b] = EnReposo /\ fase'[b] = "libre"
      /\ \A c \in Buscadores \ {b} : busca'[c] = busca[c] /\ fase'[c] = fase[c]
  BY <1>1, <1>2, FasesBien
<1>4. Sana(b)'
  BY <1>3 DEF Sana, Buscando
<1>5. UnaBusqueda'
  BY <1>1, <1>2, <1>3, <1>4, BusquedaDeUno DEF Sola
<1>6. \A c \in Buscadores : Buscando(c)' => Buscando(c) /\ busca'[c] = busca[c]
  BY <1>3 DEF Buscando
<1>7. fase'["dispatch"] = fase["dispatch"] /\ busca'["dispatch"] = busca["dispatch"]
  BY <1>1, <1>3
<1>8. YaSaco' <=> YaSaco
  BY <1>7 DEF YaSaco
<1>9. \A x : Tiene(x)' => Tiene(x)
  BY <1>1, <1>6, <1>8 DEF Tiene
<1>10. UnTurno' /\ EnSuLugar'
  BY <1>1, <1>6, <1>9, TurnosQuedan DEF Sola
<1>11. Durmiendo'
  BY <1>1, <1>6, <1>7, DurmiendoQuieto DEF Sola
<1> QED
  BY <1>5, <1>10, <1>11 DEF Sola

LEMMA SolaManejadores ==
  ASSUME Base, Lugar, Sola, Manejador(Dispatch) \/ Manejador(Interrupt) \/ Manejador(Io), ~cruce'
  PROVE  Sola'
<1>1. UNCHANGED pcp /\ (Dispatch \/ Interrupt \/ Io)
  BY ManejadorQuieto
<1>2. Buscadores = {"dispatch", "interrupt", "io"}
  BY DEF Buscadores
<1>3. CASE \E b \in Buscadores : Buscar(b)
  <2>1. PICK b \in Buscadores : Buscar(b)
    BY <1>3
  <2>2. UNCHANGED <<proxTid, pcp, dormidos, cpu, dispKC, intCK>>
    BY <1>1, <2>1 DEF Buscar, cpuVars
  <2> QED
    BY <2>1, <2>2, SolaMirar, SolaSacar DEF Buscar
<1>4. CASE DispatchDesalojoSyscall
  <2>1. UNCHANGED <<lista, fase, paso, busca, tidABuscar, dormidos, cpu, dispKC, intCK, pcp>>
    BY <1>1, <1>4 DEF DispatchDesalojoSyscall, Recibe, buscaVars
  <2> QED
    BY <2>1, SolaQuieta
<1>5. CASE InterruptPostea
  <2>1. /\ fase["interrupt"] = "cierra" /\ En("interrupt", "libre")
        /\ busca' = [busca EXCEPT !["interrupt"] = EnReposo]
        /\ UNCHANGED <<lista, paso, tidABuscar, dormidos, cpu, dispKC, intCK, pcp>>
    BY <1>1, <1>5 DEF InterruptPostea, cpuVars
  <2> QED
    BY <2>1, SolaPostea
<1>6. CASE IoPostea
  <2>1. /\ fase["io"] = "cierra" /\ En("io", "libre")
        /\ busca' = [busca EXCEPT !["io"] = EnReposo]
        /\ UNCHANGED <<lista, paso, tidABuscar, dormidos, cpu, dispKC, intCK, pcp>>
    BY <1>1, <1>6 DEF IoPostea, cpuVars
  <2> QED
    BY <2>1, SolaPostea
<1>7. CASE \E t \in Hilos : IoDespierta(t)
  BY <1>1, <1>7, SolaDespierta
<1>8. CASE Agregar("interrupt", "ready") \/ Agregar("io", "ready")
  BY <1>1, <1>8, SolaAReady
<1> QED
  BY <1>1, <1>2, <1>3, <1>4, <1>5, <1>6, <1>7, <1>8, SolaIo, SolaInterrupt, SolaABlocked,
     SolaThreadCreate, SolaCrea, SolaAvisa DEF Dispatch, Interrupt, Io

\* Once two searches have overlapped the mark stays.
LEMMA CruceQueda ==
  ASSUME Next, ~cruce'
  PROVE  ~cruce
<1>1. UNCHANGED cruce \/ \E b, o, t : Llamar(b, o, t)
  <2>1. CASE Pcp \/ Gestor \/ Cpu \/ \E k \in 1..MaxTickets : Timer(k)
    BY <2>1 DEF Pcp, Gestor, Cpu, Timer, buscaVars
  <2>2. CASE Manejador(Dispatch) \/ Manejador(Interrupt) \/ Manejador(Io)
    <3>1. Dispatch \/ Interrupt \/ Io
      BY <2>2, ManejadorQuieto
    <3>2. \A b : Buscar(b) => UNCHANGED cruce
      BY DEF Buscar, Mirar, Sacar
    <3>3. \A b, e : Agregar(b, e) => UNCHANGED cruce
      BY DEF Agregar
    <3>4. DispatchIo \/ InterruptRecibe \/ (\E t \in Hilos : IoDespierta(t)) =>
            \E b, o, t : Llamar(b, o, t)
      BY DEF DispatchIo, InterruptRecibe, IoDespierta
    <3>5. DispatchDesalojoSyscall \/ DispatchThreadCreate \/ DispatchCrea \/ DispatchAvisa
          \/ InterruptPostea \/ IoPostea => UNCHANGED cruce
      BY DEF DispatchDesalojoSyscall, DispatchThreadCreate, DispatchCrea, DispatchAvisa,
             InterruptPostea, IoPostea, buscaVars
    <3> QED
      BY <3>1, <3>2, <3>3, <3>4, <3>5 DEF Dispatch, Interrupt, Io, DispatchBloquea
  <2> QED
    BY <2>1, <2>2 DEF Next
<1> QED
  BY <1>1 DEF Llamar

LEMMA SolaSiempre == Spec => [](~cruce => Sola)
<1>1. Init => Sola
  <2> SUFFICES ASSUME Init  PROVE Sola
    OBVIOUS
  <2>1. /\ \A b \in Buscadores : fase[b] = "libre"
        /\ dormidos = {} /\ dispKC = <<>> /\ intCK = <<>> /\ pcp = "espera" /\ cpu = CpuLibre
    BY DEF Init
  <2>2. \A b \in Buscadores : ~Buscando(b) /\ Sana(b)
    BY <2>1 DEF Buscando, Sana
  <2>3. /\ "interrupt" \in Buscadores /\ "io" \in Buscadores /\ "dispatch" \in Buscadores
        /\ cpu.fase = "libre"
    BY <2>1 DEF Buscadores, CpuLibre
  <2>4. \A x : ~Tiene(x)
    BY <2>1, <2>2, <2>3 DEF Tiene
  <2>5. UnTurno /\ EnSuLugar
    BY <2>1, <2>2, <2>3, <2>4 DEF UnTurno, EnSuLugar
  <2>6. UnaBusqueda
    BY <2>2 DEF UnaBusqueda
  <2>7. Durmiendo
    BY <2>1, <2>2, <2>3 DEF Durmiendo
  <2> QED
    BY <2>5, <2>6, <2>7 DEF Sola
<1>2. Base /\ Lugar /\ (~cruce => Sola) /\ Next => (~cruce => Sola)'
  <2> SUFFICES ASSUME Base, Lugar, ~cruce => Sola, Next, ~cruce'  PROVE Sola'
    OBVIOUS
  <2>1. Sola
    BY CruceQueda
  <2>2. CASE Gestor \/ \E k \in 1..MaxTickets : Timer(k)
    <3>1. UNCHANGED <<lista, fase, paso, busca, tidABuscar, dormidos, cpu, dispKC, intCK, pcp>>
      BY <2>2 DEF Gestor, Timer, buscaVars, pcpVars, cpuVars
    <3> QED
      BY <2>1, <3>1, SolaQuieta
  <2> QED
    BY <2>1, <2>2, SolaPcp, SolaCpu, SolaManejadores DEF Next
<1>3. (~cruce => Sola) /\ UNCHANGED vars => (~cruce => Sola)'
  <2> SUFFICES ASSUME Sola, UNCHANGED vars  PROVE Sola'
    BY DEF vars, buscaVars
  <2>1. UNCHANGED <<lista, fase, paso, busca, tidABuscar, dormidos, cpu, dispKC, intCK, pcp>>
    BY DEF vars, buscaVars, pcpVars, cpuVars
  <2> QED
    BY <2>1, SolaQuieta
<1> QED
  BY <1>1, <1>2, <1>3, BaseSiempre, LugarSiempre, PTL DEF Spec

\* As long as no two searches of buscar_y_remover_tcb_por_tid have overlapped,
\* each one finds the TCB its caller named, wherever the other threads of the
\* kernel have put it.
THEOREM BusquedasAcertadas == Spec => []BusquedaSola
<1>1. (~cruce => Sola) => BusquedaSola
  BY DEF BusquedaSola, Sola, UnaBusqueda, Sana
<1> QED
  BY <1>1, SolaSiempre, PTL
=============================================================================
