------------------------------ MODULE Hilos_proofs ------------------------------
(***************************************************************************)
(* Mutual exclusion of the user mutexes, the lists that agree with the     *)
(* states and what the blocked threads wait for, for any number of threads *)
(* and any set of mutexes.                                                 *)
(***************************************************************************)
EXTENDS Hilos, Listas_proofs, FiniteSetTheorems, TLAPS

Mutex == [existe : BOOLEAN, libre : BOOLEAN, thread : Tids, bloqueados : Seq(Tids)]

TipoMutexes ==
  /\ mutexes \in [Mutexes -> Mutex]
  /\ adentro \in [Mutexes -> SUBSET Tids]

\* What MutexExclusivo needs to be inductive: only the thread the mutex names
\* may believe it is inside, and a free mutex has neither holder nor waiters
\* (so that tid 0, which the code takes for the owner of a free mutex, hands
\* nothing over when it unlocks one).
Duenios ==
  \A m \in Mutexes :
    /\ adentro[m] \subseteq {mutexes[m].thread}
    /\ mutexes[m].libre => adentro[m] = {} /\ mutexes[m].bloqueados = <<>>

Inductivo == TipoMutexes /\ Duenios

LEMMA CeroEsTid == 0 \in Tids
BY HilosConstantes DEF Tids

\* Threads that leave their mutexes (they end) leave the invariant as it was.
LEMMA Salen ==
  ASSUME Inductivo, UNCHANGED mutexes,
         adentro' \in [Mutexes -> SUBSET Tids],
         \A m \in Mutexes : adentro'[m] \subseteq adentro[m]
  PROVE  Inductivo'
BY DEF Inductivo, TipoMutexes, Duenios

\* finalizar_hilo only takes threads out.
LEMMA FinalizarSale ==
  ASSUME Inductivo, NEW h \in Tids, Finalizar(h), UNCHANGED mutexes
  PROVE  Inductivo'
<1>1. adentro' = [m \in Mutexes |-> adentro[m] \ {h}]
  BY DEF Finalizar
<1> QED
  BY <1>1, Salen DEF Inductivo, TipoMutexes

\* A step that changes one mutex, to r, and who is inside it, to dentro.
LEMMA CambiaUno ==
  ASSUME Inductivo, NEW m \in Mutexes, NEW r \in Mutex, NEW dentro \in SUBSET Tids,
         mutexes' = [mutexes EXCEPT ![m] = r],
         adentro' = [adentro EXCEPT ![m] = dentro],
         dentro \subseteq {r.thread},
         r.libre => dentro = {} /\ r.bloqueados = <<>>
  PROVE  Inductivo'
<1>1. TipoMutexes'
  BY DEF Inductivo, TipoMutexes
<1>2. mutexes'[m] = r /\ adentro'[m] = dentro
  BY DEF Inductivo, TipoMutexes
<1>3. \A n \in Mutexes \ {m} : mutexes'[n] = mutexes[n] /\ adentro'[n] = adentro[n]
  BY DEF Inductivo, TipoMutexes
<1>4. Duenios'
  BY <1>2, <1>3 DEF Inductivo, Duenios
<1> QED
  BY <1>1, <1>4 DEF Inductivo

\* The steps of a mutex.
LEMMA MutexSigue ==
  ASSUME Inductivo, NEW h \in Tids, NEW m \in Mutexes, PasoMutex(h, m)
  PROVE  Inductivo'
<1> DEFINE viejo == mutexes[m]
<1>0. /\ viejo \in Mutex
      /\ adentro \in [Mutexes -> SUBSET Tids]
      /\ adentro[m] \subseteq {viejo.thread}
      /\ viejo.libre => adentro[m] = {} /\ viejo.bloqueados = <<>>
  BY DEF Inductivo, TipoMutexes, Duenios
<1>1. CASE MutexCreate(h, m)
  <2> DEFINE r == [viejo EXCEPT !.existe = TRUE]
  <2>1. mutexes' = [mutexes EXCEPT ![m] = r] /\ adentro' = [adentro EXCEPT ![m] = adentro[m]]
    BY <1>0, <1>1 DEF MutexCreate
  <2>2. /\ r \in Mutex /\ r.thread = viejo.thread
        /\ r.libre = viejo.libre /\ r.bloqueados = viejo.bloqueados
    BY <1>0 DEF Mutex
  <2> QED
    BY <1>0, <2>1, <2>2, CambiaUno
<1>2. CASE MutexLockLibre(h, m)
  <2> DEFINE r == [viejo EXCEPT !.libre = FALSE, !.thread = h]
  <2>1. /\ mutexes' = [mutexes EXCEPT ![m] = r] /\ viejo.libre
        /\ adentro' = [adentro EXCEPT ![m] = adentro[m] \cup {h}]
    BY <1>2 DEF MutexLockLibre
  <2>2. r \in Mutex /\ r.thread = h /\ r.libre = FALSE
    BY <1>0 DEF Mutex
  <2>3. adentro[m] \cup {h} = {h}
    BY <1>0, <2>1
  <2> QED
    BY <2>1, <2>2, <2>3, CambiaUno
<1>3. CASE MutexLockOcupado(h, m)
  <2> DEFINE r == [viejo EXCEPT !.bloqueados = Append(viejo.bloqueados, h)]
  <2>1. /\ mutexes' = [mutexes EXCEPT ![m] = r] /\ ~viejo.libre
        /\ adentro' = [adentro EXCEPT ![m] = adentro[m]]
    BY <1>0, <1>3 DEF MutexLockOcupado
  <2>2. r \in Mutex /\ r.thread = viejo.thread /\ r.libre = viejo.libre
    BY <1>0, SMTT(30) DEF Mutex
  <2> QED
    BY <1>0, <2>1, <2>2, CambiaUno
<1>4. CASE MutexLockInexistente(h, m)
  BY <1>4, FinalizarSale DEF MutexLockInexistente
<1>5. CASE MutexUnlockEntrega(h, m)
  <2> DEFINE w == Head(viejo.bloqueados)
             r == [viejo EXCEPT !.thread = w, !.bloqueados = Tail(viejo.bloqueados)]
  <2>1. /\ viejo.thread = h /\ viejo.bloqueados # <<>>
        /\ mutexes' = [mutexes EXCEPT ![m] = r]
        /\ adentro' = [adentro EXCEPT ![m] = (adentro[m] \ {h}) \cup {w}]
    BY <1>5 DEF MutexUnlockEntrega
  <2>2. w \in Tids /\ Tail(viejo.bloqueados) \in Seq(Tids)
    BY <1>0, <2>1 DEF Mutex
  <2>3. r \in Mutex /\ r.thread = w /\ r.libre = viejo.libre
    BY <1>0, <2>2 DEF Mutex
  <2>4. (adentro[m] \ {h}) \cup {w} = {w} /\ ~viejo.libre
    BY <1>0, <2>1
  <2> HIDE DEF w, r
  <2>5. adentro' = [adentro EXCEPT ![m] = {w}] /\ {w} \in SUBSET Tids
    BY <2>1, <2>2, <2>4
  <2>6. {w} \subseteq {r.thread} /\ (r.libre => {w} = {} /\ r.bloqueados = <<>>)
    BY <2>3, <2>4
  <2> QED
    BY <2>1, <2>3, <2>5, <2>6, CambiaUno
<1>6. CASE MutexUnlockLibera(h, m)
  <2> DEFINE r == [viejo EXCEPT !.thread = 0, !.libre = TRUE]
  <2>1. /\ viejo.thread = h /\ viejo.bloqueados = <<>>
        /\ mutexes' = [mutexes EXCEPT ![m] = r]
        /\ adentro' = [adentro EXCEPT ![m] = adentro[m] \ {h}]
    BY <1>6 DEF MutexUnlockLibera
  <2>2. r \in Mutex /\ r.thread = 0 /\ r.bloqueados = viejo.bloqueados
    BY <1>0, CeroEsTid DEF Mutex
  <2>3. adentro[m] \ {h} = {}
    BY <1>0, <2>1
  <2> QED
    BY <2>1, <2>2, <2>3, CambiaUno
<1>7. CASE MutexUnlockInexistente(h, m)
  BY <1>7 DEF MutexUnlockInexistente, Caer, Inductivo, TipoMutexes, Duenios
<1> QED
  BY <1>1, <1>2, <1>3, <1>4, <1>5, <1>6, <1>7 DEF PasoMutex

\* Joins and cancels.
LEMMA EntreHilosSigue ==
  ASSUME Inductivo, NEW h \in Tids, NEW g \in Tids, PasoEntreHilos(h, g)
  PROVE  Inductivo'
<1>1. CASE ThreadCancel(h, g) /\ g \in conContexto
  BY <1>1, FinalizarSale DEF ThreadCancel
<1>2. CASE \/ ThreadJoin(h, g) \/ ThreadJoinDestruida(h, g) \/ TidInexistente(h, g)
           \/ ThreadCancel(h, g) /\ g \notin conContexto
  <2>1. UNCHANGED <<mutexes, adentro>>
    BY <1>2 DEF ThreadJoin, ThreadJoinDestruida, TidInexistente, ThreadCancel, Caer, CaerMemoria
  <2> QED
    BY <2>1 DEF Inductivo, TipoMutexes, Duenios
<1> QED
  BY <1>1, <1>2 DEF PasoEntreHilos

\* What a thread does without naming another or a mutex.
LEMMA HiloSigue ==
  ASSUME Inductivo, NEW h \in Tids, PasoHilo(h)
  PROVE  Inductivo'
<1>1. CASE ThreadExit(h) \/ ThreadCancelPropio(h)
  BY <1>1, FinalizarSale DEF ThreadExit, ThreadCancelPropio
<1>2. CASE Despachar(h) \/ Desalojar(h) \/ ThreadCreate(h) \/ Io(h) \/ IoTermina(h)
  <2>1. UNCHANGED <<mutexes, adentro>>
    BY <1>2 DEF Despachar, Desalojar, ThreadCreate, Io, IoTermina, Caer
  <2> QED
    BY <2>1 DEF Inductivo, TipoMutexes, Duenios
<1> QED
  BY <1>1, <1>2 DEF PasoHilo

LEMMA SalidaSigue ==
  ASSUME Inductivo, ProcessExit
  PROVE  Inductivo'
<1>1. adentro' = [m \in Mutexes |-> {}] /\ UNCHANGED mutexes
  BY DEF ProcessExit
<1> QED
  BY <1>1, Salen DEF Inductivo, TipoMutexes

LEMMA CruceSigue ==
  ASSUME Inductivo, BusquedasCruzadas
  PROVE  Inductivo'
BY DEF BusquedasCruzadas, Inductivo, TipoMutexes, Duenios

\* One thread at most, and it is the one the mutex names.
LEMMA Exclusivo ==
  ASSUME Inductivo
  PROVE  MutexExclusivo
<1> SUFFICES ASSUME NEW m \in Mutexes
             PROVE  /\ Cardinality(adentro[m]) <= 1
                    /\ adentro[m] # {} => ~mutexes[m].libre /\ mutexes[m].thread \in adentro[m]
  BY DEF MutexExclusivo
<1>1. adentro[m] = {} \/ adentro[m] = {mutexes[m].thread}
  BY DEF Inductivo, Duenios
<1>2. Cardinality({}) = 0 /\ Cardinality({mutexes[m].thread}) = 1
  BY FS_EmptySet, FS_Singleton, Zenon
<1>3. Cardinality(adentro[m]) <= 1
  BY <1>1, <1>2
<1>4. mutexes[m].libre => adentro[m] = {}
  BY DEF Inductivo, Duenios
<1> QED
  BY <1>1, <1>3, <1>4

\* A user mutex is never held by two threads: whatever the locks, hand-overs
\* of mutex_unlock, evictions, cancels, exits and ends of IO of any number of
\* threads, and although a free mutex names tid 0 as its owner.
THEOREM ExclusionMutua == Spec => []MutexExclusivo
<1>1. Init => Inductivo
  BY CeroEsTid DEF Init, Inductivo, TipoMutexes, Duenios, Mutex
<1>2. Inductivo /\ [Next]_vars => Inductivo'
  <2>1. ASSUME Inductivo, Next  PROVE Inductivo'
    BY <2>1, HiloSigue, MutexSigue, EntreHilosSigue, SalidaSigue, CruceSigue DEF Next
  <2>2. ASSUME Inductivo, UNCHANGED vars  PROVE Inductivo'
    BY <2>2 DEF vars, Inductivo, TipoMutexes, Duenios
  <2> QED
    BY <2>1, <2>2
<1>3. Inductivo => MutexExclusivo
  BY Exclusivo
<1> QED
  BY <1>1, <1>2, <1>3, PTL DEF Spec

-----------------------------------------------------------------------------
(* The lists and the states *)

Nombres == {"NADA", "READY", "EXEC", "BLOCKED", "EXIT"}
Cuentas == [ListasDeHilos -> [Tids -> Nat]]

\* What the lists e say of h when its state is x.
DeAcuerdo(e, x, h) ==
  /\ e["ready"][h] = (IF x = "READY" THEN 1 ELSE 0)
  /\ e["exec"][h] = (IF x = "EXEC" THEN 1 ELSE 0)
  /\ x = "BLOCKED" => e["blocked"][h] > 0
  /\ x = "EXIT" => e["exit"][h] > 0

ListasBien == en \in Cuentas /\ estado \in [Tids -> Nombres] /\ EnSuLista

LEMMA Concuerdan ==
  ASSUME en \in Cuentas, estado \in [Tids -> Nombres]
  PROVE  ListasBien <=> \A h \in Tids : DeAcuerdo(en, estado[h], h)
BY DEF ListasBien, EnSuLista, DeAcuerdo

\* A thread that exists is found, in READY or EXEC if its state says so.
LEMMA SeEncuentra ==
  ASSUME ListasBien, NEW h \in Tids, Existe(h)
  PROVE  /\ ListaDe(h) \in ListasDeHilos /\ en[ListaDe(h)][h] > 0
         /\ estado[h] = "READY" => ListaDe(h) = "ready"
         /\ estado[h] = "EXEC" => ListaDe(h) = "exec"
<1> DEFINE esta(i) == en[OrdenDeBusqueda[i]][h] > 0
           k == CHOOSE i \in 1..4 : esta(i) /\ \A j \in 1..(i - 1) : ~esta(j)
<1>1. \A l \in ListasDeHilos : en[l][h] \in Nat
  BY DEF ListasBien, Cuentas
<1>2. /\ OrdenDeBusqueda[1] = "ready" /\ OrdenDeBusqueda[2] = "exec"
      /\ OrdenDeBusqueda[3] = "exit" /\ OrdenDeBusqueda[4] = "blocked"
  BY DEF OrdenDeBusqueda
<1>3. estado[h] \in {"READY", "EXEC", "BLOCKED", "EXIT"}
  BY DEF ListasBien, Existe, Nombres
<1>4. /\ estado[h] = "READY" => esta(1)
      /\ estado[h] = "EXEC" => ~esta(1) /\ esta(2)
      /\ esta(1) \/ esta(2) \/ esta(3) \/ esta(4)
  BY <1>2, <1>3 DEF ListasBien, EnSuLista
<1> HIDE DEF esta
<1>5. \E i \in 1..4 : esta(i) /\ \A j \in 1..(i - 1) : ~esta(j)
  <2>1. CASE esta(1)
    BY <2>1
  <2>2. CASE ~esta(1) /\ esta(2)
    BY <2>2
  <2>3. CASE ~esta(1) /\ ~esta(2) /\ esta(3)
    <3>1. \A j \in 1..(3 - 1) : j = 1 \/ j = 2
      OBVIOUS
    <3> QED
      BY <2>3, <3>1
  <2>4. CASE ~esta(1) /\ ~esta(2) /\ ~esta(3) /\ esta(4)
    <3>1. \A j \in 1..(4 - 1) : j = 1 \/ j = 2 \/ j = 3
      OBVIOUS
    <3> QED
      BY <2>4, <3>1
  <2> QED
    BY <1>4, <2>1, <2>2, <2>3, <2>4
<1>6. k \in 1..4 /\ esta(k) /\ \A j \in 1..(k - 1) : ~esta(j)
  BY <1>5
<1>7. ListaDe(h) = OrdenDeBusqueda[k]
  BY DEF ListaDe, esta
<1> HIDE DEF k
<1>8. k = 1 \/ k = 2 \/ k = 3 \/ k = 4
  BY <1>6
<1>9. /\ estado[h] = "READY" => k = 1
      /\ estado[h] = "EXEC" => k = 2
  <2>1. k > 1 => ~esta(1)
    BY <1>6
  <2>2. k > 2 => ~esta(2)
    BY <1>6
  <2> QED
    BY <1>4, <1>6, <1>8, <2>1, <2>2
<1>10. ListaDe(h) \in ListasDeHilos
  BY <1>2, <1>7, <1>8 DEF ListasDeHilos
<1>11. en[ListaDe(h)][h] > 0
  BY <1>6, <1>7 DEF esta
<1> QED
  BY <1>2, <1>7, <1>9, <1>10, <1>11

\* buscar_y_remover_tcb_por_tid leaves the thread out of READY and EXEC, and
\* the others where they were.
LEMMA SinHiloForma ==
  ASSUME ListasBien, NEW h \in Tids, Existe(h)
  PROVE  /\ SinHilo(en, h) \in Cuentas
         /\ SinHilo(en, h)["ready"][h] = 0 /\ SinHilo(en, h)["exec"][h] = 0
         /\ \A g \in Tids \ {h}, l \in ListasDeHilos : SinHilo(en, h)[l][g] = en[l][g]
<1> DEFINE d == ListaDe(h)
<1>1. /\ d \in ListasDeHilos /\ en[d][h] \in Nat \ {0}
      /\ estado[h] = "READY" => d = "ready"
      /\ estado[h] = "EXEC" => d = "exec"
  BY SeEncuentra DEF ListasBien, Cuentas
<1> HIDE DEF d
<1>2. SinHilo(en, h) = [en EXCEPT ![d] = [en[d] EXCEPT ![h] = en[d][h] - 1]]
  BY <1>1 DEF SinHilo, d
<1>3. en[d][h] - 1 \in Nat
  BY <1>1
<1>4. \A l \in ListasDeHilos, g \in Tids :
        SinHilo(en, h)[l][g] = IF l = d /\ g = h THEN en[d][h] - 1 ELSE en[l][g]
  BY <1>1, <1>2 DEF ListasBien, Cuentas
<1>5. SinHilo(en, h) \in Cuentas
  BY <1>1, <1>2, <1>3 DEF ListasBien, Cuentas
<1>6. /\ en["ready"][h] = (IF estado[h] = "READY" THEN 1 ELSE 0)
      /\ en["exec"][h] = (IF estado[h] = "EXEC" THEN 1 ELSE 0)
  BY DEF ListasBien, EnSuLista
<1>7. "ready" \in ListasDeHilos /\ "exec" \in ListasDeHilos
  BY DEF ListasDeHilos
<1>8. d = "ready" => estado[h] = "READY"
  BY <1>1, <1>6
<1>9. d = "exec" => estado[h] = "EXEC"
  BY <1>1, <1>6
<1>10. SinHilo(en, h)["ready"][h] = 0
  BY <1>1, <1>4, <1>6, <1>7, <1>8
<1>11. SinHilo(en, h)["exec"][h] = 0
  BY <1>1, <1>4, <1>6, <1>7, <1>9
<1> QED
  BY <1>4, <1>5, <1>10, <1>11

LEMMA ConHilosForma ==
  ASSUME NEW e \in Cuentas, NEW l \in ListasDeHilos, NEW hs \in SUBSET Tids
  PROVE  /\ ConHilos(e, l, hs) \in Cuentas
         /\ \A k \in ListasDeHilos, g \in Tids :
              ConHilos(e, l, hs)[k][g] = e[k][g] + (IF k = l /\ g \in hs THEN 1 ELSE 0)
<1> DEFINE r == [h \in Tids |-> e[l][h] + (IF h \in hs THEN 1 ELSE 0)]
<1>1. r \in [Tids -> Nat] /\ \A g \in Tids : r[g] = e[l][g] + (IF g \in hs THEN 1 ELSE 0)
  BY DEF Cuentas
<1>2. ConHilos(e, l, hs) = [e EXCEPT ![l] = r]
  BY DEF ConHilos
<1> HIDE DEF r
<1>3. \A k \in ListasDeHilos : ConHilos(e, l, hs)[k] = IF k = l THEN r ELSE e[k]
  BY <1>2 DEF Cuentas
<1>4. \A k \in ListasDeHilos, g \in Tids : e[k][g] \in Nat
  BY DEF Cuentas
<1>5. \A k \in ListasDeHilos, g \in Tids : k # l => e[k][g] = e[k][g] + 0
  BY <1>4
<1> QED
  BY <1>1, <1>2, <1>3, <1>5 DEF Cuentas

\* The list of each state.
Lleva(l, x) == \/ l = "ready" /\ x = "READY"
               \/ l = "exit" /\ x = "EXIT"
               \/ l = "blocked" /\ x = "BLOCKED"

\* A thread taken from wherever it is to the list of its new state.
LEMMA Mudanza ==
  ASSUME ListasBien, NEW h \in Tids, Existe(h), NEW l, NEW x, Lleva(l, x),
         en' = ConHilos(SinHilo(en, h), l, {h}), estado' = [estado EXCEPT ![h] = x]
  PROVE  ListasBien'
<1> DEFINE s == SinHilo(en, h)
<1>0. l \in ListasDeHilos /\ x \in Nombres
  BY DEF Lleva, ListasDeHilos, Nombres
<1>1. /\ s \in Cuentas /\ s["ready"][h] = 0 /\ s["exec"][h] = 0
      /\ \A g \in Tids \ {h}, k \in ListasDeHilos : s[k][g] = en[k][g]
  BY SinHiloForma
<1> HIDE DEF s
<1>2. /\ en' \in Cuentas
      /\ \A k \in ListasDeHilos, g \in Tids :
           en'[k][g] = s[k][g] + (IF k = l /\ g \in {h} THEN 1 ELSE 0)
  BY <1>0, <1>1, ConHilosForma DEF s
<1>3. estado' \in [Tids -> Nombres] /\ estado'[h] = x
      /\ \A g \in Tids \ {h} : estado'[g] = estado[g]
  BY <1>0 DEF ListasBien
<1>4. {"ready", "exec", "blocked", "exit"} = ListasDeHilos
  BY DEF ListasDeHilos
<1>5. ASSUME NEW g \in Tids  PROVE DeAcuerdo(en', estado'[g], g)
  <2>1. CASE g = h
    <3>1. \A k \in ListasDeHilos : s[k][h] \in Nat
      BY <1>1 DEF Cuentas
    <3>2. /\ en'["ready"][h] = 0 + (IF l = "ready" THEN 1 ELSE 0)
          /\ en'["exec"][h] = 0 + (IF l = "exec" THEN 1 ELSE 0)
          /\ en'["blocked"][h] = s["blocked"][h] + (IF l = "blocked" THEN 1 ELSE 0)
          /\ en'["exit"][h] = s["exit"][h] + (IF l = "exit" THEN 1 ELSE 0)
      BY <1>1, <1>2, <1>4
    <3>3. s["blocked"][h] \in Nat /\ s["exit"][h] \in Nat
      BY <1>4, <3>1
    <3> QED
      BY <1>3, <2>1, <3>2, <3>3 DEF DeAcuerdo, Lleva
  <2>2. CASE g # h
    <3>1. \A k \in ListasDeHilos : en'[k][g] = en[k][g]
      <4>1. \A k \in ListasDeHilos : s[k][g] = en[k][g] /\ en[k][g] \in Nat
        BY <1>1, <2>2 DEF ListasBien, Cuentas
      <4>2. \A k \in ListasDeHilos : en'[k][g] = s[k][g] + 0
        BY <1>2, <2>2
      <4>3. \A n \in Nat : n + 0 = n
        OBVIOUS
      <4> HIDE DEF s
      <4> QED
        BY <4>1, <4>2, <4>3, Zenon
    <3> QED
      BY <1>3, <1>4, <2>2, <3>1 DEF DeAcuerdo, ListasBien, EnSuLista
  <2> QED
    BY <2>1, <2>2
<1> QED
  BY <1>2, <1>3, <1>5 DEF ListasBien, EnSuLista, DeAcuerdo

\* liberar_hilos_bloqueados, mutex_unlock and crear_hilo add threads to READY
\* that are not in READY nor in EXEC.
LEMMA Despiertan ==
  ASSUME ListasBien, NEW hs \in SUBSET Tids, \A g \in hs : estado[g] \notin {"READY", "EXEC"},
         en' = ConHilos(en, "ready", hs),
         estado' = [g \in Tids |-> IF g \in hs THEN "READY" ELSE estado[g]]
  PROVE  ListasBien'
<1>4. {"ready", "exec", "blocked", "exit"} = ListasDeHilos
  BY DEF ListasDeHilos
<1>2. /\ en' \in Cuentas
      /\ \A k \in ListasDeHilos, g \in Tids :
           en'[k][g] = en[k][g] + (IF k = "ready" /\ g \in hs THEN 1 ELSE 0)
  BY <1>4, ConHilosForma DEF ListasBien
<1>3. estado' \in [Tids -> Nombres]
  BY DEF ListasBien, Nombres
<1>5. ASSUME NEW g \in Tids  PROVE DeAcuerdo(en', estado'[g], g)
  <2>1. \A k \in ListasDeHilos : en[k][g] \in Nat
    BY DEF ListasBien, Cuentas
  <2>2. CASE g \in hs
    BY <1>2, <1>4, <2>1, <2>2 DEF DeAcuerdo, ListasBien, EnSuLista
  <2>3. CASE g \notin hs
    <3>1. \A k \in ListasDeHilos : en'[k][g] = en[k][g]
      BY <1>2, <2>1, <2>3
    <3> QED
      BY <1>3, <1>4, <2>3, <3>1 DEF DeAcuerdo, ListasBien, EnSuLista
  <2> QED
    BY <2>2, <2>3
<1> QED
  BY <1>2, <1>3, <1>5 DEF ListasBien, EnSuLista, DeAcuerdo

\* finalizar_hilo: h to EXIT and those that wait for it, neither in READY nor
\* in EXEC, to READY; h itself may be one of them.
LEMMA ListasAlFinalizar ==
  ASSUME ListasBien, NEW h \in Tids, Existe(h), Finalizar(h), esperan[h] \in SUBSET Tids,
         \A g \in esperan[h] : estado[g] \notin {"READY", "EXEC"}
  PROVE  ListasBien'
<1> DEFINE s == SinHilo(en, h)
           e == ConHilos(s, "exit", {h})
           hs == esperan[h]
<1>1. /\ s \in Cuentas /\ s["ready"][h] = 0 /\ s["exec"][h] = 0
      /\ \A g \in Tids \ {h}, k \in ListasDeHilos : s[k][g] = en[k][g]
  BY SinHiloForma
<1> HIDE DEF s
<1>2. {"ready", "exec", "blocked", "exit"} = ListasDeHilos
  BY DEF ListasDeHilos
<1>3. /\ e \in Cuentas
      /\ \A k \in ListasDeHilos, g \in Tids :
           e[k][g] = s[k][g] + (IF k = "exit" /\ g \in {h} THEN 1 ELSE 0)
  BY <1>1, <1>2, ConHilosForma
<1>4. en' = ConHilos(e, "ready", hs)
  BY DEF Finalizar, s
<1> HIDE DEF e
<1>5. /\ en' \in Cuentas
      /\ \A k \in ListasDeHilos, g \in Tids :
           en'[k][g] = e[k][g] + (IF k = "ready" /\ g \in hs THEN 1 ELSE 0)
  BY <1>2, <1>3, <1>4, ConHilosForma
<1>6. /\ estado' \in [Tids -> Nombres]
      /\ \A g \in Tids : estado'[g] = IF g \in hs THEN "READY"
                                      ELSE IF g = h THEN "EXIT" ELSE estado[g]
  BY DEF Finalizar, ListasBien, Nombres
<1>7. ASSUME NEW g \in Tids  PROVE DeAcuerdo(en', estado'[g], g)
  <2> DEFINE u == IF g \in hs THEN 1 ELSE 0
             x == IF g = h THEN 1 ELSE 0
  <2>1. \A k \in ListasDeHilos : s[k][g] \in Nat /\ en[k][g] \in Nat
    BY <1>1 DEF Cuentas, ListasBien
  <2>2. /\ en'["ready"][g] = (s["ready"][g] + 0) + u
        /\ en'["exec"][g] = (s["exec"][g] + 0) + 0
        /\ en'["blocked"][g] = (s["blocked"][g] + 0) + 0
        /\ en'["exit"][g] = (s["exit"][g] + x) + 0
    BY <1>2, <1>3, <1>5
  <2>3. s["ready"][g] \in Nat /\ s["exec"][g] \in Nat /\ s["blocked"][g] \in Nat /\ s["exit"][g] \in Nat
    BY <1>2, <2>1
  <2>4. g # h => DeAcuerdo(s, estado[g], g)
    <3> HAVE g # h
    <3>1. DeAcuerdo(en, estado[g], g)
      BY DEF ListasBien, EnSuLista, DeAcuerdo
    <3>2. /\ s["ready"][g] = en["ready"][g] /\ s["exec"][g] = en["exec"][g]
          /\ s["blocked"][g] = en["blocked"][g] /\ s["exit"][g] = en["exit"][g]
      BY <1>1, <1>2
    <3> QED
      BY <3>1, <3>2 DEF DeAcuerdo
  <2>5. CASE g = h
    BY <1>1, <1>6, <2>2, <2>3, <2>5, SMTT(30) DEF DeAcuerdo
  <2>6. CASE g # h
    BY <1>6, <2>2, <2>3, <2>4, <2>6 DEF DeAcuerdo
  <2> QED
    BY <2>5, <2>6
<1> QED
  BY <1>5, <1>6, <1>7 DEF ListasBien, EnSuLista, DeAcuerdo

\* PROCESS_EXIT does the same to each thread, and wakes none.
LEMMA ListasAlSalir ==
  ASSUME ListasBien, ProcessExit
  PROVE  ListasBien'
<1>1. {"ready", "exec", "blocked", "exit"} = ListasDeHilos
  BY DEF ListasDeHilos
<1>2. /\ estado' \in [Tids -> Nombres]
      /\ \A h \in Tids : estado'[h] = IF Existe(h) THEN "EXIT" ELSE "NADA"
  BY DEF ProcessExit, Nombres
<1>3. \A l \in ListasDeHilos, h \in Tids : ~Existe(h) => en'[l][h] = 0
  BY DEF ProcessExit
<1>4. ASSUME NEW h \in Tids, Existe(h)
      PROVE  /\ \A l \in ListasDeHilos : en'[l][h] \in Nat
             /\ en'["ready"][h] = 0 /\ en'["exec"][h] = 0 /\ en'["exit"][h] > 0
  <2> DEFINE d == ListaDe(h)
  <2>1. /\ d \in ListasDeHilos /\ en[d][h] > 0
        /\ estado[h] = "READY" => d = "ready"
        /\ estado[h] = "EXEC" => d = "exec"
    BY <1>4, SeEncuentra
  <2>2. \A l \in ListasDeHilos : en[l][h] \in Nat
    BY DEF ListasBien, Cuentas
  <2>3. \A l \in ListasDeHilos :
          en'[l][h] = en[l][h] - (IF d = l THEN 1 ELSE 0) + (IF l = "exit" THEN 1 ELSE 0)
    BY <1>4 DEF ProcessExit
  <2> HIDE DEF d
  <2>4. DeAcuerdo(en, estado[h], h)
    BY DEF ListasBien, EnSuLista, DeAcuerdo
  <2>5. d = "ready" => estado[h] = "READY"
    BY <2>1, <2>4 DEF DeAcuerdo
  <2>6. d = "exec" => estado[h] = "EXEC"
    BY <2>1, <2>4 DEF DeAcuerdo
  <2>7. \A l \in ListasDeHilos : en'[l][h] \in Nat
    <3> SUFFICES ASSUME NEW l \in ListasDeHilos  PROVE en'[l][h] \in Nat
      OBVIOUS
    <3>1. PICK n \in Nat : n = en[l][h] /\ (d = l => n > 0)
      BY <2>1, <2>2
    <3>2. en'[l][h] = n - (IF d = l THEN 1 ELSE 0) + (IF l = "exit" THEN 1 ELSE 0)
      BY <2>3, <3>1
    <3> QED
      BY <3>1, <3>2
  <2>8. en'["ready"][h] = 0 /\ en'["exec"][h] = 0
    <3>1. /\ en'["ready"][h] = en["ready"][h] - (IF d = "ready" THEN 1 ELSE 0) + 0
          /\ en'["exec"][h] = en["exec"][h] - (IF d = "exec" THEN 1 ELSE 0) + 0
      BY <1>1, <2>3
    <3> QED
      BY <2>1, <2>4, <2>5, <2>6, <3>1 DEF DeAcuerdo
  <2>9. en'["exit"][h] > 0
    <3>1. PICK n \in Nat : n = en["exit"][h] /\ (d = "exit" => n > 0)
      BY <1>1, <2>1, <2>2
    <3>2. en'["exit"][h] = n - (IF d = "exit" THEN 1 ELSE 0) + 1
      BY <1>1, <2>3, <3>1
    <3> QED
      BY <3>1, <3>2
  <2> QED
    BY <2>7, <2>8, <2>9
<1>5. en' \in Cuentas
  <2>1. \A l \in ListasDeHilos, h \in Tids : en'[l][h] \in Nat
    BY <1>3, <1>4
  <2>2. /\ DOMAIN en' = ListasDeHilos /\ en' = [l \in ListasDeHilos |-> en'[l]]
        /\ \A l \in ListasDeHilos : en'[l] = [h \in Tids |-> en'[l][h]]
    BY DEF ProcessExit
  <2> QED
    BY <2>1, <2>2 DEF Cuentas
<1>6. ASSUME NEW h \in Tids  PROVE DeAcuerdo(en', estado'[h], h)
  BY <1>1, <1>2, <1>3, <1>4 DEF DeAcuerdo
<1> QED
  BY <1>2, <1>5, <1>6 DEF ListasBien, EnSuLista, DeAcuerdo

LEMMA ListasAlDespachar ==
  ASSUME ListasBien, NEW h \in Tids, Despachar(h)
  PROVE  ListasBien' /\ estado[h] = "READY" /\ estado'[h] = "EXEC"
<1> DEFINE r == [en["ready"] EXCEPT ![h] = en["ready"][h] - 1]
           x == [en["exec"] EXCEPT ![h] = en["exec"][h] + 1]
<1>1. {"ready", "exec", "blocked", "exit"} = ListasDeHilos
  BY DEF ListasDeHilos
<1>2. /\ en' = [en EXCEPT !["ready"] = r, !["exec"] = x]
      /\ en["ready"][h] > 0 /\ en["exec"][h] = 0
      /\ estado' = [estado EXCEPT ![h] = "EXEC"]
  BY DEF Despachar
<1>3. estado[h] = "READY" /\ en["ready"][h] = 1
  BY <1>2 DEF ListasBien, EnSuLista
<1>4. /\ estado' \in [Tids -> Nombres] /\ estado'[h] = "EXEC"
      /\ \A g \in Tids \ {h} : estado'[g] = estado[g]
  BY <1>2 DEF ListasBien, Nombres
<1>5. /\ r \in [Tids -> Nat] /\ x \in [Tids -> Nat] /\ r[h] = 0 /\ x[h] = 1
      /\ \A g \in Tids \ {h} : r[g] = en["ready"][g] /\ x[g] = en["exec"][g]
  BY <1>1, <1>2, <1>3 DEF ListasBien, Cuentas
<1> HIDE DEF r, x
<1>6. /\ en' \in Cuentas /\ en'["ready"] = r /\ en'["exec"] = x
      /\ en'["blocked"] = en["blocked"] /\ en'["exit"] = en["exit"]
  BY <1>1, <1>2, <1>5 DEF ListasBien, Cuentas
<1>7. ASSUME NEW g \in Tids  PROVE DeAcuerdo(en', estado'[g], g)
  <2>1. DeAcuerdo(en, estado[g], g)
    BY DEF ListasBien, EnSuLista, DeAcuerdo
  <2> QED
    BY <1>4, <1>5, <1>6, <2>1 DEF DeAcuerdo
<1> QED
  BY <1>3, <1>4, <1>6, <1>7 DEF ListasBien, EnSuLista, DeAcuerdo

\* A thread that asks for something runs: it exists and its state is EXEC.
LEMMA QuienCorre ==
  ASSUME ListasBien, NEW h \in Tids, Corre(h)
  PROVE  estado[h] = "EXEC" /\ Existe(h) /\ sistema = "vivo"
BY DEF Corre, Existe, ListasBien, EnSuLista

-----------------------------------------------------------------------------
(* What a thread waits for *)

Encolado(h, m) == EnLista(mutexes[m].bloqueados, h)
ConMotivo(h) == h \in io \/ (\E m \in Mutexes : Encolado(h, m)) \/ \E k \in Tids : h \in esperan[k]

\* At most one thing will ready h, and only out of a list that is not READY nor
\* EXEC; there is one if h is blocked and its entry was not lost.
Motivo(h) ==
  /\ h \in io => (\A m \in Mutexes : ~Encolado(h, m)) /\ \A k \in Tids : h \notin esperan[k]
  /\ \A m, n \in Mutexes : Encolado(h, m) /\ Encolado(h, n) => m = n
  /\ \A m \in Mutexes, k \in Tids : ~(Encolado(h, m) /\ h \in esperan[k])
  /\ \A j, k \in Tids : h \in esperan[j] /\ h \in esperan[k] => j = k
  /\ ConMotivo(h) => estado[h] \in {"BLOCKED", "EXIT"}
  /\ estado[h] = "BLOCKED" /\ h \notin perdidos => ConMotivo(h)
UnSoloMotivo == \A h \in Tids : Motivo(h)

ColasSinRepetir == \A m \in Mutexes : SinRepetir(mutexes[m].bloqueados)

\* A blocked thread has its context; so has the one that runs, or memoria has
\* ended; and only after PROCESS_EXIT, which leaves no context, does anybody
\* wait for a thread that has ended.
Contextos ==
  /\ \A h \in Tids : estado[h] = "BLOCKED" => h \in conContexto
  /\ \A h \in Tids : sistema = "vivo" /\ estado[h] = "EXEC" => h \in conContexto
  /\ \A k \in Tids : estado[k] = "EXIT" /\ esperan[k] # {} => conContexto = {}

\* The tids are given in order.
Seguidos == \A h \in Tids : Existe(h) => \A g \in 0..h : Existe(g)

TiposDelResto ==
  /\ sistema \in {"vivo", "caido", "memoria", "cruzado"}
  /\ esperan \in [Tids -> SUBSET Tids]
  /\ destruidas \subseteq Tids /\ io \subseteq Tids /\ conContexto \subseteq Tids
  /\ perdidos \subseteq Tids

Espera == TiposDelResto /\ UnSoloMotivo /\ ColasSinRepetir /\ Contextos /\ Seguidos
Inv == Inductivo /\ ListasBien /\ Espera

\* A thread that gets no new thing to wait for.
LEMMA MotivoSigue ==
  ASSUME NEW g \in Tids, Motivo(g), g \in io' => g \in io,
         \A m \in Mutexes : Encolado(g, m)' => Encolado(g, m),
         \A k \in Tids : g \in esperan'[k] => g \in esperan[k],
         ConMotivo(g)' => estado'[g] \in {"BLOCKED", "EXIT"},
         estado'[g] = "BLOCKED" /\ g \notin perdidos' => ConMotivo(g)'
  PROVE  Motivo(g)'
BY DEF Motivo

\* Nobody gets or loses anything to wait for.
LEMMA MotivosIguales ==
  ASSUME UnSoloMotivo, UNCHANGED <<io, esperan>>,
         \A g \in Tids, m \in Mutexes : Encolado(g, m)' <=> Encolado(g, m),
         perdidos \subseteq perdidos',
         \A g \in Tids : \/ estado'[g] = estado[g]
                         \/ estado'[g] = "EXIT"
                         \/ ~ConMotivo(g) /\ (estado'[g] # "BLOCKED" \/ g \in perdidos')
  PROVE  UnSoloMotivo'
<1> SUFFICES ASSUME NEW g \in Tids  PROVE Motivo(g)'
  BY DEF UnSoloMotivo
<1>1. Motivo(g)
  BY DEF UnSoloMotivo
<1>2. ConMotivo(g)' <=> ConMotivo(g)
  BY DEF ConMotivo
<1>3. ConMotivo(g) => estado[g] \in {"BLOCKED", "EXIT"}
  BY <1>1 DEF Motivo
<1>4. estado[g] = "BLOCKED" /\ g \notin perdidos => ConMotivo(g)
  BY <1>1 DEF Motivo
<1>5. ConMotivo(g)' => estado'[g] \in {"BLOCKED", "EXIT"}
  BY <1>2, <1>3
<1>6. estado'[g] = "BLOCKED" /\ g \notin perdidos' => ConMotivo(g)'
  BY <1>2, <1>4
<1> QED
  BY <1>1, <1>5, <1>6, MotivoSigue

LEMMA SeguidosIguales ==
  ASSUME Seguidos, \A g \in Tids : Existe(g)' <=> Existe(g)
  PROVE  Seguidos'
<1>1. MaxHilos - 1 \in Int
  BY HilosConstantes
<1>2. \A h \in Tids : 0..h \subseteq Tids
  BY <1>1 DEF Tids
<1> QED
  BY <1>2 DEF Seguidos

\* Only the state of the system changes, and it is not alive any more.
LEMMA AlCaer ==
  ASSUME Inv, sistema' \in {"caido", "memoria", "cruzado"},
         UNCHANGED <<en, estado, mutexes, esperan, destruidas, io, conContexto, perdidos>>
  PROVE  ListasBien' /\ Espera'
<1>1. ListasBien'
  BY DEF Inv, ListasBien, EnSuLista
<1>2. Seguidos'
  BY SeguidosIguales DEF Inv, Espera, Existe
<1>3. UnSoloMotivo'
  BY MotivosIguales DEF Inv, Espera, Encolado
<1>4. TiposDelResto' /\ Contextos' /\ ColasSinRepetir'
  BY DEF Inv, Espera, TiposDelResto, Contextos, ColasSinRepetir
<1> QED
  BY <1>1, <1>2, <1>3, <1>4 DEF Espera

\* Only the mutexes change, and not who waits for them.
LEMMA AlUsarMutex ==
  ASSUME Inv, UNCHANGED <<sistema, en, estado, esperan, destruidas, io, conContexto, perdidos>>,
         \A m \in Mutexes : mutexes'[m].bloqueados = mutexes[m].bloqueados
  PROVE  ListasBien' /\ Espera'
<1>1. ListasBien'
  BY DEF Inv, ListasBien, EnSuLista
<1>2. Seguidos'
  BY SeguidosIguales DEF Inv, Espera, Existe
<1>3. UnSoloMotivo'
  BY MotivosIguales DEF Inv, Espera, Encolado
<1>4. TiposDelResto' /\ Contextos' /\ ColasSinRepetir'
  BY DEF Inv, Espera, TiposDelResto, Contextos, ColasSinRepetir
<1> QED
  BY <1>1, <1>2, <1>3, <1>4 DEF Espera

\* finalizar_hilo of a thread that has not ended.
LEMMA AlFinalizar ==
  ASSUME Inv, NEW h \in Tids, Existe(h), estado[h] # "EXIT", Finalizar(h), sistema = "vivo",
         sistema' \in {"vivo", "memoria"}, UNCHANGED <<mutexes, io, perdidos>>
  PROVE  ListasBien' /\ Espera'
<1>1. \A g \in esperan[h] : g \in Tids /\ estado[g] \in {"BLOCKED", "EXIT"}
  BY DEF Inv, Espera, TiposDelResto, UnSoloMotivo, Motivo, ConMotivo
<1>2. ListasBien'
  BY <1>1, ListasAlFinalizar DEF Inv, Espera, TiposDelResto
<1>3. /\ \A g \in Tids : estado'[g] = IF g \in esperan[h] THEN "READY"
                                      ELSE IF g = h THEN "EXIT" ELSE estado[g]
      /\ \A k \in Tids : esperan'[k] = IF k = h THEN {} ELSE esperan[k]
      /\ conContexto' = conContexto \ {h}
      /\ esperan' \in [Tids -> SUBSET Tids] /\ destruidas' = destruidas \cup {h}
  BY DEF Finalizar, Inv, Espera, TiposDelResto
<1>4. TiposDelResto' /\ ColasSinRepetir'
  BY <1>3 DEF Inv, Espera, TiposDelResto, ColasSinRepetir
<1>5. Seguidos'
  <2>1. \A g \in Tids : Existe(g)' <=> Existe(g)
    BY <1>1, <1>3 DEF Existe
  <2> QED
    BY <2>1, SeguidosIguales DEF Inv, Espera
<1>6. Contextos'
  <2>1. /\ \A g \in Tids : estado[g] = "BLOCKED" => g \in conContexto
        /\ \A g \in Tids : estado[g] = "EXEC" => g \in conContexto
        /\ \A k \in Tids : estado[k] = "EXIT" /\ esperan[k] # {} => conContexto = {}
    BY DEF Inv, Espera, Contextos
  <2> QED
    BY <1>3, <2>1 DEF Contextos
<1>7. UnSoloMotivo'
  <2> SUFFICES ASSUME NEW g \in Tids  PROVE Motivo(g)'
    BY DEF UnSoloMotivo
  <2>1. Motivo(g)
    BY DEF Inv, Espera, UnSoloMotivo
  <2>2. \A m \in Mutexes : Encolado(g, m)' <=> Encolado(g, m)
    BY DEF Encolado
  <2>3. \A k \in Tids : g \in esperan'[k] => g \in esperan[k]
    BY <1>3
  <2>4. CASE g \in esperan[h]
    <3>1. \A k \in Tids : g \notin esperan'[k]
      BY <1>3, <2>1, <2>4 DEF Motivo
    <3>2. g \notin io /\ \A m \in Mutexes : ~Encolado(g, m)
      BY <2>1, <2>4 DEF Motivo
    <3>3. ~ConMotivo(g)'
      BY <2>2, <3>1, <3>2 DEF ConMotivo
    <3>4. estado'[g] = "READY"
      BY <1>3, <2>4
    <3> QED
      BY <2>1, <2>2, <2>3, <3>3, <3>4, MotivoSigue
  <2>5. CASE g \notin esperan[h]
    <3>1. \A k \in Tids : g \in esperan'[k] <=> g \in esperan[k]
      BY <1>3, <2>5
    <3>2. ConMotivo(g)' <=> ConMotivo(g)
      BY <2>2, <3>1 DEF ConMotivo
    <3>3. estado'[g] = estado[g] \/ estado'[g] = "EXIT"
      BY <1>3, <2>5
    <3>4. ConMotivo(g) => estado[g] \in {"BLOCKED", "EXIT"}
      BY <2>1 DEF Motivo
    <3>5. estado[g] = "BLOCKED" /\ g \notin perdidos => ConMotivo(g)
      BY <2>1 DEF Motivo
    <3>6. ConMotivo(g)' => estado'[g] \in {"BLOCKED", "EXIT"}
      BY <3>2, <3>3, <3>4
    <3>7. estado'[g] = "BLOCKED" /\ g \notin perdidos' => ConMotivo(g)'
      BY <3>2, <3>3, <3>5
    <3> QED
      BY <2>1, <2>2, <3>1, <3>6, <3>7, MotivoSigue
  <2> QED
    BY <2>4, <2>5
<1> QED
  BY <1>2, <1>4, <1>5, <1>6, <1>7 DEF Espera

\* A thread in READY or EXEC waits for nothing.
LEMMA SinMotivo ==
  ASSUME Inv, NEW h \in Tids, estado[h] \notin {"BLOCKED", "EXIT"}
  PROVE  ~ConMotivo(h)
BY DEF Inv, Espera, UnSoloMotivo, Motivo

\* h goes from EXEC to lista_blocked_thread, with the one thing it waits for.
LEMMA AlBloquear ==
  ASSUME Inv, NEW h \in Tids, Corre(h), Bloquear(h), Motivo(h)',
         UNCHANGED <<sistema, conContexto>>, TiposDelResto', ColasSinRepetir',
         perdidos \subseteq perdidos',
         \A g \in Tids \ {h} :
           /\ g \in io' <=> g \in io
           /\ \A m \in Mutexes : Encolado(g, m)' <=> Encolado(g, m)
           /\ \A k \in Tids : g \in esperan'[k] <=> g \in esperan[k],
         \A k \in Tids : esperan'[k] = esperan[k] \/ estado[k] # "EXIT"
  PROVE  ListasBien' /\ Espera'
<1>1. estado[h] = "EXEC" /\ Existe(h) /\ sistema = "vivo"
  BY QuienCorre DEF Inv
<1>2. ListasBien'
  BY <1>1, Mudanza DEF Inv, Bloquear, Lleva
<1>3. /\ estado'[h] = "BLOCKED"
      /\ \A g \in Tids \ {h} : estado'[g] = estado[g]
  BY DEF Bloquear, Inv, ListasBien
<1>4. Seguidos'
  <2>1. \A g \in Tids : Existe(g)' <=> Existe(g)
    BY <1>1, <1>3 DEF Existe
  <2> QED
    BY <2>1, SeguidosIguales DEF Inv, Espera
<1>5. Contextos'
  <2>1. /\ \A g \in Tids : estado[g] = "BLOCKED" => g \in conContexto
        /\ \A g \in Tids : estado[g] = "EXEC" => g \in conContexto
        /\ \A k \in Tids : estado[k] = "EXIT" /\ esperan[k] # {} => conContexto = {}
    BY <1>1 DEF Inv, Espera, Contextos
  <2> QED
    BY <1>1, <1>3, <2>1 DEF Contextos
<1>6. UnSoloMotivo'
  <2> SUFFICES ASSUME NEW g \in Tids, g # h  PROVE Motivo(g)'
    BY DEF UnSoloMotivo
  <2>1. Motivo(g)
    BY DEF Inv, Espera, UnSoloMotivo
  <2>2. ConMotivo(g)' <=> ConMotivo(g)
    BY DEF ConMotivo
  <2>3. estado'[g] = estado[g]
    BY <1>3
  <2>4. ConMotivo(g) => estado[g] \in {"BLOCKED", "EXIT"}
    BY <2>1 DEF Motivo
  <2>5. estado[g] = "BLOCKED" /\ g \notin perdidos => ConMotivo(g)
    BY <2>1 DEF Motivo
  <2>6. ConMotivo(g)' => estado'[g] \in {"BLOCKED", "EXIT"}
    BY <2>2, <2>3, <2>4
  <2>7. estado'[g] = "BLOCKED" /\ g \notin perdidos' => ConMotivo(g)'
    BY <2>2, <2>3, <2>5
  <2> QED
    BY <2>1, <2>6, <2>7, MotivoSigue
<1> QED
  BY <1>2, <1>4, <1>5, <1>6 DEF Espera

LEMMA AlPedirIo ==
  ASSUME Inv, NEW h \in Tids, Io(h)
  PROVE  ListasBien' /\ Espera'
<1>1. /\ Corre(h) /\ Bloquear(h) /\ io' = io \cup {h}
      /\ UNCHANGED <<sistema, mutexes, esperan, destruidas, conContexto, perdidos, adentro>>
  BY DEF Io
<1>2. estado[h] = "EXEC" /\ estado'[h] = "BLOCKED"
  BY <1>1, QuienCorre DEF Inv, Bloquear, ListasBien
<1>3. h \notin io /\ (\A m \in Mutexes : ~Encolado(h, m)) /\ \A k \in Tids : h \notin esperan[k]
  BY <1>2, SinMotivo DEF ConMotivo
<1>4. \A g \in Tids, m \in Mutexes : Encolado(g, m)' <=> Encolado(g, m)
  BY <1>1 DEF Encolado
<1>5. Motivo(h)'
  BY <1>1, <1>2, <1>3, <1>4 DEF Motivo, ConMotivo
<1>6. TiposDelResto' /\ ColasSinRepetir'
  BY <1>1 DEF Inv, Espera, TiposDelResto, ColasSinRepetir
<1> QED
  BY <1>1, <1>4, <1>5, <1>6, AlBloquear

LEMMA AlPedirMutex ==
  ASSUME Inv, NEW h \in Tids, NEW m \in Mutexes, MutexLockOcupado(h, m)
  PROVE  ListasBien' /\ Espera'
<1> DEFINE b == mutexes[m].bloqueados
<1>1. /\ Corre(h) /\ Bloquear(h)
      /\ mutexes' = [mutexes EXCEPT ![m] = [mutexes[m] EXCEPT !.bloqueados = Append(b, h)]]
      /\ UNCHANGED <<sistema, io, esperan, destruidas, conContexto, perdidos, adentro>>
  BY DEF MutexLockOcupado
<1>2. estado[h] = "EXEC" /\ estado'[h] = "BLOCKED"
  BY <1>1, QuienCorre DEF Inv, Bloquear, ListasBien
<1>3. h \notin io /\ (\A n \in Mutexes : ~Encolado(h, n)) /\ \A k \in Tids : h \notin esperan[k]
  BY <1>2, SinMotivo DEF ConMotivo
<1>4. b \in Seq(Tids) /\ SinRepetir(b) /\ ~EnLista(b, h)
  BY <1>3 DEF Inv, Inductivo, TipoMutexes, Mutex, Espera, ColasSinRepetir, Encolado
<1>5. /\ mutexes'[m].bloqueados = Append(b, h)
      /\ \A n \in Mutexes \ {m} : mutexes'[n].bloqueados = mutexes[n].bloqueados
  BY <1>1 DEF Inv, Inductivo, TipoMutexes, Mutex
<1> HIDE DEF b
<1>6. /\ \A g : EnLista(Append(b, h), g) <=> EnLista(b, g) \/ g = h
      /\ SinRepetir(Append(b, h))
  BY <1>4, EnListaAgregar
<1>7. \A g \in Tids, n \in Mutexes :
        Encolado(g, n)' <=> Encolado(g, n) \/ (g = h /\ n = m)
  BY <1>5, <1>6 DEF Encolado, b
<1>8. Motivo(h)'
  BY <1>1, <1>2, <1>3, <1>7 DEF Motivo, ConMotivo
<1>9. TiposDelResto' /\ ColasSinRepetir'
  BY <1>1, <1>5, <1>6 DEF Inv, Espera, TiposDelResto, ColasSinRepetir
<1> QED
  BY <1>1, <1>7, <1>8, <1>9, AlBloquear

LEMMA AlPedirFin ==
  ASSUME Inv, NEW h \in Tids, NEW k \in Tids, ThreadJoin(h, k)
  PROVE  ListasBien' /\ Espera'
<1>1. /\ Corre(h) /\ Bloquear(h) /\ estado[k] # "EXIT"
      /\ esperan' = [esperan EXCEPT ![k] = esperan[k] \cup {h}]
      /\ UNCHANGED <<sistema, mutexes, io, destruidas, conContexto, perdidos, adentro>>
  BY DEF ThreadJoin
<1>2. estado[h] = "EXEC" /\ estado'[h] = "BLOCKED"
  BY <1>1, QuienCorre DEF Inv, Bloquear, ListasBien
<1>3. h \notin io /\ (\A m \in Mutexes : ~Encolado(h, m)) /\ \A j \in Tids : h \notin esperan[j]
  BY <1>2, SinMotivo DEF ConMotivo
<1>4. \A g \in Tids, m \in Mutexes : Encolado(g, m)' <=> Encolado(g, m)
  BY <1>1 DEF Encolado
<1>5. \A j \in Tids : esperan'[j] = IF j = k THEN esperan[k] \cup {h} ELSE esperan[j]
  BY <1>1 DEF Inv, Espera, TiposDelResto
<1>6. Motivo(h)'
  BY <1>1, <1>2, <1>3, <1>4, <1>5 DEF Motivo, ConMotivo
<1>7. TiposDelResto' /\ ColasSinRepetir'
  BY <1>1 DEF Inv, Espera, TiposDelResto, ColasSinRepetir
<1> QED
  BY <1>1, <1>4, <1>5, <1>6, <1>7, AlBloquear

LEMMA AlUnirseTarde ==
  ASSUME Inv, NEW h \in Tids, NEW k \in Tids, ThreadJoinDestruida(h, k)
  PROVE  ListasBien' /\ Espera'
<1>1. CASE Caer
  BY <1>1, AlCaer DEF Caer
<1>2. CASE /\ Bloquear(h) /\ perdidos' = perdidos \cup {h}
           /\ UNCHANGED <<sistema, mutexes, esperan, destruidas, io, conContexto, adentro>>
  <2>1. Corre(h)
    BY DEF ThreadJoinDestruida
  <2>2. estado[h] = "EXEC" /\ estado'[h] = "BLOCKED"
    BY <1>2, <2>1, QuienCorre DEF Inv, Bloquear, ListasBien
  <2>3. ~ConMotivo(h) /\ Motivo(h)
    BY <2>2, SinMotivo DEF Inv, Espera, UnSoloMotivo
  <2>4. \A g \in Tids, m \in Mutexes : Encolado(g, m)' <=> Encolado(g, m)
    BY <1>2 DEF Encolado
  <2>5. ~ConMotivo(h)'
    BY <1>2, <2>3, <2>4 DEF ConMotivo
  <2>6. Motivo(h)'
    BY <1>2, <2>3, <2>4, <2>5, MotivoSigue
  <2>7. TiposDelResto' /\ ColasSinRepetir'
    BY <1>2 DEF Inv, Espera, TiposDelResto, ColasSinRepetir
  <2> QED
    BY <1>2, <2>1, <2>4, <2>6, <2>7, AlBloquear
<1> QED
  BY <1>1, <1>2 DEF ThreadJoinDestruida

\* What h waited for comes, if anything, and h is readied.
LEMMA AlVolver ==
  ASSUME Inv, NEW h \in Tids, Existe(h), ~ConMotivo(h)',
         \A g \in Tids : estado'[g] = IF g = h THEN "READY" ELSE estado[g],
         UNCHANGED <<sistema, esperan, conContexto, perdidos>>,
         \A g \in Tids \ {h} :
           /\ g \in io' <=> g \in io
           /\ \A m \in Mutexes : Encolado(g, m)' <=> Encolado(g, m),
         TiposDelResto', ColasSinRepetir'
  PROVE  Espera'
<1>1. Seguidos'
  <2>1. \A g \in Tids : Existe(g)' <=> Existe(g)
    BY DEF Existe
  <2> QED
    BY <2>1, SeguidosIguales DEF Inv, Espera
<1>2. Contextos'
  BY DEF Inv, Espera, Contextos
<1>3. ASSUME NEW g \in Tids  PROVE Motivo(g)'
  <2>1. Motivo(g)
    BY DEF Inv, Espera, UnSoloMotivo
  <2>2. CASE g = h
    BY <2>2 DEF Motivo, ConMotivo
  <2>3. CASE g # h
    <3>1. ConMotivo(g)' <=> ConMotivo(g)
      BY <2>3 DEF ConMotivo
    <3>2. ConMotivo(g) => estado[g] \in {"BLOCKED", "EXIT"}
      BY <2>1 DEF Motivo
    <3>3. estado[g] = "BLOCKED" /\ g \notin perdidos => ConMotivo(g)
      BY <2>1 DEF Motivo
    <3>4. ConMotivo(g)' => estado'[g] \in {"BLOCKED", "EXIT"}
      BY <2>3, <3>1, <3>2
    <3>5. estado'[g] = "BLOCKED" /\ g \notin perdidos' => ConMotivo(g)'
      BY <2>3, <3>1, <3>3
    <3> QED
      BY <2>1, <2>3, <3>4, <3>5, MotivoSigue
  <2> QED
    BY <2>2, <2>3
<1> QED
  BY <1>1, <1>2, <1>3 DEF Espera, UnSoloMotivo

LEMMA AlTerminarIo ==
  ASSUME Inv, NEW h \in Tids, IoTermina(h)
  PROVE  ListasBien' /\ Espera'
<1>1. /\ h \in io /\ io' = io \ {h}
      /\ en' = ConHilos(SinHilo(en, h), "ready", {h}) /\ estado' = [estado EXCEPT ![h] = "READY"]
      /\ UNCHANGED <<sistema, mutexes, esperan, destruidas, conContexto, perdidos, adentro>>
  BY DEF IoTermina
<1>2. /\ (\A m \in Mutexes : ~Encolado(h, m)) /\ \A k \in Tids : h \notin esperan[k]
      /\ Existe(h)
  BY <1>1 DEF Inv, Espera, UnSoloMotivo, Motivo, ConMotivo, Existe
<1>3. ListasBien'
  BY <1>1, <1>2, Mudanza DEF Inv, Lleva
<1>4. \A g \in Tids, m \in Mutexes : Encolado(g, m)' <=> Encolado(g, m)
  BY <1>1 DEF Encolado
<1>5. ~ConMotivo(h)'
  BY <1>1, <1>2, <1>4 DEF ConMotivo
<1>6. \A g \in Tids : estado'[g] = IF g = h THEN "READY" ELSE estado[g]
  BY <1>1 DEF Inv, ListasBien
<1>7. TiposDelResto' /\ ColasSinRepetir'
  BY <1>1 DEF Inv, Espera, TiposDelResto, ColasSinRepetir
<1> QED
  BY <1>1, <1>2, <1>3, <1>4, <1>5, <1>6, <1>7, AlVolver

LEMMA AlEntregar ==
  ASSUME Inv, NEW h \in Tids, NEW m \in Mutexes, MutexUnlockEntrega(h, m)
  PROVE  ListasBien' /\ Espera'
<1> DEFINE b == mutexes[m].bloqueados
           c == Tail(b)
<1>0. PICK w : w = Head(b)
  OBVIOUS
<1>1. /\ b # <<>>
      /\ mutexes' = [mutexes EXCEPT ![m] = [mutexes[m] EXCEPT !.thread = w, !.bloqueados = c]]
      /\ en' = ConHilos(en, "ready", {w}) /\ estado' = [estado EXCEPT ![w] = "READY"]
      /\ UNCHANGED <<sistema, io, esperan, destruidas, conContexto, perdidos>>
  BY <1>0 DEF MutexUnlockEntrega
<1>2. b \in Seq(Tids) /\ SinRepetir(b)
  BY DEF Inv, Inductivo, TipoMutexes, Mutex, Espera, ColasSinRepetir
<1>3. /\ mutexes'[m].bloqueados = c
      /\ \A n \in Mutexes \ {m} : mutexes'[n].bloqueados = mutexes[n].bloqueados
  BY <1>1 DEF Inv, Inductivo, TipoMutexes, Mutex
<1>4. Encolado(w, m) <=> EnLista(b, w)
  BY DEF Encolado
<1> HIDE DEF b, c
<1>5. /\ w \in Tids /\ SinRepetir(c) /\ ~EnLista(c, w) /\ EnLista(b, w)
      /\ \A g : EnLista(b, g) <=> g = w \/ EnLista(c, g)
  BY <1>0, <1>1, <1>2, EnListaSacarPrimero DEF c
<1>6. /\ w \notin io /\ (\A k \in Tids : w \notin esperan[k])
      /\ (\A n \in Mutexes \ {m} : ~Encolado(w, n)) /\ estado[w] \in {"BLOCKED", "EXIT"}
  BY <1>4, <1>5 DEF Inv, Espera, UnSoloMotivo, Motivo, ConMotivo
<1>7. \A g \in Tids, n \in Mutexes : Encolado(g, n)' <=> Encolado(g, n) /\ ~(g = w /\ n = m)
  BY <1>3, <1>5 DEF Encolado, b
<1>8. ~ConMotivo(w)'
  BY <1>1, <1>5, <1>6, <1>7 DEF ConMotivo
<1>9. \A g \in Tids : estado'[g] = IF g = w THEN "READY" ELSE estado[g]
  BY <1>1 DEF Inv, ListasBien
<1>10. ListasBien'
  <2>1. estado' = [g \in Tids |-> IF g \in {w} THEN "READY" ELSE estado[g]]
    BY <1>1, <1>5 DEF Inv, ListasBien
  <2> QED
    BY <1>1, <1>5, <1>6, <2>1, Despiertan DEF Inv
<1>11. TiposDelResto' /\ ColasSinRepetir'
  BY <1>1, <1>3, <1>5 DEF Inv, Espera, TiposDelResto, ColasSinRepetir
<1>12. Existe(w) /\ w \in Tids
  BY <1>5, <1>6 DEF Existe
<1>13. \A g \in Tids \ {w} :
         /\ g \in io' <=> g \in io
         /\ \A n \in Mutexes : Encolado(g, n)' <=> Encolado(g, n)
  BY <1>1, <1>7
<1>14. UNCHANGED <<sistema, esperan, conContexto, perdidos>>
  BY <1>1
<1>15. Espera'
  BY <1>8, <1>9, <1>11, <1>12, <1>13, <1>14, AlVolver
<1> QED
  BY <1>10, <1>15

LEMMA EsperaAlDespachar ==
  ASSUME Inv, NEW h \in Tids, Despachar(h)
  PROVE  ListasBien' /\ Espera'
<1>1. ListasBien' /\ estado[h] = "READY"
  BY ListasAlDespachar DEF Inv
<1>2. /\ UNCHANGED <<mutexes, esperan, destruidas, io, conContexto, perdidos>>
      /\ sistema = "vivo" /\ sistema' = IF h \in conContexto THEN "vivo" ELSE "memoria"
      /\ \A g \in Tids : estado'[g] = IF g = h THEN "EXEC" ELSE estado[g]
  BY DEF Despachar, Inv, ListasBien
<1>3. Seguidos'
  <2>1. \A g \in Tids : Existe(g)' <=> Existe(g)
    BY <1>1, <1>2 DEF Existe
  <2> QED
    BY <2>1, SeguidosIguales DEF Inv, Espera
<1>4. UnSoloMotivo'
  <2>1. ~ConMotivo(h)
    BY <1>1, SinMotivo
  <2> QED
    BY <1>2, <2>1, MotivosIguales DEF Inv, Espera, Encolado
<1>5. Contextos'
  BY <1>1, <1>2 DEF Inv, Espera, Contextos
<1>6. TiposDelResto' /\ ColasSinRepetir'
  BY <1>2 DEF Inv, Espera, TiposDelResto, ColasSinRepetir
<1> QED
  BY <1>1, <1>3, <1>4, <1>5, <1>6 DEF Espera

LEMMA AlDesalojar ==
  ASSUME Inv, NEW h \in Tids, Desalojar(h)
  PROVE  ListasBien' /\ Espera'
<1>1. estado[h] = "EXEC" /\ Existe(h) /\ ~ConMotivo(h)
  BY QuienCorre, SinMotivo DEF Inv, Desalojar
<1>2. ListasBien'
  BY <1>1, Mudanza DEF Inv, Desalojar, Lleva
<1>3. /\ UNCHANGED <<sistema, mutexes, esperan, destruidas, io, conContexto, perdidos>>
      /\ \A g \in Tids : estado'[g] = IF g = h THEN "READY" ELSE estado[g]
  BY DEF Desalojar, Inv, ListasBien
<1>4. \A g \in Tids, m \in Mutexes : Encolado(g, m)' <=> Encolado(g, m)
  BY <1>3 DEF Encolado
<1>5. ~ConMotivo(h)'
  BY <1>1, <1>3, <1>4 DEF ConMotivo
<1>6. TiposDelResto' /\ ColasSinRepetir'
  BY <1>3 DEF Inv, Espera, TiposDelResto, ColasSinRepetir
<1> QED
  BY <1>1, <1>2, <1>3, <1>4, <1>5, <1>6, AlVolver

\* The new tid is the number of threads created: nobody has it yet, and all the
\* ones below it are in use.
LEMMA TidNuevo ==
  ASSUME Inv, Cardinality(Creados) < MaxHilos
  PROVE  /\ Cardinality(Creados) \in Tids /\ ~Existe(Cardinality(Creados))
         /\ \A g \in 0..(Cardinality(Creados) - 1) : Existe(g)
<1> DEFINE num == [h \in Creados |-> h]
<1>1. MaxHilos - 1 \in Int /\ Creados \subseteq Tids
  BY HilosConstantes DEF Creados
<1>2. IsFiniteSet(Creados)
  <2>1. IsFiniteSet(Tids)
    BY <1>1, FS_Interval DEF Tids
  <2> QED
    BY <1>1, <2>1, FS_Subset
<1>3. num \in [Creados -> Nat]
  BY <1>1 DEF Tids
<1>4. \A a, b \in Creados : num[a] = num[b] => a = b
  OBVIOUS
<1>5. \A a \in Creados : \A t \in 0..num[a] : \E b \in Creados : num[b] = t
  <2> SUFFICES ASSUME NEW a \in Creados, NEW t \in 0..a  PROVE t \in Creados
    OBVIOUS
  <2>1. a \in Tids /\ Existe(a)
    BY DEF Creados
  <2>2. Existe(t)
    BY <2>1 DEF Inv, Espera, Seguidos
  <2>3. t \in Tids
    BY <1>1, <2>1 DEF Tids
  <2> QED
    BY <2>2, <2>3 DEF Creados
<1>6. /\ Cardinality(Creados) \in Nat
      /\ \A a \in Creados : num[a] < Cardinality(Creados)
      /\ \A t \in 0..(Cardinality(Creados) - 1) : \E b \in Creados : num[b] = t
  <2> HIDE DEF num
  <2>1. PICK C, n : C = Creados /\ n = num
    OBVIOUS
  <2> QED
    BY <1>2, <1>3, <1>4, <1>5, <2>1, NumeradosSeguidos
<1>7. PICK c \in Nat : c = Cardinality(Creados)
  BY <1>6
<1>8. c \in Tids
  BY <1>1, <1>7, HilosConstantes DEF Tids
<1>9. c \notin Creados
  BY <1>6, <1>7
<1>10. \A t \in 0..(c - 1) : t \in Creados
  BY <1>6, <1>7
<1> QED
  BY <1>7, <1>8, <1>9, <1>10 DEF Creados

LEMMA AlCrear ==
  ASSUME Inv, NEW h \in Tids, ThreadCreate(h)
  PROVE  ListasBien' /\ Espera'
<1> DEFINE c == Cardinality(Creados)
<1>0. Corre(h) /\ c < MaxHilos
  BY DEF ThreadCreate
<1>1. /\ c \in Tids /\ ~Existe(c)
      /\ \A g \in 0..(c - 1) : Existe(g)
  BY <1>0, TidNuevo
<1> HIDE DEF c
<1>2. CASE Caer
  BY <1>2, AlCaer DEF Caer
<1>3. CASE /\ en' = ConHilos(en, "ready", {c}) /\ estado' = [estado EXCEPT ![c] = "READY"]
           /\ conContexto' = conContexto \cup {c}
           /\ UNCHANGED <<sistema, mutexes, esperan, destruidas, io, perdidos, adentro>>
  <2>1. estado[c] = "NADA" /\ estado[h] = "EXEC" /\ sistema = "vivo"
    BY <1>0, <1>1, QuienCorre DEF Inv, Existe
  <2>2. /\ estado' = [g \in Tids |-> IF g \in {c} THEN "READY" ELSE estado[g]]
        /\ \A g \in Tids : estado'[g] = IF g = c THEN "READY" ELSE estado[g]
    BY <1>1, <1>3 DEF Inv, ListasBien
  <2>3. ListasBien'
    BY <1>1, <1>3, <2>1, <2>2, Despiertan DEF Inv
  <2>4. ~ConMotivo(c)
    BY <1>1, <2>1, SinMotivo
  <2>5. UnSoloMotivo'
    BY <1>3, <2>2, <2>4, MotivosIguales DEF Inv, Espera, Encolado
  <2>6. Contextos'
    <3>1. conContexto # {}
      BY <2>1 DEF Inv, Espera, Contextos
    <3> QED
      BY <1>3, <2>2, <3>1 DEF Inv, Espera, Contextos
  <2>7. Seguidos'
    <3> SUFFICES ASSUME NEW a \in Tids, Existe(a)', NEW g \in 0..a  PROVE Existe(g)'
      BY DEF Seguidos
    <3>1. g \in Tids
      BY HilosConstantes DEF Tids
    <3>2. CASE a = c
      <4>1. g = c \/ g \in 0..(c - 1)
        BY <1>1, <3>2 DEF Tids
      <4> QED
        BY <1>1, <2>2, <3>1, <4>1 DEF Existe
    <3>3. CASE a # c
      BY <2>2, <3>1, <3>3 DEF Inv, Espera, Seguidos, Existe
    <3> QED
      BY <3>2, <3>3
  <2>8. TiposDelResto' /\ ColasSinRepetir'
    BY <1>1, <1>3 DEF Inv, Espera, TiposDelResto, ColasSinRepetir
  <2> QED
    BY <2>3, <2>5, <2>6, <2>7, <2>8 DEF Espera
<1> QED
  BY <1>2, <1>3 DEF ThreadCreate, c

LEMMA AlSalir ==
  ASSUME Inv, ProcessExit
  PROVE  ListasBien' /\ Espera'
<1>1. ListasBien'
  BY ListasAlSalir DEF Inv
<1>2. /\ UNCHANGED <<sistema, mutexes, esperan, destruidas, io, perdidos>> /\ conContexto' = {}
      /\ \A g \in Tids : estado'[g] = IF Existe(g) THEN "EXIT" ELSE "NADA"
  BY DEF ProcessExit
<1>3. \A g \in Tids : estado'[g] = estado[g] \/ estado'[g] = "EXIT"
  BY <1>2 DEF Existe
<1>4. UnSoloMotivo'
  BY <1>2, <1>3, MotivosIguales DEF Inv, Espera, Encolado
<1>5. Seguidos'
  <2>1. \A g \in Tids : Existe(g)' <=> Existe(g)
    BY <1>2 DEF Existe
  <2> QED
    BY <2>1, SeguidosIguales DEF Inv, Espera
<1>6. TiposDelResto' /\ ColasSinRepetir' /\ Contextos'
  BY <1>2 DEF Inv, Espera, TiposDelResto, ColasSinRepetir, Contextos
<1> QED
  BY <1>1, <1>4, <1>5, <1>6 DEF Espera

\* Every step keeps what is known of the lists and of who waits for what.
LEMMA PasoDeHilos ==
  ASSUME Inv, Next
  PROVE  ListasBien' /\ Espera'
<1>1. ASSUME NEW h \in Tids, PasoHilo(h)  PROVE ListasBien' /\ Espera'
  <2>1. CASE ThreadCancelPropio(h) \/ ThreadExit(h)
    <3>1. estado[h] = "EXEC" /\ Existe(h) /\ sistema = "vivo"
      BY <2>1, QuienCorre DEF Inv, ThreadCancelPropio, ThreadExit
    <3>2. Finalizar(h) /\ sistema' \in {"vivo", "memoria"} /\ UNCHANGED <<mutexes, io, perdidos>>
      BY <2>1, <3>1 DEF ThreadCancelPropio, ThreadExit
    <3> QED
      BY <3>1, <3>2, AlFinalizar
  <2> QED
    BY <1>1, <2>1, EsperaAlDespachar, AlDesalojar, AlCrear, AlPedirIo, AlTerminarIo DEF PasoHilo
<1>2. ASSUME NEW h \in Tids, NEW m \in Mutexes, PasoMutex(h, m)  PROVE ListasBien' /\ Espera'
  <2>1. CASE MutexCreate(h, m) \/ MutexLockLibre(h, m) \/ MutexUnlockLibera(h, m)
    <3>1. UNCHANGED <<sistema, en, estado, esperan, destruidas, io, conContexto, perdidos>>
      BY <2>1 DEF MutexCreate, MutexLockLibre, MutexUnlockLibera
    <3>2. \A n \in Mutexes : mutexes'[n].bloqueados = mutexes[n].bloqueados
      <4>1. mutexes \in [Mutexes -> Mutex]
        BY DEF Inv, Inductivo, TipoMutexes
      <4>2. \E r : mutexes' = [mutexes EXCEPT ![m] = r] /\ r.bloqueados = mutexes[m].bloqueados
        <5>1. CASE MutexCreate(h, m)
          <6> DEFINE r == [mutexes[m] EXCEPT !.existe = TRUE]
          <6>1. mutexes' = [mutexes EXCEPT ![m] = r] /\ r.bloqueados = mutexes[m].bloqueados
            BY <4>1, <5>1 DEF MutexCreate, Mutex
          <6> QED
            BY <6>1
        <5>2. CASE MutexLockLibre(h, m)
          <6> DEFINE r == [mutexes[m] EXCEPT !.libre = FALSE, !.thread = h]
          <6>1. mutexes' = [mutexes EXCEPT ![m] = r] /\ r.bloqueados = mutexes[m].bloqueados
            BY <4>1, <5>2 DEF MutexLockLibre, Mutex
          <6> QED
            BY <6>1
        <5>3. CASE MutexUnlockLibera(h, m)
          <6> DEFINE r == [mutexes[m] EXCEPT !.thread = 0, !.libre = TRUE]
          <6>1. mutexes' = [mutexes EXCEPT ![m] = r] /\ r.bloqueados = mutexes[m].bloqueados
            BY <4>1, <5>3 DEF MutexUnlockLibera, Mutex
          <6> QED
            BY <6>1
        <5> QED
          BY <2>1, <5>1, <5>2, <5>3
      <4>3. PICK r : mutexes' = [mutexes EXCEPT ![m] = r] /\ r.bloqueados = mutexes[m].bloqueados
        BY <4>2
      <4> QED
        BY <4>1, <4>3
    <3> QED
      BY <3>1, <3>2, AlUsarMutex
  <2>2. CASE MutexLockInexistente(h, m)
    <3>1. estado[h] = "EXEC" /\ Existe(h) /\ sistema = "vivo"
      BY <2>2, QuienCorre DEF Inv, MutexLockInexistente
    <3> QED
      BY <2>2, <3>1, AlFinalizar DEF MutexLockInexistente
  <2>3. CASE MutexUnlockInexistente(h, m)
    BY <2>3, AlCaer DEF MutexUnlockInexistente, Caer
  <2> QED
    BY <1>2, <2>1, <2>2, <2>3, AlPedirMutex, AlEntregar DEF PasoMutex
<1>3. ASSUME NEW h \in Tids, NEW g \in Tids, PasoEntreHilos(h, g)  PROVE ListasBien' /\ Espera'
  <2>1. CASE TidInexistente(h, g)
    BY <2>1, AlCaer DEF TidInexistente, Caer
  <2>2. CASE ThreadCancel(h, g)
    <3>1. sistema = "vivo" /\ Existe(g) /\ estado[g] # "EXIT"
      BY <2>2 DEF ThreadCancel, Corre
    <3>2. CASE g \in conContexto
      BY <2>2, <3>1, <3>2, AlFinalizar DEF ThreadCancel
    <3>3. CASE g \notin conContexto
      BY <2>2, <3>3, AlCaer DEF ThreadCancel, CaerMemoria
    <3> QED
      BY <3>2, <3>3
  <2> QED
    BY <1>3, <2>1, <2>2, AlPedirFin, AlUnirseTarde DEF PasoEntreHilos
<1>4. ASSUME BusquedasCruzadas  PROVE ListasBien' /\ Espera'
  BY <1>4, AlCaer DEF BusquedasCruzadas
<1> QED
  BY <1>1, <1>2, <1>3, <1>4, AlSalir DEF Next

LEMMA InicioDeHilos == Init => Inv
<1> SUFFICES ASSUME Init  PROVE Inv
  OBVIOUS
<1>1. Inductivo
  BY CeroEsTid DEF Init, Inductivo, TipoMutexes, Duenios, Mutex
<1>2. ListasBien
  <2>1. en \in Cuentas /\ estado \in [Tids -> Nombres]
    BY DEF Init, Cuentas, Nombres
  <2>2. \A h \in Tids : /\ en["ready"][h] = (IF h = 0 THEN 1 ELSE 0) /\ en["exec"][h] = 0
                        /\ estado[h] = IF h = 0 THEN "READY" ELSE "NADA"
    BY DEF Init, ListasDeHilos
  <2> QED
    BY <2>1, <2>2 DEF ListasBien, EnSuLista
<1>3. TiposDelResto
  BY CeroEsTid DEF Init, TiposDelResto
<1>4. \A m \in Mutexes : mutexes[m].bloqueados = <<>>
  BY DEF Init
<1>5. \A h \in Tids : ~ConMotivo(h)
  BY <1>4 DEF Init, ConMotivo, Encolado, EnLista
<1>6. UnSoloMotivo
  BY <1>5 DEF Init, UnSoloMotivo, Motivo, ConMotivo
<1>7. ColasSinRepetir
  BY <1>4 DEF ColasSinRepetir, SinRepetir
<1>8. Contextos
  BY DEF Init, Contextos
<1>9. Seguidos
  BY CeroEsTid DEF Init, Seguidos, Existe, Tids
<1> QED
  BY <1>1, <1>2, <1>3, <1>6, <1>7, <1>8, <1>9 DEF Inv, Espera

LEMMA InvSiempre == Spec => []Inv
<1>1. Inv /\ [Next]_vars => Inv'
  <2>1. ASSUME Inv, Next  PROVE Inv'
    <3>1. Inductivo'
      BY <2>1, HiloSigue, MutexSigue, EntreHilosSigue, SalidaSigue, CruceSigue DEF Next, Inv
    <3> QED
      BY <2>1, <3>1, PasoDeHilos DEF Inv
  <2>2. ASSUME Inv, UNCHANGED vars  PROVE Inv'
    <3>1. UNCHANGED <<sistema, en, estado, mutexes, esperan, destruidas, io, conContexto,
                      perdidos, adentro>>
      BY <2>2 DEF vars
    <3>2. Inductivo'
      BY <2>2, <3>1 DEF Inv, Inductivo, TipoMutexes, Duenios
    <3> QED
      BY <2>2, <3>1, <3>2, AlUsarMutex DEF Inv
  <2> QED
    BY <2>1, <2>2
<1> QED
  BY <1>1, InicioDeHilos, PTL DEF Spec

\* Every variable stays within its type; the searches of
\* buscar_y_remover_tcb_por_tid always find the thread somewhere, so that no
\* list loses a thread it does not have.
THEOREM TiposDeLosHilos == Spec => []TypeOK
<1>1. Inv => TypeOK
  BY DEF Inv, Inductivo, TipoMutexes, Mutex, ListasBien, Cuentas, Nombres, Espera,
         TiposDelResto, TypeOK
<1> QED
  BY <1>1, InvSiempre, PTL

\* While no search overlaps another the state of a tcb names a list it is in,
\* and it is in READY and EXEC once or not at all, although nobody takes a
\* thread that is readied out of lista_blocked_thread or lista_exit_thread.
THEOREM CadaEstadoEnSuLista == Spec => []ListaSegunEstado
<1>1. Inv => ListaSegunEstado
  BY DEF Inv, ListasBien, ListaSegunEstado
<1> QED
  BY <1>1, InvSiempre, PTL

-----------------------------------------------------------------------------
(* Who has the mutex that a blocked thread waits for *)

\* The owner of a busy mutex is a thread that existed, and it believes it has
\* the mutex unless it has ended.
ConDuenios ==
  \A m \in Mutexes : ~mutexes[m].libre => Existe(mutexes[m].thread) /\ ConDuenio(m)

\* Nobody new gets a context except a thread just created, and who leaves a
\* mutex has ended.
LEMMA DueniosQuedan ==
  ASSUME Inv, ConDuenios, UNCHANGED mutexes,
         \A g \in Tids : Existe(g) => Existe(g)' /\ (g \in conContexto' => g \in conContexto),
         \A m \in Mutexes : \A g \in adentro[m] : g \in adentro'[m] \/ g \notin conContexto'
  PROVE  ConDuenios'
<1>1. \A m \in Mutexes : mutexes[m].thread \in Tids
  BY DEF Inv, Inductivo, TipoMutexes, Mutex
<1> QED
  BY <1>1 DEF ConDuenios, ConDuenio, Existe

\* Only m changes: it is freed, it goes to a thread, or it keeps its owner.
LEMMA DuenioCambia ==
  ASSUME Inv, ConDuenios, NEW m \in Mutexes, NEW x, mutexes' = [mutexes EXCEPT ![m] = x],
         UNCHANGED conContexto, \A g \in Tids : Existe(g) => Existe(g)',
         \A n \in Mutexes \ {m} : adentro'[n] = adentro[n],
         \/ x.libre
         \/ Existe(x.thread)' /\ x.thread \in adentro'[m]
         \/ x.thread = mutexes[m].thread /\ x.libre = mutexes[m].libre /\ adentro'[m] = adentro[m]
  PROVE  ConDuenios'
<1>1. \A n \in Mutexes : mutexes'[n] = IF n = m THEN x ELSE mutexes[n]
  BY DEF Inv, Inductivo, TipoMutexes
<1>2. \A n \in Mutexes : mutexes[n].thread \in Tids
  BY DEF Inv, Inductivo, TipoMutexes, Mutex
<1> SUFFICES ASSUME NEW n \in Mutexes, ~mutexes'[n].libre
             PROVE  estado'[mutexes'[n].thread] # "NADA" /\ ConDuenio(n)'
  BY DEF ConDuenios, Existe
<1>3. CASE n = m
  BY <1>1, <1>2, <1>3 DEF ConDuenios, ConDuenio, Existe
<1>4. CASE n # m
  BY <1>1, <1>2, <1>4 DEF ConDuenios, ConDuenio, Existe
<1> QED
  BY <1>3, <1>4

\* A thread ends.
LEMMA DueniosAlFinalizar ==
  ASSUME Inv, ConDuenios, NEW h \in Tids, Finalizar(h), UNCHANGED mutexes
  PROVE  ConDuenios'
<1>1. /\ conContexto' = conContexto \ {h} /\ \A m \in Mutexes : adentro'[m] = adentro[m] \ {h}
      /\ \A g \in Tids : Existe(g) => Existe(g)'
  BY DEF Finalizar, Existe
<1> QED
  BY <1>1, DueniosQuedan

\* Nobody enters or leaves a mutex.
LEMMA DueniosIguales ==
  ASSUME Inv, ConDuenios, UNCHANGED <<mutexes, adentro>>,
         \A g \in Tids : Existe(g) => Existe(g)' /\ (g \in conContexto' => g \in conContexto)
  PROVE  ConDuenios'
BY DueniosQuedan

LEMMA DueniosPasoHilo ==
  ASSUME Inv, ConDuenios, NEW h \in Tids, PasoHilo(h)
  PROVE  ConDuenios'
<1>1. CASE ThreadCancelPropio(h) \/ ThreadExit(h)
  BY <1>1, DueniosAlFinalizar DEF ThreadCancelPropio, ThreadExit
<1>2. CASE Despachar(h) \/ Desalojar(h) \/ Io(h) \/ IoTermina(h)
  <2>1. UNCHANGED <<mutexes, adentro, conContexto>>
    BY <1>2 DEF Despachar, Desalojar, Io, IoTermina
  <2>2. \E x \in Nombres \ {"NADA"} : estado' = [estado EXCEPT ![h] = x]
    BY <1>2 DEF Despachar, Desalojar, Io, IoTermina, Bloquear, Nombres
  <2>3. \A g \in Tids : Existe(g) => Existe(g)'
    BY <2>2 DEF Existe, Inv, ListasBien
  <2> QED
    BY <2>1, <2>3, DueniosIguales
<1>3. CASE ThreadCreate(h)
  <2>1. CASE Caer
    BY <2>1, DueniosIguales DEF Caer, Existe
  <2>2. CASE ~Caer
    <3>1. PICK c : c = Cardinality(Creados)
      OBVIOUS
    <3>2. c \in Tids /\ ~Existe(c)
      BY <1>3, <3>1, TidNuevo DEF ThreadCreate
    <3>3. /\ estado' = [estado EXCEPT ![c] = "READY"] /\ conContexto' = conContexto \cup {c}
          /\ UNCHANGED <<mutexes, adentro>>
      BY <1>3, <2>2, <3>1 DEF ThreadCreate
    <3>4. \A g \in Tids : Existe(g) => Existe(g)' /\ (g \in conContexto' => g \in conContexto)
      BY <3>2, <3>3 DEF Existe, Inv, ListasBien
    <3> QED
      BY <3>3, <3>4, DueniosIguales
  <2> QED
    BY <2>1, <2>2
<1> QED
  BY <1>1, <1>2, <1>3 DEF PasoHilo

LEMMA DueniosPasoMutex ==
  ASSUME Inv, ConDuenios, NEW h \in Tids, NEW m \in Mutexes, PasoMutex(h, m)
  PROVE  ConDuenios'
<1>0. /\ mutexes[m] \in Mutex /\ mutexes \in [Mutexes -> Mutex]
      /\ adentro \in [Mutexes -> SUBSET Tids] /\ estado \in [Tids -> Nombres]
  BY DEF Inv, Inductivo, TipoMutexes, ListasBien
<1>1. CASE MutexCreate(h, m)
  <2>1. PICK x : x = [mutexes[m] EXCEPT !.existe = TRUE]
    OBVIOUS
  <2>2. x.thread = mutexes[m].thread /\ x.libre = mutexes[m].libre
    BY <1>0, <2>1 DEF Mutex
  <2>3. mutexes' = [mutexes EXCEPT ![m] = x] /\ UNCHANGED <<adentro, conContexto, estado>>
    BY <1>1, <2>1 DEF MutexCreate
  <2> QED
    BY <2>2, <2>3, DuenioCambia DEF Existe
<1>2. CASE MutexLockLibre(h, m)
  <2>1. PICK x : x = [mutexes[m] EXCEPT !.libre = FALSE, !.thread = h]
    OBVIOUS
  <2>2. x.thread = h
    BY <1>0, <2>1 DEF Mutex
  <2>3. /\ mutexes' = [mutexes EXCEPT ![m] = x] /\ UNCHANGED <<conContexto, estado>>
        /\ adentro' = [adentro EXCEPT ![m] = adentro[m] \cup {h}]
    BY <1>2, <2>1 DEF MutexLockLibre
  <2>4. h \in adentro'[m] /\ \A n \in Mutexes \ {m} : adentro'[n] = adentro[n]
    BY <1>0, <2>3
  <2>5. Existe(h)
    BY <1>2, QuienCorre DEF Inv, MutexLockLibre
  <2>6. \A g \in Tids : Existe(g) => Existe(g)'
    BY <2>3 DEF Existe
  <2>7. Existe(x.thread)' /\ x.thread \in adentro'[m]
    BY <2>2, <2>4, <2>5, <2>6
  <2> QED
    BY <2>3, <2>4, <2>6, <2>7, DuenioCambia
<1>3. CASE MutexLockOcupado(h, m)
  <2>1. PICK x : x = [mutexes[m] EXCEPT !.bloqueados = Append(mutexes[m].bloqueados, h)]
    OBVIOUS
  <2>2. x.thread = mutexes[m].thread /\ x.libre = mutexes[m].libre
    BY <1>0, <2>1 DEF Mutex
  <2>3. /\ mutexes' = [mutexes EXCEPT ![m] = x] /\ UNCHANGED <<adentro, conContexto>>
        /\ estado' = [estado EXCEPT ![h] = "BLOCKED"]
    BY <1>3, <2>1 DEF MutexLockOcupado, Bloquear
  <2>4. \A g \in Tids : Existe(g) => Existe(g)'
    BY <1>0, <2>3 DEF Existe
  <2> QED
    BY <2>2, <2>3, <2>4, DuenioCambia
<1>4. CASE MutexLockInexistente(h, m)
  BY <1>4, DueniosAlFinalizar DEF MutexLockInexistente
<1>5. CASE MutexUnlockEntrega(h, m)
  <2>1. PICK w : w = Head(mutexes[m].bloqueados)
    OBVIOUS
  <2>2. PICK x : x = [mutexes[m] EXCEPT !.thread = w, !.bloqueados = Tail(mutexes[m].bloqueados)]
    OBVIOUS
  <2>3. x.thread = w
    BY <1>0, <2>2 DEF Mutex
  <2>4. /\ mutexes' = [mutexes EXCEPT ![m] = x] /\ UNCHANGED conContexto
        /\ adentro' = [adentro EXCEPT ![m] = (adentro[m] \ {h}) \cup {w}]
        /\ estado' = [estado EXCEPT ![w] = "READY"] /\ mutexes[m].bloqueados # <<>>
    BY <1>5, <2>1, <2>2 DEF MutexUnlockEntrega
  <2>5. w \in Tids
    BY <1>0, <2>1, <2>4 DEF Mutex
  <2>6. /\ w \in adentro'[m] /\ \A n \in Mutexes \ {m} : adentro'[n] = adentro[n]
        /\ Existe(w)' /\ \A g \in Tids : Existe(g) => Existe(g)'
    BY <1>0, <2>4, <2>5 DEF Existe
  <2>7. Existe(x.thread)' /\ x.thread \in adentro'[m]
    BY <2>3, <2>6
  <2> QED
    BY <2>4, <2>6, <2>7, DuenioCambia
<1>6. CASE MutexUnlockLibera(h, m)
  <2>1. PICK x : x = [mutexes[m] EXCEPT !.thread = 0, !.libre = TRUE]
    OBVIOUS
  <2>2. x.libre
    BY <1>0, <2>1 DEF Mutex
  <2>3. /\ mutexes' = [mutexes EXCEPT ![m] = x] /\ UNCHANGED <<conContexto, estado>>
        /\ adentro' = [adentro EXCEPT ![m] = adentro[m] \ {h}]
    BY <1>6, <2>1 DEF MutexUnlockLibera
  <2>4. \A n \in Mutexes \ {m} : adentro'[n] = adentro[n]
    BY <1>0, <2>3
  <2> QED
    BY <2>2, <2>3, <2>4, DuenioCambia DEF Existe
<1>7. CASE MutexUnlockInexistente(h, m)
  BY <1>7, DueniosIguales DEF MutexUnlockInexistente, Caer, Existe
<1> QED
  BY <1>1, <1>2, <1>3, <1>4, <1>5, <1>6, <1>7 DEF PasoMutex

LEMMA DueniosEntreHilos ==
  ASSUME Inv, ConDuenios, NEW h \in Tids, NEW g \in Tids, PasoEntreHilos(h, g)
  PROVE  ConDuenios'
<1>1. CASE ThreadCancel(h, g) /\ g \in conContexto
  BY <1>1, DueniosAlFinalizar DEF ThreadCancel
<1>2. CASE \/ ThreadJoin(h, g) \/ ThreadJoinDestruida(h, g) \/ TidInexistente(h, g)
           \/ ThreadCancel(h, g) /\ g \notin conContexto
  <2>1. UNCHANGED <<mutexes, adentro, conContexto>>
    BY <1>2 DEF ThreadJoin, ThreadJoinDestruida, TidInexistente, ThreadCancel, Caer, CaerMemoria
  <2>2. estado' = estado \/ estado' = [estado EXCEPT ![h] = "BLOCKED"]
    BY <1>2 DEF ThreadJoin, ThreadJoinDestruida, TidInexistente, ThreadCancel, Caer, CaerMemoria,
                Bloquear
  <2>3. \A k \in Tids : Existe(k) => Existe(k)'
    BY <2>2 DEF Existe, Inv, ListasBien
  <2> QED
    BY <2>1, <2>3, DueniosIguales
<1> QED
  BY <1>1, <1>2 DEF PasoEntreHilos

LEMMA DueniosSiempre == Spec => [](Inv /\ ConDuenios)
<1>1. Init => ConDuenios
  BY DEF Init, ConDuenios
<1>2. ASSUME Inv, ConDuenios, [Next]_vars  PROVE ConDuenios'
  <2>1. CASE ProcessExit
    <3>1. UNCHANGED mutexes /\ conContexto' = {} /\ \A g \in Tids : Existe(g) => Existe(g)'
      BY <2>1 DEF ProcessExit, Existe
    <3> QED
      BY <1>2, <3>1, DueniosQuedan
  <2>2. CASE BusquedasCruzadas \/ UNCHANGED vars
    <3>1. UNCHANGED <<mutexes, adentro, conContexto, estado>>
      BY <2>2 DEF BusquedasCruzadas, vars
    <3> QED
      BY <1>2, <3>1, DueniosIguales DEF Existe
  <2> QED
    BY <1>2, <2>1, <2>2, DueniosPasoHilo, DueniosPasoMutex, DueniosEntreHilos DEF Next
<1> QED
  BY <1>1, <1>2, InvSiempre, PTL DEF Spec

\* What a blocked thread waits for is the only thing that can ready it.
LEMMA UnaSolaEspera ==
  ASSUME Inv, NEW h \in Tids, estado[h] = "BLOCKED", h \notin perdidos
  PROVE  \E x : EsperaPor(h) = {x}
<1>1. Motivo(h) /\ ConMotivo(h)
  BY DEF Inv, Espera, UnSoloMotivo, Motivo
<1>2. \A k \in Tids : h \in esperan[k] => estado[k] # "EXIT"
  BY DEF Inv, Espera, Contextos
<1>3. CASE h \in io
  <2>1. EsperaPor(h) = {<<"io", h>>}
    BY <1>1, <1>3 DEF EsperaPor, Motivo, Encolado
  <2> QED
    BY <2>1
<1>4. CASE \E m \in Mutexes : Encolado(h, m)
  <2>1. PICK m \in Mutexes : Encolado(h, m)
    BY <1>4
  <2>2. h \notin io /\ (\A k \in Tids : h \notin esperan[k])
        /\ \A n \in Mutexes : Encolado(h, n) => n = m
    BY <1>1, <2>1 DEF Motivo
  <2>3. EsperaPor(h) = {<<"mutex", m>>}
    BY <2>1, <2>2 DEF EsperaPor, Encolado
  <2> QED
    BY <2>3
<1>5. CASE \E k \in Tids : h \in esperan[k]
  <2>1. PICK k \in Tids : h \in esperan[k]
    BY <1>5
  <2>2. h \notin io /\ (\A m \in Mutexes : ~Encolado(h, m))
        /\ \A j \in Tids : h \in esperan[j] => j = k
    BY <1>1, <2>1 DEF Motivo
  <2>3. EsperaPor(h) = {<<"join", k>>}
    BY <1>2, <2>1, <2>2 DEF EsperaPor, Encolado
  <2> QED
    BY <2>3
<1> QED
  BY <1>1, <1>3, <1>4, <1>5 DEF ConMotivo

\* A blocked thread waits for exactly one thing, and that has not happened yet,
\* whatever cancels, exits and hand-overs came before: its IO has not ended, the
\* thread it joined has not ended, or the mutex is busy and its owner believes
\* it has it or has ended.  That it will happen is not claimed: nobody unlocks
\* the mutex of an owner that has ended, or of the blocked thread itself.
THEOREM BloqueadosConUnaEspera == Spec => []TodoBloqueadoEsperaAlgo
<1>1. Inv /\ ConDuenios => TodoBloqueadoEsperaAlgo
  <2> SUFFICES ASSUME Inv, ConDuenios, NEW h \in Tids, estado[h] = "BLOCKED", h \notin perdidos
               PROVE  /\ Cardinality(EsperaPor(h)) = 1
                      /\ \A m \in Mutexes :
                           EnLista(mutexes[m].bloqueados, h) => ConDuenio(m)
    BY DEF TodoBloqueadoEsperaAlgo
  <2>1. PICK x : EsperaPor(h) = {x}
    BY UnaSolaEspera
  <2>2. Cardinality(EsperaPor(h)) = 1
    BY <2>1, FS_Singleton, Zenon
  <2>3. \A m \in Mutexes : EnLista(mutexes[m].bloqueados, h) => ~mutexes[m].libre
    BY DEF Inv, Inductivo, Duenios, EnLista
  <2> QED
    BY <2>2, <2>3 DEF ConDuenios
<1> QED
  BY <1>1, DueniosSiempre, PTL
=============================================================================
