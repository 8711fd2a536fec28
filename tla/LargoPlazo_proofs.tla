-------------------------- MODULE LargoPlazo_proofs --------------------------
(***************************************************************************)
(* The user memory and the admission of processes, for any memory, sizes,  *)
(* schemes, searches and number of processes: the tiling, the choices, the *)
(* order, and that the partitions implement MemoriaDeUsuario.              *)
(***************************************************************************)
EXTENDS LargoPlazo, Listas_proofs

Marcos == [base : Nat, tamanio : Nat, libre : BOOLEAN, pid : Int]

\* The partition is free and the process fits in it.
Sirve(i, t) == particiones[i].libre /\ particiones[i].tamanio >= t

LEMMA MinSpaceElige ==
  ASSUME particiones \in Seq(Marcos), NEW t \in Nat,
         NEW i \in 1..Len(particiones), NEW j \in 1..Len(particiones)
  PROVE  /\ MinSpace(i, j, t) \in {i, j}
         /\ Sirve(i, t) \/ Sirve(j, t) => Sirve(MinSpace(i, j, t), t)
         /\ Sirve(i, t) => particiones[MinSpace(i, j, t)].tamanio <= particiones[i].tamanio
         /\ Sirve(j, t) => particiones[MinSpace(i, j, t)].tamanio <= particiones[j].tamanio
<1>1. particiones[i] \in Marcos /\ particiones[j] \in Marcos
  OBVIOUS
<1>2. particiones[i].tamanio \in Nat /\ particiones[j].tamanio \in Nat
  BY <1>1 DEF Marcos
<1> QED
  BY <1>2 DEF MinSpace, Sirve

LEMMA MaxSpaceElige ==
  ASSUME particiones \in Seq(Marcos),
         NEW i \in 1..Len(particiones), NEW j \in 1..Len(particiones)
  PROVE  /\ MaxSpace(i, j) \in {i, j}
         /\ particiones[i].libre \/ particiones[j].libre => particiones[MaxSpace(i, j)].libre
         /\ particiones[i].libre =>
              particiones[MaxSpace(i, j)].tamanio >= particiones[i].tamanio
         /\ particiones[j].libre =>
              particiones[MaxSpace(i, j)].tamanio >= particiones[j].tamanio
<1>1. particiones[i] \in Marcos /\ particiones[j] \in Marcos
  OBVIOUS
<1>2. particiones[i].tamanio \in Nat /\ particiones[j].tamanio \in Nat
  BY <1>1 DEF Marcos
<1> QED
  BY <1>2 DEF MaxSpace

\* The fold of list_get_minimum leaves, at each position, a smallest of the
\* partitions up to it where the process fits.
LEMMA MinimoElige ==
  ASSUME particiones \in Seq(Marcos), particiones # <<>>, NEW t \in Nat
  PROVE  /\ Minimo(t) \in 1..Len(particiones)
         /\ \A j \in 1..Len(particiones) : Sirve(j, t) =>
              /\ Sirve(Minimo(t), t)
              /\ particiones[Minimo(t)].tamanio <= particiones[j].tamanio
<1> DEFINE n == Len(particiones)
           S == 1..n
           Op == [i \in 1..n |-> [k \in S |-> MinSpace(k, i, t)]]
           Es(f) == f = [i \in 1..n |-> IF i = 1 THEN 1 ELSE MinSpace(f[i - 1], i, t)]
           Mejor(i, s) == /\ s <= i
                          /\ \A j \in 1..i : Sirve(j, t) =>
                               /\ Sirve(s, t)
                               /\ particiones[s].tamanio <= particiones[j].tamanio
<1>1. n \in Nat /\ 1 \in S /\ n \in 1..n /\ n > 0
  OBVIOUS
<1>2. \A i \in 1..n : particiones[i].tamanio \in Nat
  <2>1. \A i \in 1..n : particiones[i] \in Marcos
    OBVIOUS
  <2> QED
    BY <2>1 DEF Marcos
<1>3. \A i \in 1..n, s \in S : Op[i][s] = MinSpace(s, i, t) /\ MinSpace(s, i, t) \in S
  BY MinSpaceElige
<1>4. Op \in [1..n -> [S -> S]]
  BY <1>3
<1>5. PICK g : EsPlegado(g, n, S, 1, Op)
  <2> HIDE DEF Op, n, S
  <2>1. SePliega(n, S, 1, Op)
    BY <1>1, <1>4, Plegado
  <2> QED
    BY <2>1 DEF SePliega
<1>6. Es(g)
  <2> HIDE DEF Op, S, n
  <2>1. /\ g \in [1..n -> S]
        /\ \A i \in 1..n : g[i] = IF i = 1 THEN 1 ELSE Op[i][g[i - 1]]
    BY <1>5 DEF EsPlegado
  <2>2. ASSUME NEW i \in 1..n, i # 1  PROVE Op[i][g[i - 1]] = MinSpace(g[i - 1], i, t)
    <3>1. i - 1 \in 1..n
      BY <1>1, <2>2
    <3> QED
      BY <2>1, <3>1, <1>3
  <2>3. \A i \in 1..n : g[i] = IF i = 1 THEN 1 ELSE MinSpace(g[i - 1], i, t)
    BY <2>1, <2>2
  <2> QED
    BY <2>1, <2>3
<1>7. ASSUME NEW i \in 2..n, NEW s \in S, Mejor(i - 1, s)
      PROVE  Mejor(i, MinSpace(s, i, t))
  <2> DEFINE m == MinSpace(s, i, t)
  <2>1. /\ m \in {s, i}
        /\ Sirve(s, t) \/ Sirve(i, t) => Sirve(m, t)
        /\ Sirve(s, t) => particiones[m].tamanio <= particiones[s].tamanio
        /\ Sirve(i, t) => particiones[m].tamanio <= particiones[i].tamanio
    BY MinSpaceElige
  <2> HIDE DEF m
  <2>2. m \in 1..n /\ m <= i
    BY <1>7, <2>1
  <2>3. ASSUME NEW j \in 1..i, Sirve(j, t)
        PROVE  Sirve(m, t) /\ particiones[m].tamanio <= particiones[j].tamanio
    <3>1. CASE j = i
      BY <2>1, <2>3, <3>1
    <3>2. CASE j # i
      <4>1. j \in 1..(i - 1) /\ j \in 1..n
        BY <3>2
      <4>2. Sirve(s, t) /\ particiones[s].tamanio <= particiones[j].tamanio
        BY <4>1, <2>3, <1>7
      <4> QED
        BY <4>1, <4>2, <2>1, <2>2, <1>2
    <3> QED
      BY <3>1, <3>2
  <2> QED
    BY <2>2, <2>3 DEF m
<1>8. PICK f : f = (CHOOSE h : Es(h))
  OBVIOUS
<1>9. Es(f) /\ Minimo(t) = f[n]
  BY <1>6, <1>8 DEF Minimo
<1>10. f[1] = 1 /\ \A i \in 2..n : f[i] = MinSpace(f[i - 1], i, t)
  BY <1>1, <1>9
<1> DEFINE T == {i \in 1..n : f[i] \in S /\ Mejor(i, f[i])}
<1>11. 1 \in T
  <2>1. \A j \in 1..1 : j = 1
    OBVIOUS
  <2> QED
    BY <1>1, <1>2, <1>10, <2>1
<1>12. ASSUME NEW i \in 2..n, i - 1 \in T  PROVE i \in T
  <2> HIDE DEF Mejor, Op
  <2>1. f[i - 1] \in S /\ Mejor(i - 1, f[i - 1])
    BY <1>12
  <2>2. f[i] = MinSpace(f[i - 1], i, t) /\ i \in 1..n
    BY <1>10
  <2>3. Mejor(i, f[i])
    BY <2>1, <2>2, <1>7
  <2>4. f[i] \in S
    BY <2>1, <2>2, <1>3
  <2> QED
    BY <2>2, <2>3, <2>4
<1>13. n \in T
  <2> HIDE DEF T
  <2> QED
    BY <1>1, <1>11, <1>12, Induccion
<1> QED
  BY <1>9, <1>13
\* The fold of list_get_maximum leaves, at each position, a largest of the
\* free partitions up to it.
LEMMA MaximoElige ==
  ASSUME particiones \in Seq(Marcos), particiones # <<>>
  PROVE  /\ Maximo \in 1..Len(particiones)
         /\ \A j \in 1..Len(particiones) : particiones[j].libre =>
              /\ particiones[Maximo].libre
              /\ particiones[Maximo].tamanio >= particiones[j].tamanio
<1> DEFINE n == Len(particiones)
           S == 1..n
           Op == [i \in 1..n |-> [k \in S |-> MaxSpace(k, i)]]
           Es(f) == f = [i \in 1..n |-> IF i = 1 THEN 1 ELSE MaxSpace(f[i - 1], i)]
           Mejor(i, s) == /\ s <= i
                          /\ \A j \in 1..i : particiones[j].libre =>
                               /\ particiones[s].libre
                               /\ particiones[s].tamanio >= particiones[j].tamanio
<1>1. n \in Nat /\ 1 \in S /\ n \in 1..n /\ n > 0
  OBVIOUS
<1>2. \A i \in 1..n : particiones[i].tamanio \in Nat
  <2>1. \A i \in 1..n : particiones[i] \in Marcos
    OBVIOUS
  <2> QED
    BY <2>1 DEF Marcos
<1>3. \A i \in 1..n, s \in S : Op[i][s] = MaxSpace(s, i) /\ MaxSpace(s, i) \in S
  BY MaxSpaceElige
<1>4. Op \in [1..n -> [S -> S]]
  BY <1>3
<1>5. PICK g : EsPlegado(g, n, S, 1, Op)
  <2> HIDE DEF Op, n, S
  <2>1. SePliega(n, S, 1, Op)
    BY <1>1, <1>4, Plegado
  <2> QED
    BY <2>1 DEF SePliega
<1>6. Es(g)
  <2> HIDE DEF Op, S, n
  <2>1. /\ g \in [1..n -> S]
        /\ \A i \in 1..n : g[i] = IF i = 1 THEN 1 ELSE Op[i][g[i - 1]]
    BY <1>5 DEF EsPlegado
  <2>2. ASSUME NEW i \in 1..n, i # 1  PROVE Op[i][g[i - 1]] = MaxSpace(g[i - 1], i)
    <3>1. i - 1 \in 1..n
      BY <1>1, <2>2
    <3> QED
      BY <2>1, <3>1, <1>3
  <2>3. \A i \in 1..n : g[i] = IF i = 1 THEN 1 ELSE MaxSpace(g[i - 1], i)
    BY <2>1, <2>2
  <2> QED
    BY <2>1, <2>3
<1>7. ASSUME NEW i \in 2..n, NEW s \in S, Mejor(i - 1, s)
      PROVE  Mejor(i, MaxSpace(s, i))
  <2> DEFINE m == MaxSpace(s, i)
  <2>1. /\ m \in {s, i}
        /\ particiones[s].libre \/ particiones[i].libre => particiones[m].libre
        /\ particiones[s].libre => particiones[m].tamanio >= particiones[s].tamanio
        /\ particiones[i].libre => particiones[m].tamanio >= particiones[i].tamanio
    BY MaxSpaceElige
  <2> HIDE DEF m
  <2>2. m \in 1..n /\ m <= i
    BY <1>7, <2>1
  <2>3. ASSUME NEW j \in 1..i, particiones[j].libre
        PROVE  particiones[m].libre /\ particiones[m].tamanio >= particiones[j].tamanio
    <3>1. CASE j = i
      BY <2>1, <2>3, <3>1
    <3>2. CASE j # i
      <4>1. j \in 1..(i - 1) /\ j \in 1..n
        BY <3>2
      <4>2. particiones[s].libre /\ particiones[s].tamanio >= particiones[j].tamanio
        BY <4>1, <2>3, <1>7
      <4> QED
        BY <4>1, <4>2, <2>1, <2>2, <1>2
    <3> QED
      BY <3>1, <3>2
  <2> QED
    BY <2>2, <2>3 DEF m
<1>8. PICK f : f = (CHOOSE h : Es(h))
  OBVIOUS
<1>9. Es(f) /\ Maximo = f[n]
  BY <1>6, <1>8 DEF Maximo
<1>10. f[1] = 1 /\ \A i \in 2..n : f[i] = MaxSpace(f[i - 1], i)
  BY <1>1, <1>9
<1> DEFINE T == {i \in 1..n : f[i] \in S /\ Mejor(i, f[i])}
<1>11. 1 \in T
  <2>1. \A j \in 1..1 : j = 1
    OBVIOUS
  <2> QED
    BY <1>1, <1>2, <1>10, <2>1
<1>12. ASSUME NEW i \in 2..n, i - 1 \in T  PROVE i \in T
  <2> HIDE DEF Mejor, Op
  <2>1. f[i - 1] \in S /\ Mejor(i - 1, f[i - 1])
    BY <1>12
  <2>2. f[i] = MaxSpace(f[i - 1], i) /\ i \in 1..n
    BY <1>10
  <2>3. Mejor(i, f[i])
    BY <2>1, <2>2, <1>7
  <2>4. f[i] \in S
    BY <2>1, <2>2, <1>3
  <2> QED
    BY <2>2, <2>3, <2>4
<1>13. n \in T
  <2> HIDE DEF T
  <2> QED
    BY <1>1, <1>11, <1>12, Induccion
<1> QED
  BY <1>9, <1>13

\* BEST and WORST choose well in every list of partitions, FIRST too.
LEMMA EligeBien ==
  ASSUME particiones \in Seq(Marcos), particiones # <<>>, busqueda \in Busquedas
  PROVE  BuenaEleccion
<1>1. SUFFICES ASSUME NEW t \in Tamanios, NEW k \in 1..Len(particiones),
                      Cabe(t), Elegida(k, t)
               PROVE  /\ Sirve(k, t)
                      /\ \A j \in 1..Len(particiones) : Sirve(j, t) =>
                           /\ busqueda = "BEST"  =>
                                particiones[k].tamanio <= particiones[j].tamanio
                           /\ busqueda = "WORST" =>
                                particiones[k].tamanio >= particiones[j].tamanio
  BY DEF BuenaEleccion, Sirve
<1>2. t \in Nat
  BY MemoriaOK
<1>3. PICK c \in 1..Len(particiones) : Sirve(c, t)
  BY <1>1 DEF Cabe, Sirve
<1>4. busqueda \in {"FIRST", "BEST", "WORST"}
  BY MemoriaOK
<1>5. CASE busqueda = "FIRST"
  BY <1>1, <1>5 DEF Elegida, Sirve
<1>6. CASE busqueda = "BEST"
  <2>1. k = Minimo(t)
    BY <1>1, <1>6 DEF Elegida
  <2> QED
    BY <1>2, <1>3, <1>6, <2>1, MinimoElige
<1>7. CASE busqueda = "WORST"
  <2>1. k = Maximo
    BY <1>1, <1>7 DEF Elegida
  <2>2. \A j \in 1..Len(particiones) : particiones[j].libre =>
          particiones[k].libre /\ particiones[k].tamanio >= particiones[j].tamanio
    BY <2>1, MaximoElige
  <2>3. \A j \in 1..Len(particiones) : particiones[j].tamanio \in Nat
    <3>1. \A j \in 1..Len(particiones) : particiones[j] \in Marcos
      OBVIOUS
    <3> QED
      BY <3>1 DEF Marcos
  <2>4. Sirve(k, t)
    BY <1>2, <1>3, <2>2, <2>3 DEF Sirve
  <2> QED
    BY <1>7, <2>2, <2>4 DEF Sirve
<1> QED
  BY <1>4, <1>5, <1>6, <1>7

-----------------------------------------------------------------------------
(* The inductive invariant. *)

\* An occupied partition, and any fixed one, has bytes.
ConBytes ==
  \A i \in 1..Len(particiones) :
    ~particiones[i].libre \/ esquema = "FIJAS" => particiones[i].tamanio >= 1

\* The groupings leave no two free partitions next to each other.
SinVecinasLibres ==
  esquema = "DINAMICAS" =>
    \A i \in 1..(Len(particiones) - 1) :
      particiones[i].libre => ~particiones[i + 1].libre

\* The pid a free partition keeps is nobody's, or that of a process that ended;
\* the grouped ones have 0, which is also the pid of the first process.
PidsViejos ==
  \A i \in 1..Len(particiones) : particiones[i].libre =>
    \/ particiones[i].pid \in lista_exit \cup {SinPid}
    \/ esquema = "DINAMICAS" /\ particiones[i].pid = Nulo

\* That process was put at the beginning of the memory, so while it lives no
\* free partition comes before its own.
PrimeraDelCero ==
  esquema = "DINAMICAS" /\ 0 \in lista_ready =>
    ~particiones[1].libre /\ particiones[1].pid = 0

\* Nobody is admitted twice, nor after its end.
UnaSolaVida == lista_ready \cap lista_exit = {}

Inv ==
  /\ TypeOK /\ particiones # <<>>
  /\ AdmisionEnOrden /\ UnaSolaVida
  /\ Mosaico /\ ConBytes /\ SinVecinasLibres
  /\ UnaPorProceso /\ PidsViejos /\ PrimeraDelCero

\* The three parts of UnaPorProceso.
OcupadaTieneProceso ==
  \A i \in 1..Len(particiones) : ~particiones[i].libre =>
    /\ particiones[i].pid \in DOMAIN procesos
    /\ procesos[particiones[i].pid].base = particiones[i].base
    /\ procesos[particiones[i].pid].limite = particiones[i].base + particiones[i].tamanio - 1

ProcesoTieneOcupada ==
  \A p \in DOMAIN procesos : \E i \in 1..Len(particiones) :
    ~particiones[i].libre /\ particiones[i].pid = p

OcupadaUnica ==
  \A i, j \in 1..Len(particiones) :
    ~particiones[i].libre /\ ~particiones[j].libre /\ particiones[i].pid = particiones[j].pid
      => i = j

LEMMA UnaPorProcesoPartes ==
  UnaPorProceso <=> OcupadaTieneProceso /\ ProcesoTieneOcupada /\ OcupadaUnica
BY DEF UnaPorProceso, OcupadaTieneProceso, ProcesoTieneOcupada, OcupadaUnica

LEMMA UnaPorProcesoPartesDespues ==
  UnaPorProceso' <=> OcupadaTieneProceso' /\ ProcesoTieneOcupada' /\ OcupadaUnica'
BY DEF UnaPorProceso, OcupadaTieneProceso, ProcesoTieneOcupada, OcupadaUnica

\* The fields of the partitions have their types.
LEMMA TipoMarcos ==
  ASSUME particiones \in Seq(Marcos)
  PROVE  \A i \in 1..Len(particiones) :
           /\ particiones[i] \in Marcos
           /\ particiones[i].base \in Nat /\ particiones[i].tamanio \in Nat
           /\ particiones[i].libre \in BOOLEAN /\ particiones[i].pid \in Int
<1>1. \A i \in 1..Len(particiones) : particiones[i] \in Marcos
  OBVIOUS
<1> QED
  BY <1>1 DEF Marcos

-----------------------------------------------------------------------------
(* What the tiling gives. *)

\* A partition ends before any later one begins.
LEMMA BasesCrecen ==
  ASSUME particiones \in Seq(Marcos), Mosaico
  PROVE  \A j \in 1..Len(particiones) : \A i \in 1..(j - 1) :
           particiones[i].base + particiones[i].tamanio <= particiones[j].base
<1> DEFINE n == Len(particiones)
           T == {j \in 1..n : \A i \in 1..(j - 1) :
                  particiones[i].base + particiones[i].tamanio <= particiones[j].base}
<1>1. n \in Nat
  OBVIOUS
<1>2. n > 0 => 1 \in T
  OBVIOUS
<1>3. ASSUME NEW j \in 2..n, j - 1 \in T  PROVE j \in T
  <2>1. particiones[j].base = particiones[j - 1].base + particiones[j - 1].tamanio
    <3>1. j - 1 \in 1..(n - 1) /\ (j - 1) + 1 = j
      OBVIOUS
    <3> QED
      BY <3>1 DEF Mosaico
  <2>2. ASSUME NEW i \in 1..(j - 1)
        PROVE  particiones[i].base + particiones[i].tamanio <= particiones[j].base
    <3>1. CASE i = j - 1
      BY <2>1, <3>1, TipoMarcos
    <3>2. CASE i # j - 1
      <4>1. i \in 1..((j - 1) - 1) /\ i \in 1..n /\ j - 1 \in 1..n
        BY <3>2
      <4>2. particiones[i].base + particiones[i].tamanio <= particiones[j - 1].base
        BY <4>1, <1>3
      <4>3. /\ particiones[i].base \in Nat /\ particiones[i].tamanio \in Nat
            /\ particiones[j - 1].base \in Nat /\ particiones[j - 1].tamanio \in Nat
        BY <4>1, TipoMarcos
      <4> QED
        BY <4>2, <4>3, <2>1
    <3> QED
      BY <3>1, <3>2
  <2> QED
    BY <2>2
<1>4. \A j \in 1..n : j \in T
  <2> HIDE DEF T, n
  <2> QED
    BY <1>1, <1>2, <1>3, Induccion
<1> QED
  BY <1>4

\* Every byte below the end of the last partition is in one.
LEMMA ByteEnParticion ==
  ASSUME particiones \in Seq(Marcos), particiones # <<>>, Mosaico, NEW x \in Nat,
         x < particiones[Len(particiones)].base + particiones[Len(particiones)].tamanio
  PROVE  \E i \in 1..Len(particiones) :
           particiones[i].base <= x /\ x < particiones[i].base + particiones[i].tamanio
<1> DEFINE n == Len(particiones)
           S == {i \in 1..n : x < particiones[i].base + particiones[i].tamanio}
<1>1. n \in 1..n /\ S \in SUBSET Nat /\ S # {}
  OBVIOUS
<1>2. PICK i \in S : \A m \in S : i <= m
  <2> HIDE DEF S
  <2> QED
    BY <1>1, MenorElemento
<1>3. particiones[i].base <= x
  <2>1. CASE i = 1
    BY <2>1 DEF Mosaico
  <2>2. CASE i # 1
    <3>1. i - 1 \in 1..(n - 1) /\ (i - 1) + 1 = i /\ i - 1 \in 1..n
      BY <2>2
    <3>2. particiones[i].base = particiones[i - 1].base + particiones[i - 1].tamanio
      BY <3>1 DEF Mosaico
    <3>3. i - 1 \notin S
      <4> HIDE DEF S
      <4> QED
        BY <1>2, <3>1
    <3> QED
      BY <3>1, <3>2, <3>3, TipoMarcos
  <2> QED
    BY <2>1, <2>2
<1> QED
  BY <1>3

LEMMA RestoUnicoVale == Inv => RestoUnico
<1> SUFFICES ASSUME Inv, esquema = "DINAMICAS",
                    NEW i \in 1..Len(particiones), NEW j \in 1..Len(particiones),
                    i < j, particiones[i].libre, particiones[j].libre
             PROVE  particiones[i].base + particiones[i].tamanio < particiones[j].base
  BY DEF RestoUnico
<1>1. particiones \in Seq(Marcos)
  BY DEF Inv, TypeOK, TipoMemoria, Marcos
<1>2. i \in 1..(Len(particiones) - 1) /\ i + 1 \in 1..Len(particiones)
  BY <1>1
<1>3. ~particiones[i + 1].libre
  BY <1>2 DEF Inv, SinVecinasLibres
<1>4. particiones[i + 1].tamanio >= 1 /\ i + 1 \in 1..(j - 1)
  BY <1>2, <1>3 DEF Inv, ConBytes
<1>5. particiones[i + 1].base = particiones[i].base + particiones[i].tamanio
  BY <1>2 DEF Inv, Mosaico
<1>6. particiones[i + 1].base + particiones[i + 1].tamanio <= particiones[j].base
  BY <1>1, <1>4, BasesCrecen DEF Inv
<1> QED
  BY <1>1, <1>2, <1>4, <1>5, <1>6, TipoMarcos

LEMMA RechazoJustoVale == Inv => RechazoJusto
<1> SUFFICES ASSUME Inv, esquema = "DINAMICAS", NEW t \in Tamanios,
                    NEW b \in 0..(TAM_MEMORIA - t),
                    \A p \in DOMAIN procesos :
                      procesos[p].limite < b \/ b + t <= procesos[p].base
             PROVE  Cabe(t)
  BY DEF RechazoJusto
<1> DEFINE n == Len(particiones)
<1>1. particiones \in Seq(Marcos) /\ particiones # <<>> /\ Mosaico
  BY DEF Inv, TypeOK, TipoMemoria, Marcos
<1>2. t \in Nat /\ t >= 1 /\ TAM_MEMORIA \in Nat /\ b \in Nat /\ b + t <= TAM_MEMORIA
  BY MemoriaOK
<1>3. particiones[n].base + particiones[n].tamanio = TAM_MEMORIA
  BY <1>1 DEF Mosaico
<1>4. PICK i \in 1..n : particiones[i].base <= b
                          /\ b < particiones[i].base + particiones[i].tamanio
  BY <1>1, <1>2, <1>3, ByteEnParticion
<1>5. \A j \in 1..n : ~particiones[j].libre =>
        \/ particiones[j].base + particiones[j].tamanio - 1 < b
        \/ b + t <= particiones[j].base
  <2>1. OcupadaTieneProceso
    BY UnaPorProcesoPartes DEF Inv
  <2> QED
    BY <2>1 DEF OcupadaTieneProceso
<1>6. particiones[i].libre
  <2>1. particiones[i].base \in Nat /\ particiones[i].tamanio \in Nat
    BY <1>1, <1>4, TipoMarcos
  <2> HIDE DEF n
  <2> QED
    BY <1>2, <1>4, <1>5, <2>1
<1>7. b + t <= particiones[i].base + particiones[i].tamanio
  <2>1. CASE i = n
    BY <1>2, <1>3, <2>1
  <2>2. CASE i # n
    <3>1. i \in 1..(n - 1) /\ i + 1 \in 1..n
      BY <1>1, <2>2
    <3>2. ~particiones[i + 1].libre
      BY <1>6, <3>1 DEF Inv, SinVecinasLibres
    <3>3. particiones[i + 1].base = particiones[i].base + particiones[i].tamanio
      BY <3>1 DEF Inv, Mosaico
    <3>4. particiones[i + 1].tamanio >= 1
      BY <3>1, <3>2 DEF Inv, ConBytes
    <3>5. \/ particiones[i + 1].base + particiones[i + 1].tamanio - 1 < b
          \/ b + t <= particiones[i + 1].base
      BY <1>5, <3>1, <3>2
    <3>6. /\ particiones[i].base \in Nat /\ particiones[i].tamanio \in Nat
          /\ particiones[i + 1].base \in Nat /\ particiones[i + 1].tamanio \in Nat
      BY <1>1, <3>1, TipoMarcos
    <3> QED
      BY <1>2, <1>4, <3>3, <3>4, <3>5, <3>6
  <2> QED
    BY <2>1, <2>2
<1> QED
  BY <1>1, <1>2, <1>4, <1>6, <1>7, TipoMarcos DEF Cabe

LEMMA BuenaEleccionVale == Inv => BuenaEleccion
BY EligeBien DEF Inv, TypeOK, TipoMemoria, Marcos

-----------------------------------------------------------------------------
(* The initial states. *)

\* The sizes of the fixed partitions, added up one by one.
LEMMA BaseFijaSuma ==
  /\ \A i \in 1..Len(PARTICIONES) : BaseFija[i] \in Nat
  /\ PARTICIONES # <<>> => BaseFija[1] = 0
  /\ \A i \in 2..Len(PARTICIONES) : BaseFija[i] = BaseFija[i - 1] + PARTICIONES[i - 1]
<1> DEFINE n == Len(PARTICIONES)
           Op2 == [i \in 1..n |-> [s \in Nat |-> IF i = 1 THEN 0 ELSE s + PARTICIONES[i - 1]]]
           Es(f) == f = [i \in 1..n |-> IF i = 1 THEN 0 ELSE f[i - 1] + PARTICIONES[i - 1]]
<1>1. n \in Nat /\ \A i \in 1..n : PARTICIONES[i] \in Nat
  BY MemoriaOK
<1>2. \A i \in 2..n, s \in Nat : Op2[i][s] = s + PARTICIONES[i - 1] /\ Op2[i][s] \in Nat
  <2>1. ASSUME NEW i \in 2..n, NEW s \in Nat
        PROVE  Op2[i][s] = s + PARTICIONES[i - 1] /\ Op2[i][s] \in Nat
    <3>1. i \in 1..n /\ i # 1 /\ i - 1 \in 1..n
      OBVIOUS
    <3>2. Op2[i][s] = s + PARTICIONES[i - 1]
      BY <3>1
    <3>3. PARTICIONES[i - 1] \in Nat
      BY <1>1, <3>1
    <3> HIDE DEF Op2
    <3> QED
      BY <3>2, <3>3
  <2> QED
    BY <2>1
<1>3. Op2 \in [1..n -> [Nat -> Nat]]
  <2>1. \A i \in 1..n, s \in Nat : Op2[i][s] \in Nat
    <3>1. ASSUME NEW i \in 1..n, NEW s \in Nat  PROVE Op2[i][s] \in Nat
      <4>1. CASE i = 1
        BY <4>1
      <4>2. CASE i # 1
        <5>1. i \in 2..n
          BY <4>2
        <5> QED
          BY <5>1, <1>2
      <4> QED
        BY <4>1, <4>2
    <3> QED
      BY <3>1
  <2> QED
    BY <2>1
<1>4. PICK g : EsPlegado(g, n, Nat, 0, Op2)
  <2> HIDE DEF Op2, n
  <2>1. SePliega(n, Nat, 0, Op2)
    BY <1>1, <1>3, Plegado
  <2> QED
    BY <2>1 DEF SePliega
<1>5. Es(g)
  <2> HIDE DEF Op2, n
  <2>1. /\ g \in [1..n -> Nat]
        /\ \A i \in 1..n : g[i] = IF i = 1 THEN 0 ELSE Op2[i][g[i - 1]]
    BY <1>4 DEF EsPlegado
  <2>2. ASSUME NEW i \in 1..n, i # 1  PROVE Op2[i][g[i - 1]] = g[i - 1] + PARTICIONES[i - 1]
    <3>1. i - 1 \in 1..n /\ i \in 2..n
      BY <1>1, <2>2
    <3> QED
      BY <2>1, <3>1, <1>2
  <2>3. \A i \in 1..n : g[i] = IF i = 1 THEN 0 ELSE g[i - 1] + PARTICIONES[i - 1]
    BY <2>1, <2>2
  <2> QED
    BY <2>1, <2>3
<1>6. PICK f : f = (CHOOSE h : Es(h))
  OBVIOUS
<1>7. Es(f) /\ BaseFija = f
  BY <1>5, <1>6 DEF BaseFija
<1>8. \A i \in 1..n : f[i] = IF i = 1 THEN 0 ELSE f[i - 1] + PARTICIONES[i - 1]
  BY <1>7
<1> DEFINE T == {i \in 1..n : f[i] \in Nat}
<1>9. n > 0 => 1 \in T
  BY <1>1, <1>8
<1>10. ASSUME NEW i \in 2..n, i - 1 \in T  PROVE i \in T
  <2>1. i - 1 \in 1..n /\ i \in 1..n /\ f[i - 1] \in Nat
    BY <1>10
  <2>2. f[i] = f[i - 1] + PARTICIONES[i - 1]
    BY <2>1, <1>8
  <2> QED
    BY <2>1, <2>2, <1>1
<1>11. \A i \in 1..n : i \in T
  <2> HIDE DEF T, n
  <2> QED
    BY <1>1, <1>9, <1>10, Induccion
<1>12. PARTICIONES # <<>> => 1 \in 1..n
  BY MemoriaOK
<1> QED
  BY <1>7, <1>8, <1>11, <1>12

LEMMA InitInv == Init => Inv
<1> SUFFICES ASSUME Init PROVE Inv
  OBVIOUS
<1>1. esquema \in Esquemas /\ busqueda \in Busquedas /\ esquema \in {"FIJAS", "DINAMICAS"}
  BY MemoriaOK DEF Init, MemoriaInit
<1>2. procesos = <<>> /\ DOMAIN procesos = {}
  BY DEF Init, MemoriaInit
<1>3. /\ lista_ready = {} /\ lista_exit = {} /\ identificador_PID = 1 /\ hay_pcb = TRUE
  BY DEF Init
<1>4. PICK t \in Tamanios : lista_new = <<[pid |-> 0, size |-> t]>>
  BY DEF Init
<1>5. /\ lista_new \in Seq([pid : Pids, size : Tamanios])
      /\ EnNew = {0}
      /\ identificador_PID \in 1..MaxProcesos
      /\ \A i, j \in 1..Len(lista_new) : i < j => lista_new[i].pid < lista_new[j].pid
  <2>1. [pid |-> 0, size |-> t] \in [pid : Pids, size : Tamanios]
    BY MaxProcesosOK DEF Pids
  <2>2. lista_new \in Seq([pid : Pids, size : Tamanios])
    BY <1>4, <2>1
  <2>3. EnNew = {0}
    BY <1>4 DEF EnNew
  <2> QED
    BY <1>3, <1>4, <2>2, <2>3, MaxProcesosOK
<1>6. AdmisionEnOrden /\ UnaSolaVida
  <2>1. 0..(1 - 1) = {0}
    OBVIOUS
  <2> QED
    BY <1>2, <1>3, <1>5, <2>1 DEF AdmisionEnOrden, UnaSolaVida
<1>7. /\ particiones \in Seq(Marcos) /\ particiones # <<>> /\ Mosaico
      /\ ConBytes /\ SinVecinasLibres
      /\ \A i \in 1..Len(particiones) :
           particiones[i].libre = TRUE /\ particiones[i].pid = SinPid
  <2>1. CASE esquema = "FIJAS"
    <3> DEFINE n == Len(PARTICIONES)
    <3>1. PARTICIONES # <<>> /\ PARTICIONES \in Seq(Nat \ {0})
      BY <1>1, <2>1, MemoriaOK
    <3>2. /\ n \in Nat /\ n >= 1
          /\ \A i \in 1..n : PARTICIONES[i] \in Nat /\ PARTICIONES[i] >= 1
      BY <3>1
    <3>3. particiones = [i \in 1..n |-> Marco(BaseFija[i], PARTICIONES[i], TRUE, SinPid)]
      BY <2>1 DEF Init, MemoriaInit
    <3> HIDE DEF n
    <3>4. \A i \in 1..n : Marco(BaseFija[i], PARTICIONES[i], TRUE, SinPid) \in Marcos
      BY <3>2, BaseFijaSuma DEF n, Marco, Marcos, SinPid
    <3>5. particiones \in Seq(Marcos) /\ Len(particiones) = n /\ particiones # <<>>
      <4> DEFINE m(i) == Marco(BaseFija[i], PARTICIONES[i], TRUE, SinPid)
      <4>1. particiones = [i \in 1..n |-> m(i)] /\ \A i \in 1..n : m(i) \in Marcos
        BY <3>3, <3>4
      <4> HIDE DEF m
      <4>2. particiones \in Seq(Marcos) /\ Len(particiones) = n
        BY <3>2, <4>1
      <4> QED
        BY <3>2, <4>2
    <3>6. \A i \in 1..n :
            /\ particiones[i].base = BaseFija[i] /\ particiones[i].tamanio = PARTICIONES[i]
            /\ particiones[i].libre = TRUE /\ particiones[i].pid = SinPid
      BY <3>3 DEF Marco
    <3>7. Mosaico
      <4>1. ASSUME NEW i \in 1..(n - 1)
            PROVE  particiones[i + 1].base = particiones[i].base + particiones[i].tamanio
        <5>1. i \in 1..n /\ i + 1 \in 2..n /\ (i + 1) - 1 = i /\ i + 1 \in 1..n
          BY <3>2
        <5>2. BaseFija[i + 1] = BaseFija[i] + PARTICIONES[i]
          BY <5>1, BaseFijaSuma DEF n
        <5> QED
          BY <3>6, <5>1, <5>2
      <4>2. particiones[1].base = 0
        BY <3>1, <3>2, <3>6, BaseFijaSuma
      <4> QED
        BY <2>1, <3>5, <4>1, <4>2 DEF Mosaico
    <3> QED
      BY <2>1, <3>2, <3>5, <3>6, <3>7 DEF ConBytes, SinVecinasLibres
  <2>2. CASE esquema = "DINAMICAS"
    <3>1. particiones = <<Marco(0, TAM_MEMORIA, TRUE, SinPid)>>
      BY <2>2 DEF Init, MemoriaInit
    <3>2. Marco(0, TAM_MEMORIA, TRUE, SinPid) \in Marcos
      BY MemoriaOK DEF Marco, Marcos, SinPid
    <3>3. /\ particiones \in Seq(Marcos) /\ Len(particiones) = 1 /\ particiones # <<>>
          /\ particiones[1] = Marco(0, TAM_MEMORIA, TRUE, SinPid)
      <4> DEFINE m == Marco(0, TAM_MEMORIA, TRUE, SinPid)
      <4>1. particiones = <<m>> /\ m \in Marcos
        BY <3>1, <3>2
      <4> HIDE DEF m
      <4>2. /\ particiones \in Seq(Marcos) /\ Len(particiones) = 1 /\ particiones[1] = m
            /\ particiones # <<>>
        BY <4>1
      <4> QED
        BY <4>2, Zenon DEF m
    <3>4. /\ particiones[1].base = 0 /\ particiones[1].tamanio = TAM_MEMORIA
          /\ particiones[1].libre = TRUE /\ particiones[1].pid = SinPid
      BY <3>3 DEF Marco
    <3>5. \A i \in 1..1 : i = 1
      OBVIOUS
    <3>6. Mosaico
      <4>1. \A i \in 1..(1 - 1) : FALSE
        OBVIOUS
      <4>2. 0 + TAM_MEMORIA = TAM_MEMORIA
        BY MemoriaOK
      <4> QED
        BY <3>3, <3>4, <4>1, <4>2 DEF Mosaico
    <3>7. ConBytes
      BY <2>2, <3>3, <3>4, <3>5 DEF ConBytes
    <3>8. SinVecinasLibres
      <4>1. \A i \in 1..(1 - 1) : FALSE
        OBVIOUS
      <4> QED
        BY <3>3, <4>1 DEF SinVecinasLibres
    <3> QED
      BY <3>3, <3>4, <3>5, <3>6, <3>7, <3>8
  <2> QED
    BY <1>1, <2>1, <2>2
<1>8. TypeOK
  BY <1>1, <1>2, <1>3, <1>5, <1>7 DEF TypeOK, TipoMemoria, Marcos
<1>9. UnaPorProceso /\ PidsViejos /\ PrimeraDelCero
  BY <1>2, <1>3, <1>7 DEF UnaPorProceso, PidsViejos, PrimeraDelCero
<1> QED
  BY <1>6, <1>7, <1>8, <1>9 DEF Inv

-----------------------------------------------------------------------------
(* What a request does to the list of partitions, position by position. *)

\* Partition k becomes p's, whole.
QuedaFija(k, p) ==
  /\ Len(particiones') = Len(particiones)
  /\ \A i \in 1..Len(particiones) : i # k => particiones'[i] = particiones[i]
  /\ particiones'[k] = Marco(particiones[k].base, particiones[k].tamanio, FALSE, p)

\* Partition k is split in p's and what is left.
QuedaPartida(k, p, t) ==
  /\ Len(particiones') = Len(particiones) + 1
  /\ \A i \in 1..(k - 1) : particiones'[i] = particiones[i]
  /\ particiones'[k] = Marco(particiones[k].base, t, FALSE, p)
  /\ particiones'[k + 1] = Marco(particiones[k].base + t, particiones[k].tamanio - t,
                                 TRUE, particiones[k].pid)
  /\ \A i \in (k + 2)..(Len(particiones) + 1) : particiones'[i] = particiones[i - 1]

\* The free partition that takes the place of those from a to b.
QuedaLibre(a, b, q) ==
  /\ Len(particiones') = Len(particiones) - (b - a)
  /\ \A i \in 1..(a - 1) : particiones'[i] = particiones[i]
  /\ particiones'[a].base = particiones[a].base
  /\ particiones'[a].tamanio =
       particiones[b].base + particiones[b].tamanio - particiones[a].base
  /\ particiones'[a].libre = TRUE
  /\ particiones'[a].pid = q
  /\ \A i \in (a + 1)..(Len(particiones) - (b - a)) :
       particiones'[i] = particiones[i + (b - a)]

\* The process p gets what the partition k of the new list spans.
EntraEnLaLista(k, p) ==
  procesos' = [q \in DOMAIN procesos \cup {p} |->
                 IF q = p THEN [base   |-> particiones'[k].base,
                                limite |-> particiones'[k].base + particiones'[k].tamanio - 1]
                 ELSE procesos[q]]

\* FIJAS fills in the partition it takes.
LEMMA MarcoTomado ==
  ASSUME NEW m \in Marcos, NEW p \in Int
  PROVE  [m EXCEPT !.libre = FALSE, !.pid = p] = Marco(m.base, m.tamanio, FALSE, p)
<1> DEFINE x == [m EXCEPT !.libre = FALSE, !.pid = p]
<1>1. x \in Marcos
  BY DEF Marcos
<1>2. x.base = m.base /\ x.tamanio = m.tamanio /\ x.libre = FALSE /\ x.pid = p
  BY DEF Marcos
<1> HIDE DEF x
<1>3. x = [base |-> x.base, tamanio |-> x.tamanio, libre |-> x.libre, pid |-> x.pid]
  BY <1>1 DEF Marcos
<1>4. x = Marco(m.base, m.tamanio, FALSE, p)
  BY <1>2, <1>3 DEF Marco
<1> QED
  BY <1>4 DEF x

\* What is left of a free partition.
LEMMA MarcoResto ==
  ASSUME NEW m \in Marcos, m.libre, NEW t \in Nat, m.tamanio >= t
  PROVE  [m EXCEPT !.tamanio = @ - t, !.base = @ + t] = Marco(m.base + t, m.tamanio - t, TRUE, m.pid)
<1> DEFINE x == [m EXCEPT !.tamanio = @ - t, !.base = @ + t]
<1>1. x \in Marcos
  <2>1. m.base + t \in Nat /\ m.tamanio - t \in Nat
    BY DEF Marcos
  <2> QED
    BY <2>1 DEF Marcos
<1>2. x.base = m.base + t /\ x.tamanio = m.tamanio - t /\ x.libre = TRUE /\ x.pid = m.pid
  BY DEF Marcos
<1> HIDE DEF x
<1>3. x = [base |-> x.base, tamanio |-> x.tamanio, libre |-> x.libre, pid |-> x.pid]
  BY <1>1 DEF Marcos
<1>4. x = Marco(m.base + t, m.tamanio - t, TRUE, m.pid)
  BY <1>2, <1>3 DEF Marco
<1> QED
  BY <1>4 DEF x

\* A partition that is freed keeps its pid.
LEMMA MarcoLiberado ==
  ASSUME NEW m \in Marcos
  PROVE  [m EXCEPT !.libre = TRUE] = Marco(m.base, m.tamanio, TRUE, m.pid)
<1> DEFINE x == [m EXCEPT !.libre = TRUE]
<1>1. x \in Marcos
  BY DEF Marcos
<1>2. x.base = m.base /\ x.tamanio = m.tamanio /\ x.libre = TRUE /\ x.pid = m.pid
  BY DEF Marcos
<1> HIDE DEF x
<1>3. x = [base |-> x.base, tamanio |-> x.tamanio, libre |-> x.libre, pid |-> x.pid]
  BY <1>1 DEF Marcos
<1>4. x = Marco(m.base, m.tamanio, TRUE, m.pid)
  BY <1>2, <1>3 DEF Marco
<1> QED
  BY <1>4 DEF x

LEMMA AdmiteForma ==
  ASSUME Inv, NEW p \in Pids, NEW t \in Tamanios, InicializarEstructuras(p, t)
  PROVE  \E k \in 1..Len(particiones) :
           /\ Sirve(k, t)
           /\ \/ esquema = "FIJAS" /\ QuedaFija(k, p)
              \/ esquema = "DINAMICAS" /\ QuedaPartida(k, p, t)
           /\ EntraEnLaLista(k, p)
           /\ particiones' \in Seq(Marcos)
           /\ UNCHANGED <<esquema, busqueda>>
<1>1. PICK k \in 1..Len(particiones) :
        /\ Elegida(k, t)
        /\ IF esquema = "FIJAS" THEN TomarFija(k, p) ELSE TomarDinamica(k, p, t)
  BY DEF InicializarEstructuras
<1>2. Cabe(t) /\ UNCHANGED <<esquema, busqueda>>
  BY DEF InicializarEstructuras
<1>3. /\ particiones \in Seq(Marcos) /\ particiones # <<>>
      /\ esquema \in {"FIJAS", "DINAMICAS"}
  BY MemoriaOK DEF Inv, TypeOK, TipoMemoria, Marcos
<1>4. Sirve(k, t)
  BY <1>1, <1>2, BuenaEleccionVale DEF BuenaEleccion, Sirve
<1> DEFINE m == particiones[k]
<1>5. m \in Marcos /\ m.base \in Nat /\ m.tamanio \in Nat /\ m.pid \in Int
  BY <1>3, TipoMarcos
<1>6. p \in Int /\ t \in Nat /\ t >= 1 /\ m.tamanio >= t
  BY <1>4, MemoriaOK, MaxProcesosOK DEF Pids, Sirve
<1>7. CASE esquema = "FIJAS"
  <2> DEFINE nuevo == Marco(m.base, m.tamanio, FALSE, p)
  <2>1. [m EXCEPT !.libre = FALSE, !.pid = p] = nuevo
    BY <1>5, <1>6, MarcoTomado
  <2>2. nuevo \in Marcos
    BY <1>5, <1>6 DEF Marcos, Marco
  <2>3. particiones' = [particiones EXCEPT ![k] = nuevo]
    BY <1>1, <1>7, <2>1 DEF TomarFija
  <2>4. nuevo.base = m.base /\ nuevo.tamanio = m.tamanio
    BY DEF Marco
  <2>5. procesos' = [q \in DOMAIN procesos \cup {p} |->
                       IF q = p THEN [base |-> m.base, limite |-> m.base + m.tamanio - 1]
                       ELSE procesos[q]]
    BY <1>1, <1>7 DEF TomarFija
  <2> HIDE DEF nuevo
  <2>6. /\ particiones' \in Seq(Marcos) /\ Len(particiones') = Len(particiones)
        /\ particiones'[k] = nuevo
        /\ \A i \in 1..Len(particiones) : i # k => particiones'[i] = particiones[i]
    BY <1>3, <2>2, <2>3
  <2>7. EntraEnLaLista(k, p)
    BY <2>4, <2>5, <2>6 DEF EntraEnLaLista
  <2>8. QuedaFija(k, p)
    BY <2>6 DEF QuedaFija, nuevo
  <2> QED
    BY <1>2, <1>4, <1>7, <2>6, <2>7, <2>8
<1>8. CASE esquema = "DINAMICAS"
  <2> DEFINE nuevo == Marco(m.base, t, FALSE, p)
             resto == [m EXCEPT !.tamanio = @ - t, !.base = @ + t]
             l == [particiones EXCEPT ![k] = resto]
  <2>1. resto = Marco(m.base + t, m.tamanio - t, TRUE, m.pid)
    BY <1>4, <1>5, <1>6, MarcoResto DEF Sirve
  <2>2. nuevo \in Marcos
    BY <1>5, <1>6 DEF Marcos, Marco
  <2>3. resto \in Marcos
    <3>1. m.base + t \in Nat /\ m.tamanio - t \in Nat
      BY <1>5, <1>6
    <3>2. Marco(m.base + t, m.tamanio - t, TRUE, m.pid) \in Marcos
      BY <1>5, <3>1 DEF Marcos, Marco
    <3> HIDE DEF resto
    <3> QED
      BY <2>1, <3>2
  <2>4. particiones' = Insertar(l, k, nuevo)
    BY <1>1, <1>8 DEF TomarDinamica
  <2>5. nuevo.base = m.base /\ nuevo.tamanio = t
    BY DEF Marco
  <2>6. procesos' = [q \in DOMAIN procesos \cup {p} |->
                       IF q = p THEN [base |-> m.base, limite |-> m.base + t - 1]
                       ELSE procesos[q]]
    BY <1>1, <1>8 DEF TomarDinamica
  <2> HIDE DEF nuevo, resto
  <2>7. /\ l \in Seq(Marcos) /\ Len(l) = Len(particiones) /\ l[k] = resto
        /\ \A i \in 1..Len(particiones) : i # k => l[i] = particiones[i]
    BY <1>3, <2>3
  <2> HIDE DEF l
  <2>8. /\ particiones' \in Seq(Marcos) /\ Len(particiones') = Len(l) + 1
        /\ \A i \in 1..(k - 1) : particiones'[i] = l[i]
        /\ particiones'[k] = nuevo
        /\ \A i \in (k + 1)..(Len(l) + 1) : particiones'[i] = l[i - 1]
    <3>1. k \in 1..Len(l)
      BY <2>7
    <3> DEFINE r == Insertar(l, k, nuevo)
    <3>2. nuevo \in Marcos /\ l \in Seq(Marcos)
      BY <2>2, <2>7
    <3>3. /\ r \in Seq(Marcos) /\ Len(r) = Len(l) + 1
          /\ \A i \in 1..(k - 1) : r[i] = l[i]
          /\ r[k] = nuevo
          /\ \A i \in (k + 1)..(Len(l) + 1) : r[i] = l[i - 1]
      BY <3>1, <3>2, InsertarForma, SMTT(30)
    <3>4. particiones' = r
      BY <2>4
    <3> HIDE DEF r
    <3> QED
      BY <3>3, <3>4
  <2>9. EntraEnLaLista(k, p)
    BY <2>5, <2>6, <2>8 DEF EntraEnLaLista
  <2>10. /\ \A i \in 1..(k - 1) : particiones'[i] = particiones[i]
         /\ particiones'[k + 1] = resto
         /\ \A i \in (k + 2)..(Len(particiones) + 1) : particiones'[i] = particiones[i - 1]
    <3>1. Len(particiones) \in Nat
      BY <1>3
    <3>2. \A i \in 1..(k - 1) : l[i] = particiones[i]
      BY <2>7
    <3>3. \A i \in (k + 2)..(Len(particiones) + 1) : l[i - 1] = particiones[i - 1]
      BY <2>7, <3>1
    <3>4. k + 1 \in (k + 1)..(Len(l) + 1) /\ (k + 1) - 1 = k
      BY <2>7, <3>1
    <3>5. \A i \in 1..(k - 1) : particiones'[i] = particiones[i]
      BY <2>8, <3>2
    <3>6. particiones'[k + 1] = resto
      BY <2>7, <2>8, <3>4
    <3>7. \A i \in (k + 2)..(Len(particiones) + 1) : particiones'[i] = particiones[i - 1]
      BY <2>7, <2>8, <3>1, <3>3
    <3> QED
      BY <3>5, <3>6, <3>7, Zenon
  <2>11. QuedaPartida(k, p, t)
    BY <2>1, <2>7, <2>8, <2>10 DEF QuedaPartida, nuevo
  <2> QED
    BY <1>2, <1>4, <1>8, <2>8, <2>9, <2>11
<1> QED
  BY <1>3, <1>7, <1>8

\* The partition found by its pid is the one the process occupies.
LEMMA EsLaSuya ==
  ASSUME Inv, NEW p \in lista_ready, NEW i \in 1..Len(particiones), EsLaDe(i, p)
  PROVE  ~particiones[i].libre /\ particiones[i].pid = p
<1>1. particiones[i].pid = p /\ \A j \in 1..(i - 1) : particiones[j].pid # p
  BY DEF EsLaDe
<1>2. particiones # <<>> /\ particiones \in Seq(Marcos)
  BY DEF Inv, TypeOK, TipoMemoria, Marcos
<1>3. p \notin lista_exit /\ p # SinPid
  <2>1. p \in Pids
    BY DEF Inv, TypeOK
  <2> QED
    BY <2>1, MaxProcesosOK DEF Inv, UnaSolaVida, Pids, SinPid
<1>4. SUFFICES ASSUME particiones[i].libre PROVE FALSE
  BY <1>1
<1>5. esquema = "DINAMICAS" /\ p = 0
  BY <1>1, <1>3, <1>4 DEF Inv, PidsViejos, Nulo
<1>6. ~particiones[1].libre /\ particiones[1].pid = 0
  BY <1>5 DEF Inv, PrimeraDelCero
<1>7. i # 1
  BY <1>4, <1>6
<1>8. 1 \in 1..(i - 1)
  BY <1>7
<1> QED
  BY <1>1, <1>5, <1>6, <1>8

\* What agrupar_espacios_libres joins: i with the free neighbours it has.
Vecinas(a, i, b) ==
  /\ a \in {i - 1, i} /\ b \in {i, i + 1}
  /\ a # i => particiones[a].libre
  /\ b # i => particiones[b].libre
  /\ esquema = "FIJAS" => a = i /\ b = i
  /\ esquema = "DINAMICAS" => /\ a = i /\ i > 1 => ~particiones[i - 1].libre
                              /\ b = i /\ i < Len(particiones) => ~particiones[i + 1].libre

LEMMA FinalizaForma ==
  ASSUME Inv, NEW p \in lista_ready, FinalizarEstructuras(p)
  PROVE  \E i, a, b \in 1..Len(particiones), q \in Int :
           /\ ~particiones[i].libre /\ particiones[i].pid = p
           /\ Vecinas(a, i, b)
           /\ q # p => esquema = "DINAMICAS" /\ q = Nulo
           /\ QuedaLibre(a, b, q)
           /\ particiones' \in Seq(Marcos)
           /\ procesos' = [r \in DOMAIN procesos \ {p} |-> procesos[r]]
           /\ UNCHANGED <<esquema, busqueda>>
<1> DEFINE n == Len(particiones)
<1>1. PICK i \in 1..n :
        /\ EsLaDe(i, p)
        /\ LET libre == [particiones EXCEPT ![i] = [@ EXCEPT !.libre = TRUE]]
           IN  particiones' = IF esquema = "DINAMICAS" THEN Agrupar(libre, i) ELSE libre
  BY DEF FinalizarEstructuras
<1>2. ~particiones[i].libre /\ particiones[i].pid = p
  BY <1>1, EsLaSuya
<1>3. /\ procesos' = [r \in DOMAIN procesos \ {p} |-> procesos[r]]
      /\ UNCHANGED <<esquema, busqueda>>
  BY DEF FinalizarEstructuras
<1>4. /\ particiones \in Seq(Marcos) /\ n \in Nat
      /\ esquema \in {"FIJAS", "DINAMICAS"}
      /\ p \in Int
  BY MemoriaOK, MaxProcesosOK DEF Inv, TypeOK, TipoMemoria, Marcos, Pids
<1>5. \A j \in 1..n : /\ particiones[j] \in Marcos
                      /\ particiones[j].base \in Nat /\ particiones[j].tamanio \in Nat
  BY <1>4, TipoMarcos
<1> DEFINE m == particiones[i]
           mi == Marco(m.base, m.tamanio, TRUE, p)
           l == [particiones EXCEPT ![i] = mi]
<1>6. [m EXCEPT !.libre = TRUE] = mi
  BY <1>2, <1>5, MarcoLiberado
<1>7. particiones' = IF esquema = "DINAMICAS" THEN Agrupar(l, i) ELSE l
  BY <1>1, <1>6
<1>8. mi \in Marcos /\ mi.base = m.base /\ mi.tamanio = m.tamanio
                    /\ mi.libre = TRUE /\ mi.pid = p
  BY <1>4, <1>5 DEF Marco, Marcos
<1> HIDE DEF mi
<1>9. /\ l \in Seq(Marcos) /\ Len(l) = n /\ l[i] = mi
      /\ \A j \in 1..n : j # i => l[j] = particiones[j]
  BY <1>4, <1>8
<1> HIDE DEF l
\* The list with the partition freed and nothing else.
<1>10. ASSUME particiones' = l  PROVE QuedaLibre(i, i, p) /\ particiones' \in Seq(Marcos)
  <2>1. particiones'[i].tamanio = particiones[i].base + particiones[i].tamanio
                                    - particiones[i].base
    BY <1>5, <1>8, <1>9, <1>10
  <2>2. i - i = 0 /\ \A j \in (i + 1)..(n - 0) : particiones'[j] = particiones[j + 0]
    BY <1>4, <1>9, <1>10
  <2>3. n - 0 = n /\ \A j \in 1..(i - 1) : particiones'[j] = particiones[j]
    BY <1>4, <1>9, <1>10
  <2> QED
    BY <1>8, <1>9, <1>10, <2>1, <2>2, <2>3 DEF QuedaLibre
<1>11. CASE esquema = "FIJAS"
  <2>1. particiones' = l
    BY <1>7, <1>11
  <2>2. Vecinas(i, i, i)
    BY <1>11 DEF Vecinas
  <2> QED
    BY <1>2, <1>3, <1>4, <1>10, <2>1, <2>2
<1>12. CASE esquema = "DINAMICAS"
  <2> DEFINE a == IF i > 1 /\ l[i - 1].libre THEN i - 1 ELSE i
             b == IF i < Len(l) /\ l[i + 1].libre THEN i + 1 ELSE i
             t == (IF a < i THEN l[a].tamanio ELSE 0) + l[i].tamanio
                    + (IF b > i THEN l[b].tamanio ELSE 0)
  <2>1. particiones' = IF a = b THEN l ELSE Reemplazar(l, a, b, Marco(l[a].base, t, TRUE, Nulo))
    BY <1>7, <1>12 DEF Agrupar
  <2>2. a \in 1..n /\ b \in 1..n /\ a <= i /\ i <= b
    BY <1>4, <1>9
  <2>3. Vecinas(a, i, b)
    <3>1. i > 1 => l[i - 1] = particiones[i - 1]
      BY <1>4, <1>9
    <3>2. i < n => l[i + 1] = particiones[i + 1]
      BY <1>4, <1>9
    <3> QED
      BY <1>4, <1>9, <1>12, <3>1, <3>2 DEF Vecinas
  <2>4. t = particiones[b].base + particiones[b].tamanio - particiones[a].base
    <3>1. a # i => a = i - 1 /\ l[a] = particiones[a]
                   /\ particiones[i].base = particiones[a].base + particiones[a].tamanio
      <4>1. CASE a # i
        <5>1. a \in 1..(n - 1) /\ a + 1 = i /\ a = i - 1
          BY <1>4, <2>2, <2>3, <4>1 DEF Vecinas
        <5> HIDE DEF a
        <5> QED
          BY <1>9, <2>2, <4>1, <5>1 DEF Inv, Mosaico
      <4> QED
        BY <4>1
    <3>2. b # i => b = i + 1 /\ l[b] = particiones[b]
                   /\ particiones[b].base = particiones[i].base + particiones[i].tamanio
      <4>1. CASE b # i
        <5>1. i \in 1..(n - 1) /\ b = i + 1
          BY <1>4, <2>2, <2>3, <4>1 DEF Vecinas
        <5> HIDE DEF b
        <5> QED
          BY <1>9, <2>2, <4>1, <5>1 DEF Inv, Mosaico
      <4> QED
        BY <4>1
    <3>3. /\ a # i => t = l[a].tamanio + l[i].tamanio + (IF b > i THEN l[b].tamanio ELSE 0)
          /\ a = i => t = l[i].tamanio + (IF b > i THEN l[b].tamanio ELSE 0)
      <4>1. l[i].tamanio \in Nat /\ (IF b > i THEN l[b].tamanio ELSE 0) \in Nat
        <5> HIDE DEF b
        <5> QED
          BY <1>5, <1>8, <1>9, <2>2, <3>2
      <4>2. a # i => a < i
        BY <2>2
      <4> HIDE DEF a, b
      <4> QED
        BY <4>1, <4>2
    <3> HIDE DEF a, b, t
    <3>4. l[i].tamanio = particiones[i].tamanio
      BY <1>8, <1>9
    <3>5. CASE a = i /\ b = i
      BY <1>5, <2>2, <3>3, <3>4, <3>5
    <3>6. CASE a # i /\ b = i
      BY <1>5, <2>2, <3>1, <3>3, <3>4, <3>6
    <3>7. CASE a = i /\ b # i
      BY <1>5, <2>2, <3>2, <3>3, <3>4, <3>7
    <3>8. CASE a # i /\ b # i
      <4>1. /\ particiones[a].base \in Nat /\ particiones[a].tamanio \in Nat
            /\ particiones[i].base \in Nat /\ particiones[i].tamanio \in Nat
            /\ particiones[b].base \in Nat /\ particiones[b].tamanio \in Nat
        BY <1>5, <2>2
      <4>2. b > i
        BY <2>2, <3>2, <3>8
      <4>3. t = particiones[a].tamanio + particiones[i].tamanio + particiones[b].tamanio
        BY <3>1, <3>2, <3>3, <3>4, <3>8, <4>2
      <4>4. particiones[i].base = particiones[a].base + particiones[a].tamanio
        BY <3>1, <3>8
      <4>5. particiones[b].base = particiones[i].base + particiones[i].tamanio
        BY <3>2, <3>8
      <4> DEFINE xa == particiones[a].base
                 xi == particiones[i].base
                 xb == particiones[b].base
                 ta == particiones[a].tamanio
                 ti == particiones[i].tamanio
                 tb == particiones[b].tamanio
      <4>6. /\ xa \in Nat /\ xi \in Nat /\ xb \in Nat
            /\ ta \in Nat /\ ti \in Nat /\ tb \in Nat
            /\ t = ta + ti + tb /\ xi = xa + ta /\ xb = xi + ti
        BY <4>1, <4>3, <4>4, <4>5
      <4> HIDE DEF xa, xi, xb, ta, ti, tb
      <4>7. t = xb + tb - xa
        BY <4>6
      <4> QED
        BY <4>7 DEF xa, xb, tb
    <3> QED
      BY <3>5, <3>6, <3>7, <3>8
  <2>5. l[a].base = particiones[a].base /\ particiones[a].base \in Nat
    BY <1>5, <1>8, <1>9, <2>2
  <2>6. t \in Nat
    <3>1. \A j \in 1..n : l[j].tamanio \in Nat
      BY <1>5, <1>8, <1>9
    <3> HIDE DEF a, b
    <3> QED
      BY <2>2, <3>1
  <2> HIDE DEF a, b, t
  <2>7. CASE a = b
    <3>1. a = i /\ b = i /\ particiones' = l
      BY <2>1, <2>2, <2>7
    <3> QED
      BY <1>2, <1>3, <1>4, <1>10, <2>3, <3>1
  <2>8. CASE a # b
    <3> DEFINE x == Marco(l[a].base, t, TRUE, Nulo)
               r == Reemplazar(l, a, b, x)
    <3>1. x \in Marcos /\ x.base = particiones[a].base /\ x.tamanio = t
                       /\ x.libre = TRUE /\ x.pid = Nulo
      BY <2>5, <2>6 DEF Marco, Marcos, Nulo
    <3> HIDE DEF x
    <3>2. a \in 1..Len(l) /\ b \in 1..Len(l) /\ a <= b
      BY <1>4, <1>9, <2>2
    <3>3. /\ r \in Seq(Marcos) /\ Len(r) = Len(l) - (b - a)
          /\ \A j \in 1..(a - 1) : r[j] = l[j]
          /\ r[a] = x
          /\ \A j \in (a + 1)..(Len(l) - (b - a)) : r[j] = l[j + (b - a)]
      <4>1. l \in Seq(Marcos) /\ x \in Marcos
        BY <1>9, <3>1
      <4>2. r \in Seq(Marcos) /\ EsReemplazo(r, l, a, b, x)
        BY <4>1, <3>2, ReemplazarForma
      <4> HIDE DEF r
      <4> QED
        BY <4>2 DEF EsReemplazo
    <3>4. particiones' = r
      BY <2>1, <2>8 DEF x
    <3> HIDE DEF r
    <3>5. \A j \in 1..(a - 1) : l[j] = particiones[j]
      BY <1>4, <1>9, <2>2
    <3>6. \A j \in (a + 1)..(n - (b - a)) : l[j + (b - a)] = particiones[j + (b - a)]
      BY <1>4, <1>9, <2>2
    <3>7. QuedaLibre(a, b, Nulo)
      BY <1>9, <2>4, <3>1, <3>3, <3>4, <3>5, <3>6 DEF QuedaLibre
    <3> QED
      BY <1>2, <1>3, <1>12, <2>2, <2>3, <3>3, <3>4, <3>7 DEF Nulo
  <2> QED
    BY <2>7, <2>8
<1> QED
  BY <1>4, <1>11, <1>12

-----------------------------------------------------------------------------
(* The admission of a process keeps the tiling and the owners. *)

\* FIJAS: only the owner of k changes.
LEMMA FijaConserva ==
  ASSUME Inv, esquema = "FIJAS", UNCHANGED esquema,
         NEW p \in Pids, p \notin DOMAIN procesos, NEW t \in Tamanios,
         NEW k \in 1..Len(particiones), Sirve(k, t),
         QuedaFija(k, p), EntraEnLaLista(k, p), particiones' \in Seq(Marcos)
  PROVE  Mosaico' /\ ConBytes' /\ SinVecinasLibres' /\ UnaPorProceso'
<1> DEFINE n == Len(particiones)
<1>1. particiones \in Seq(Marcos) /\ n \in Nat /\ n >= 1
  BY DEF Inv, TypeOK, TipoMemoria, Marcos
<1>2. Len(particiones') = n /\ k \in 1..n
  BY DEF QuedaFija
<1>3. \A i \in 1..n : /\ particiones'[i].base = particiones[i].base
                      /\ particiones'[i].tamanio = particiones[i].tamanio
  BY <1>1 DEF QuedaFija, Marco
<1>4. /\ particiones'[k].libre = FALSE /\ particiones'[k].pid = p
      /\ \A i \in 1..n : i # k => /\ particiones'[i].libre = particiones[i].libre
                                  /\ particiones'[i].pid = particiones[i].pid
  BY DEF QuedaFija, Marco
<1>5. particiones[k].libre
  BY DEF Sirve
<1> HIDE DEF n
<1>6. Mosaico'
  <2>1. 1 \in 1..n /\ \A i \in 1..(n - 1) : i \in 1..n /\ i + 1 \in 1..n
    BY <1>1
  <2>2. particiones[1].base = 0 /\ \A i \in 1..(n - 1) :
          particiones[i + 1].base = particiones[i].base + particiones[i].tamanio
    BY DEF Inv, Mosaico, n
  <2>3. particiones'[1].base = 0 /\ \A i \in 1..(n - 1) :
          particiones'[i + 1].base = particiones'[i].base + particiones'[i].tamanio
    BY <1>3, <2>1, <2>2
  <2> QED
    BY <1>2, <2>3 DEF Mosaico
<1>7. ConBytes' /\ SinVecinasLibres'
  <2>1. \A i \in 1..n : particiones[i].tamanio >= 1
    BY DEF Inv, ConBytes, n
  <2> QED
    BY <1>2, <1>3, <2>1 DEF ConBytes, SinVecinasLibres
<1>8. /\ OcupadaTieneProceso /\ ProcesoTieneOcupada /\ OcupadaUnica
  BY UnaPorProcesoPartes DEF Inv
<1>9. /\ DOMAIN procesos' = DOMAIN procesos \cup {p}
      /\ procesos'[p].base = particiones'[k].base
      /\ procesos'[p].limite = particiones'[k].base + particiones'[k].tamanio - 1
      /\ \A q \in DOMAIN procesos : procesos'[q] = procesos[q]
  BY DEF EntraEnLaLista
<1>10. OcupadaTieneProceso'
  <2>1. ASSUME NEW i \in 1..n, ~particiones'[i].libre
        PROVE  /\ particiones'[i].pid \in DOMAIN procesos'
               /\ procesos'[particiones'[i].pid].base = particiones'[i].base
               /\ procesos'[particiones'[i].pid].limite
                    = particiones'[i].base + particiones'[i].tamanio - 1
    <3>1. CASE i = k
      BY <1>4, <1>9, <3>1
    <3>2. CASE i # k
      <4>1. ~particiones[i].libre
        BY <1>4, <2>1, <3>2
      <4> QED
        BY <1>3, <1>4, <1>8, <1>9, <3>2, <4>1 DEF OcupadaTieneProceso, n
    <3> QED
      BY <3>1, <3>2
  <2> QED
    BY <1>2, <2>1 DEF OcupadaTieneProceso
<1>11. ProcesoTieneOcupada'
  <2>1. ASSUME NEW q \in DOMAIN procesos'
        PROVE  \E i \in 1..n : ~particiones'[i].libre /\ particiones'[i].pid = q
    <3>1. CASE q = p
      BY <1>2, <1>4, <3>1
    <3>2. CASE q # p
      <4>1. PICK i \in 1..n : ~particiones[i].libre /\ particiones[i].pid = q
        BY <1>8, <1>9, <3>2 DEF ProcesoTieneOcupada, n
      <4>2. i # k
        BY <1>5, <4>1
      <4> QED
        BY <1>4, <4>1, <4>2
    <3> QED
      BY <3>1, <3>2
  <2> QED
    BY <1>2, <2>1 DEF ProcesoTieneOcupada
<1>12. OcupadaUnica'
  <2>1. \A i \in 1..n : i # k /\ ~particiones'[i].libre =>
          ~particiones[i].libre /\ particiones'[i].pid # p
    BY <1>4, <1>8 DEF OcupadaTieneProceso, n
  <2>2. ASSUME NEW i \in 1..n, NEW j \in 1..n, ~particiones'[i].libre, ~particiones'[j].libre,
               particiones'[i].pid = particiones'[j].pid
        PROVE  i = j
    <3>1. CASE i = k \/ j = k
      BY <1>4, <2>1, <2>2, <3>1
    <3>2. CASE i # k /\ j # k
      BY <1>4, <1>8, <2>1, <2>2, <3>2 DEF OcupadaUnica, n
    <3> QED
      BY <3>1, <3>2
  <2> QED
    BY <1>2, <2>2 DEF OcupadaUnica
<1> QED
  BY <1>6, <1>7, <1>10, <1>11, <1>12, UnaPorProcesoPartesDespues

\* DINAMICAS: the new partition and the rest fill the place of the free one.
LEMMA PartidaConserva ==
  ASSUME Inv, esquema = "DINAMICAS", UNCHANGED esquema,
         NEW p \in Pids, p \notin DOMAIN procesos, NEW t \in Tamanios,
         NEW k \in 1..Len(particiones), Sirve(k, t),
         QuedaPartida(k, p, t), EntraEnLaLista(k, p), particiones' \in Seq(Marcos)
  PROVE  Mosaico' /\ ConBytes' /\ SinVecinasLibres' /\ UnaPorProceso'
<1> DEFINE n == Len(particiones)
<1>1. particiones \in Seq(Marcos) /\ n \in Nat /\ n >= 1 /\ k \in 1..n
  BY DEF Inv, TypeOK, TipoMemoria, Marcos
<1>2. Len(particiones') = n + 1
  BY DEF QuedaPartida
<1>3. t \in Nat /\ t >= 1
  BY MemoriaOK
<1>4. /\ particiones[k].libre /\ particiones[k].tamanio >= t
      /\ \A i \in 1..n : /\ particiones[i].base \in Nat /\ particiones[i].tamanio \in Nat
                         /\ particiones[i].libre \in BOOLEAN
  BY <1>1, TipoMarcos DEF Sirve
<1>5. /\ particiones'[k].base = particiones[k].base /\ particiones'[k].tamanio = t
      /\ particiones'[k].libre = FALSE /\ particiones'[k].pid = p
  BY DEF QuedaPartida, Marco
<1>6. /\ particiones'[k + 1].base = particiones[k].base + t
      /\ particiones'[k + 1].tamanio = particiones[k].tamanio - t
      /\ particiones'[k + 1].libre = TRUE
  BY DEF QuedaPartida, Marco
<1>7. /\ \A i \in 1..(k - 1) : particiones'[i] = particiones[i]
      /\ \A i \in (k + 2)..(n + 1) : particiones'[i] = particiones[i - 1]
  BY DEF QuedaPartida
<1> HIDE DEF n
<1>8. /\ particiones[1].base = 0
      /\ particiones[n].base + particiones[n].tamanio = TAM_MEMORIA
      /\ \A i \in 1..(n - 1) :
           particiones[i + 1].base = particiones[i].base + particiones[i].tamanio
  BY DEF Inv, Mosaico, n
<1>9. Mosaico'
  <2>1. ASSUME NEW i \in 1..n
        PROVE  particiones'[i + 1].base = particiones'[i].base + particiones'[i].tamanio
    <3>1. CASE i < k - 1
      <4>1. i \in 1..(k - 1) /\ i + 1 \in 1..(k - 1) /\ i \in 1..(n - 1)
        BY <1>1, <3>1
      <4> QED
        BY <1>7, <1>8, <4>1
    <3>2. CASE i = k - 1
      <4>1. i \in 1..(k - 1) /\ i + 1 = k /\ i \in 1..(n - 1)
        BY <1>1, <3>2
      <4> QED
        BY <1>5, <1>7, <1>8, <4>1
    <3>3. CASE i = k
      BY <1>5, <1>6, <3>3
    <3>4. CASE i = k + 1
      <4>1. i + 1 \in (k + 2)..(n + 1) /\ (i + 1) - 1 = k + 1 /\ k \in 1..(n - 1)
        BY <1>1, <3>4
      <4>2. particiones'[i + 1] = particiones[k + 1]
        BY <1>7, <4>1
      <4>3. particiones[k + 1].base = particiones[k].base + particiones[k].tamanio
        BY <1>8, <4>1
      <4>4. particiones[k].base \in Nat /\ particiones[k].tamanio \in Nat
        BY <1>1, <1>4
      <4>5. particiones[k].base + particiones[k].tamanio
              = (particiones[k].base + t) + (particiones[k].tamanio - t)
        BY <1>3, <4>4
      <4> QED
        BY <1>6, <3>4, <4>2, <4>3, <4>5
    <3>5. CASE i > k + 1
      <4>1. /\ i \in (k + 2)..(n + 1) /\ i + 1 \in (k + 2)..(n + 1)
            /\ (i + 1) - 1 = i /\ i - 1 \in 1..(n - 1) /\ (i - 1) + 1 = i
        BY <1>1, <3>5
      <4>2. particiones'[i] = particiones[i - 1] /\ particiones'[i + 1] = particiones[i]
        BY <1>7, <4>1
      <4> QED
        BY <1>8, <4>1, <4>2
    <3> QED
      BY <1>1, <3>1, <3>2, <3>3, <3>4, <3>5
  <2>2. particiones'[1].base = 0
    <3>1. CASE k = 1
      BY <1>5, <1>8, <3>1
    <3>2. CASE k # 1
      <4>1. 1 \in 1..(k - 1)
        BY <1>1, <3>2
      <4> QED
        BY <1>7, <1>8, <4>1
    <3> QED
      BY <3>1, <3>2
  <2>3. particiones'[n + 1].base + particiones'[n + 1].tamanio = TAM_MEMORIA
    <3>1. CASE k = n
      <4>1. particiones[n].base \in Nat /\ particiones[n].tamanio \in Nat
        BY <1>1, <1>4
      <4>2. particiones[n].base + particiones[n].tamanio
              = (particiones[n].base + t) + (particiones[n].tamanio - t)
        BY <1>3, <4>1
      <4> QED
        BY <1>6, <1>8, <3>1, <4>2
    <3>2. CASE k # n
      <4>1. n + 1 \in (k + 2)..(n + 1) /\ (n + 1) - 1 = n
        BY <1>1, <3>2
      <4> QED
        BY <1>7, <1>8, <4>1
    <3> QED
      BY <3>1, <3>2
  <2>4. (n + 1) - 1 = n
    BY <1>1
  <2> QED
    BY <1>2, <2>1, <2>2, <2>3, <2>4 DEF Mosaico
\* Where each partition of the new list was.
<1>10. \A i \in 1..(n + 1) :
         \/ i = k
         \/ i = k + 1
         \/ i \in 1..(k - 1) /\ i \in 1..n /\ particiones'[i] = particiones[i]
         \/ i \in (k + 2)..(n + 1) /\ i - 1 \in 1..n /\ particiones'[i] = particiones[i - 1]
  <2>1. \A i \in 1..(n + 1) :
          \/ i = k
          \/ i = k + 1
          \/ i \in 1..(k - 1) /\ i \in 1..n
          \/ i \in (k + 2)..(n + 1) /\ i - 1 \in 1..n
    BY <1>1
  <2> QED
    BY <1>7, <2>1
<1>11. ConBytes'
  <2>1. \A i \in 1..n : ~particiones[i].libre => particiones[i].tamanio >= 1
    BY DEF Inv, ConBytes, n
  <2>2. \A i \in 1..(n + 1) : ~particiones'[i].libre => particiones'[i].tamanio >= 1
    BY <1>3, <1>5, <1>6, <1>10, <2>1
  <2> QED
    BY <1>2, <2>2 DEF ConBytes
<1>12. SinVecinasLibres'
  <2>1. \A i \in 1..(n - 1) : particiones[i].libre => ~particiones[i + 1].libre
    BY DEF Inv, SinVecinasLibres, n
  <2>2. ASSUME NEW i \in 1..n, particiones'[i].libre
        PROVE  ~particiones'[i + 1].libre
    <3>1. CASE i < k - 1
      <4>1. i \in 1..(k - 1) /\ i + 1 \in 1..(k - 1) /\ i \in 1..(n - 1)
        BY <1>1, <3>1
      <4> QED
        BY <1>7, <2>1, <2>2, <4>1
    <3>2. CASE i = k - 1
      BY <1>1, <1>5, <3>2
    <3>3. CASE i = k
      BY <1>5, <2>2, <3>3
    <3>4. CASE i = k + 1
      <4>1. i + 1 \in (k + 2)..(n + 1) /\ (i + 1) - 1 = k + 1 /\ k \in 1..(n - 1)
        BY <1>1, <3>4
      <4> QED
        BY <1>4, <1>7, <2>1, <4>1
    <3>5. CASE i > k + 1
      <4>1. /\ i \in (k + 2)..(n + 1) /\ i + 1 \in (k + 2)..(n + 1)
            /\ (i + 1) - 1 = i /\ i - 1 \in 1..(n - 1) /\ (i - 1) + 1 = i
        BY <1>1, <3>5
      <4>2. particiones'[i] = particiones[i - 1] /\ particiones'[i + 1] = particiones[i]
        BY <1>7, <4>1
      <4> QED
        BY <2>1, <2>2, <4>1, <4>2
    <3> QED
      BY <1>1, <3>1, <3>2, <3>3, <3>4, <3>5
  <2>3. (n + 1) - 1 = n
    BY <1>1
  <2> QED
    BY <1>2, <2>2, <2>3 DEF SinVecinasLibres
<1>13. /\ OcupadaTieneProceso /\ ProcesoTieneOcupada /\ OcupadaUnica
  BY UnaPorProcesoPartes DEF Inv
<1>14. /\ DOMAIN procesos' = DOMAIN procesos \cup {p}
       /\ procesos'[p].base = particiones'[k].base
       /\ procesos'[p].limite = particiones'[k].base + particiones'[k].tamanio - 1
       /\ \A q \in DOMAIN procesos : procesos'[q] = procesos[q]
  BY DEF EntraEnLaLista
<1>15. OcupadaTieneProceso'
  <2>1. ASSUME NEW i \in 1..(n + 1), ~particiones'[i].libre
        PROVE  /\ particiones'[i].pid \in DOMAIN procesos'
               /\ procesos'[particiones'[i].pid].base = particiones'[i].base
               /\ procesos'[particiones'[i].pid].limite
                    = particiones'[i].base + particiones'[i].tamanio - 1
    <3>1. CASE i = k
      BY <1>5, <1>14, <3>1
    <3>2. CASE i # k
      <4>1. PICK j \in 1..n : particiones'[i] = particiones[j]
        BY <1>6, <1>10, <2>1, <3>2
      <4> QED
        BY <1>13, <1>14, <2>1, <4>1 DEF OcupadaTieneProceso, n
    <3> QED
      BY <3>1, <3>2
  <2> QED
    BY <1>2, <2>1 DEF OcupadaTieneProceso
<1>16. ProcesoTieneOcupada'
  <2>1. ASSUME NEW q \in DOMAIN procesos'
        PROVE  \E i \in 1..(n + 1) : ~particiones'[i].libre /\ particiones'[i].pid = q
    <3>1. CASE q = p
      BY <1>1, <1>5, <3>1
    <3>2. CASE q # p
      <4>1. PICK i \in 1..n : ~particiones[i].libre /\ particiones[i].pid = q
        BY <1>13, <1>14, <3>2 DEF ProcesoTieneOcupada, n
      <4>2. i # k
        BY <1>4, <4>1
      <4>3. CASE i < k
        BY <1>1, <1>7, <4>1, <4>3
      <4>4. CASE i > k
        <5>1. i + 1 \in (k + 2)..(n + 1) /\ (i + 1) - 1 = i /\ i + 1 \in 1..(n + 1)
          BY <1>1, <4>4
        <5> QED
          BY <1>7, <4>1, <5>1
      <4> QED
        BY <1>1, <4>2, <4>3, <4>4
    <3> QED
      BY <3>1, <3>2
  <2> QED
    BY <1>2, <2>1 DEF ProcesoTieneOcupada
<1>17. OcupadaUnica'
  <2>1. ASSUME NEW i \in 1..(n + 1), i # k, ~particiones'[i].libre
        PROVE  /\ particiones'[i].pid # p
               /\ \/ i < k /\ i \in 1..n /\ particiones'[i] = particiones[i]
                  \/ i > k + 1 /\ i - 1 \in 1..n /\ particiones'[i] = particiones[i - 1]
    <3>1. \/ i < k /\ i \in 1..n /\ particiones'[i] = particiones[i]
          \/ i > k + 1 /\ i - 1 \in 1..n /\ particiones'[i] = particiones[i - 1]
      BY <1>1, <1>6, <1>10, <2>1
    <3>2. PICK j \in 1..n : particiones'[i] = particiones[j]
      BY <3>1
    <3>3. particiones'[i].pid \in DOMAIN procesos
      BY <1>13, <2>1, <3>2 DEF OcupadaTieneProceso, n
    <3> QED
      BY <3>1, <3>3
  <2>2. ASSUME NEW i \in 1..(n + 1), NEW j \in 1..(n + 1),
               ~particiones'[i].libre, ~particiones'[j].libre,
               particiones'[i].pid = particiones'[j].pid
        PROVE  i = j
    <3>1. CASE i = k \/ j = k
      BY <1>5, <2>1, <2>2, <3>1
    <3>2. CASE i # k /\ j # k
      <4>1. \/ i < k /\ i \in 1..n /\ particiones'[i] = particiones[i]
            \/ i > k + 1 /\ i - 1 \in 1..n /\ particiones'[i] = particiones[i - 1]
        BY <2>1, <2>2, <3>2
      <4>2. \/ j < k /\ j \in 1..n /\ particiones'[j] = particiones[j]
            \/ j > k + 1 /\ j - 1 \in 1..n /\ particiones'[j] = particiones[j - 1]
        BY <2>1, <2>2, <3>2
      <4>3. \A x \in 1..n, y \in 1..n :
              /\ ~particiones[x].libre /\ ~particiones[y].libre
              /\ particiones[x].pid = particiones[y].pid
              => x = y
        BY <1>13 DEF OcupadaUnica, n
      <4>4. CASE i < k /\ j < k
        BY <1>1, <2>2, <4>1, <4>2, <4>3, <4>4
      <4>5. CASE i > k + 1 /\ j > k + 1
        <5>1. i - 1 = j - 1
          BY <1>1, <2>2, <4>1, <4>2, <4>3, <4>5
        <5> QED
          BY <5>1
      <4>6. CASE i < k /\ j > k + 1
        <5>1. i = j - 1
          BY <1>1, <2>2, <4>1, <4>2, <4>3, <4>6
        <5> QED
          BY <1>1, <4>6, <5>1
      <4>7. CASE i > k + 1 /\ j < k
        <5>1. i - 1 = j
          BY <1>1, <2>2, <4>1, <4>2, <4>3, <4>7
        <5> QED
          BY <1>1, <4>7, <5>1
      <4> QED
        BY <4>1, <4>2, <4>4, <4>5, <4>6, <4>7
    <3> QED
      BY <3>1, <3>2
  <2> QED
    BY <1>2, <2>2 DEF OcupadaUnica
<1> QED
  BY <1>9, <1>11, <1>12, <1>15, <1>16, <1>17, UnaPorProcesoPartesDespues

-----------------------------------------------------------------------------
(* The end of a process keeps the tiling and the owners of the others. *)

LEMMA LiberaConserva ==
  ASSUME Inv, UNCHANGED esquema, NEW p \in DOMAIN procesos, NEW q \in Int,
         NEW i \in 1..Len(particiones),
         NEW a \in 1..Len(particiones), NEW b \in 1..Len(particiones),
         ~particiones[i].libre, particiones[i].pid = p,
         Vecinas(a, i, b), QuedaLibre(a, b, q), particiones' \in Seq(Marcos),
         procesos' = [r \in DOMAIN procesos \ {p} |-> procesos[r]]
  PROVE  Mosaico' /\ ConBytes' /\ SinVecinasLibres' /\ UnaPorProceso' /\ particiones' # <<>>
<1> DEFINE n == Len(particiones)
           d == b - a
           m == n - d
<1>1. /\ particiones \in Seq(Marcos) /\ n \in Nat /\ n >= 1
      /\ i \in 1..n /\ a \in 1..n /\ b \in 1..n
  <2>1. particiones \in Seq(Marcos) /\ particiones # <<>>
    BY DEF Inv, TypeOK, TipoMemoria, Marcos
  <2> QED
    BY <2>1
<1>2. /\ a \in {i - 1, i} /\ b \in {i, i + 1}
      /\ a # i => particiones[a].libre
      /\ b # i => particiones[b].libre
      /\ esquema = "FIJAS" => a = i /\ b = i
      /\ esquema = "DINAMICAS" => /\ a = i /\ i > 1 => ~particiones[i - 1].libre
                                  /\ b = i /\ i < n => ~particiones[i + 1].libre
  BY DEF Vecinas
<1>3. d \in 0..2 /\ a <= i /\ i <= b /\ b = a + d /\ m \in Nat /\ a <= m /\ m >= 1
  BY <1>1, <1>2
<1>4. /\ Len(particiones') = m
      /\ \A j \in 1..(a - 1) : particiones'[j] = particiones[j]
      /\ \A j \in (a + 1)..m : particiones'[j] = particiones[j + d]
      /\ particiones'[a].base = particiones[a].base
      /\ particiones'[a].tamanio =
           particiones[b].base + particiones[b].tamanio - particiones[a].base
      /\ particiones'[a].libre = TRUE
  BY DEF QuedaLibre
<1>5. \A j \in 1..n : /\ particiones[j].base \in Nat /\ particiones[j].tamanio \in Nat
                      /\ particiones[j].libre \in BOOLEAN
  BY <1>1, TipoMarcos
<1>6. /\ particiones[1].base = 0
      /\ esquema = "DINAMICAS" => particiones[n].base + particiones[n].tamanio = TAM_MEMORIA
      /\ \A j \in 1..(n - 1) :
           particiones[j + 1].base = particiones[j].base + particiones[j].tamanio
  BY DEF Inv, Mosaico
<1>7. m = n - d
  OBVIOUS
<1> HIDE DEF n, d, m
<1>8. particiones'[a].base + particiones'[a].tamanio = particiones[b].base + particiones[b].tamanio
  <2>1. \A x, y, z \in Nat : z + ((x + y) - z) = x + y
    OBVIOUS
  <2>2. \A x, y, z \in Nat : x + y - z = (x + y) - z
    OBVIOUS
  <2>3. particiones[a].base \in Nat /\ particiones[b].base \in Nat /\ particiones[b].tamanio \in Nat
    BY <1>1, <1>5
  <2> QED
    BY <1>4, <2>1, <2>2, <2>3
<1>9. Mosaico'
  <2>1. ASSUME NEW j \in 1..(m - 1)
        PROVE  particiones'[j + 1].base = particiones'[j].base + particiones'[j].tamanio
    <3>1. CASE j < a - 1
      <4>1. j \in 1..(a - 1) /\ j + 1 \in 1..(a - 1) /\ j \in 1..(n - 1)
        BY <1>1, <3>1
      <4> QED
        BY <1>4, <1>6, <4>1
    <3>2. CASE j = a - 1
      <4>1. j \in 1..(a - 1) /\ j + 1 = a /\ j \in 1..(n - 1)
        BY <1>1, <3>2
      <4> QED
        BY <1>4, <1>6, <4>1
    <3>3. CASE j = a
      <4>1. j + 1 \in (a + 1)..m /\ (j + 1) + d = b + 1 /\ b \in 1..(n - 1)
        BY <1>1, <1>3, <1>7, <3>3
      <4>2. particiones'[j + 1] = particiones[b + 1]
        BY <1>4, <4>1
      <4>3. particiones[b + 1].base = particiones[b].base + particiones[b].tamanio
        BY <1>6, <4>1
      <4> QED
        BY <1>8, <3>3, <4>2, <4>3
    <3>4. CASE j > a
      <4>1. /\ j \in (a + 1)..m /\ j + 1 \in (a + 1)..m
            /\ (j + 1) + d = (j + d) + 1 /\ j + d \in 1..(n - 1)
        BY <1>1, <1>3, <1>7, <3>4
      <4>2. particiones'[j] = particiones[j + d] /\ particiones'[j + 1] = particiones[(j + d) + 1]
        BY <1>4, <4>1
      <4> QED
        BY <1>6, <4>1, <4>2
    <3> QED
      BY <1>1, <1>3, <3>1, <3>2, <3>3, <3>4
  <2>2. particiones'[1].base = 0
    <3>1. CASE a = 1
      BY <1>4, <1>6, <3>1
    <3>2. CASE a # 1
      <4>1. 1 \in 1..(a - 1)
        BY <1>1, <3>2
      <4> QED
        BY <1>4, <1>6, <4>1
    <3> QED
      BY <3>1, <3>2
  <2>3. esquema = "DINAMICAS" => particiones'[m].base + particiones'[m].tamanio = TAM_MEMORIA
    <3>1. CASE m = a
      <4>1. b = n
        BY <1>1, <1>3, <1>7, <3>1
      <4> QED
        BY <1>6, <1>8, <3>1, <4>1
    <3>2. CASE m # a
      <4>1. m \in (a + 1)..m /\ m + d = n
        BY <1>1, <1>3, <1>7, <3>2
      <4>2. particiones'[m] = particiones[n]
        BY <1>4, <4>1
      <4> QED
        BY <1>6, <4>2
    <3> QED
      BY <3>1, <3>2
  <2> QED
    BY <1>4, <2>1, <2>2, <2>3 DEF Mosaico
\* Where each partition of the new list was.
<1>10. \A j \in 1..m :
         \/ j = a
         \/ j < a /\ j \in 1..n /\ particiones'[j] = particiones[j]
         \/ j > a /\ j + d \in 1..n /\ particiones'[j] = particiones[j + d]
  <2>1. \A j \in 1..m :
          \/ j = a
          \/ j < a /\ j \in 1..n /\ j \in 1..(a - 1)
          \/ j > a /\ j + d \in 1..n /\ j \in (a + 1)..m
    BY <1>1, <1>3, <1>7
  <2> QED
    BY <1>4, <2>1
<1>11. ConBytes'
  <2>1. \A j \in 1..n : ~particiones[j].libre \/ esquema = "FIJAS" => particiones[j].tamanio >= 1
    BY DEF Inv, ConBytes, n
  <2>2. ASSUME NEW j \in 1..m, ~particiones'[j].libre \/ esquema = "FIJAS"
        PROVE  particiones'[j].tamanio >= 1
    <3>1. CASE j = a
      <4>1. esquema = "FIJAS" /\ a = b
        BY <1>2, <1>4, <2>2, <3>1
      <4>2. \A x, y \in Nat : x + y - x = y
        OBVIOUS
      <4>3. particiones'[a].tamanio = particiones[a].tamanio
        BY <1>1, <1>4, <1>5, <4>1, <4>2
      <4> QED
        BY <1>1, <2>1, <3>1, <4>1, <4>3
    <3>2. CASE j # a
      BY <1>10, <2>1, <2>2, <3>2
    <3> QED
      BY <3>1, <3>2
  <2> QED
    BY <1>4, <2>2 DEF ConBytes
<1>12. SinVecinasLibres'
  <2>1. SUFFICES ASSUME esquema = "DINAMICAS"
                 PROVE  \A j \in 1..(m - 1) :
                          particiones'[j].libre => ~particiones'[j + 1].libre
    BY <1>4 DEF SinVecinasLibres
  <2>2. \A j \in 1..(n - 1) : particiones[j].libre => ~particiones[j + 1].libre
    BY <2>1 DEF Inv, SinVecinasLibres, n
  <2>3. a > 1 => ~particiones[a - 1].libre
    <3>1. CASE a = i
      BY <1>1, <1>2, <2>1, <3>1
    <3>2. CASE a # i
      <4>1. a > 1 => a - 1 \in 1..(n - 1) /\ (a - 1) + 1 = a
        BY <1>1
      <4>2. a > 1 /\ particiones[a - 1].libre => ~particiones[a].libre
        BY <2>2, <4>1
      <4> QED
        BY <1>2, <3>2, <4>2
    <3> QED
      BY <3>1, <3>2
  <2>4. b < n => ~particiones[b + 1].libre
    <3>1. CASE b = i
      BY <1>1, <1>2, <2>1, <3>1
    <3>2. CASE b # i
      <4>1. b < n => b \in 1..(n - 1)
        BY <1>1
      <4> QED
        BY <1>2, <2>2, <3>2, <4>1
    <3> QED
      BY <3>1, <3>2
  <2>5. ASSUME NEW j \in 1..(m - 1), particiones'[j].libre
        PROVE  ~particiones'[j + 1].libre
    <3>1. CASE j < a - 1
      <4>1. j \in 1..(a - 1) /\ j + 1 \in 1..(a - 1) /\ j \in 1..(n - 1)
        BY <1>1, <3>1
      <4> QED
        BY <1>4, <2>2, <2>5, <4>1
    <3>2. CASE j = a - 1
      <4>1. j \in 1..(a - 1) /\ a > 1
        BY <1>1, <3>2
      <4> QED
        BY <1>4, <2>3, <2>5, <3>2, <4>1
    <3>3. CASE j = a
      <4>1. j + 1 \in (a + 1)..m /\ (j + 1) + d = b + 1 /\ b < n
        BY <1>1, <1>3, <1>7, <3>3
      <4> QED
        BY <1>4, <2>4, <4>1
    <3>4. CASE j > a
      <4>1. /\ j \in (a + 1)..m /\ j + 1 \in (a + 1)..m
            /\ (j + 1) + d = (j + d) + 1 /\ j + d \in 1..(n - 1)
        BY <1>1, <1>3, <1>7, <3>4
      <4>2. particiones'[j] = particiones[j + d] /\ particiones'[j + 1] = particiones[(j + d) + 1]
        BY <1>4, <4>1
      <4> QED
        BY <2>2, <2>5, <4>1, <4>2
    <3> QED
      BY <1>1, <1>3, <3>1, <3>2, <3>3, <3>4
  <2> QED
    BY <2>5
<1>13. /\ OcupadaTieneProceso /\ ProcesoTieneOcupada /\ OcupadaUnica
  BY UnaPorProcesoPartes DEF Inv
<1>14. /\ DOMAIN procesos' = DOMAIN procesos \ {p}
       /\ \A r \in DOMAIN procesos \ {p} : procesos'[r] = procesos[r]
  OBVIOUS
\* The only occupied partition among those joined is i.
<1>15. \A j \in a..b : j # i => particiones[j].libre
  <2>1. \A j \in a..b : j # i => j = a \/ j = b
    BY <1>1, <1>2
  <2> QED
    BY <1>2, <2>1
<1>16. ASSUME NEW j \in 1..m, ~particiones'[j].libre
       PROVE  \/ j < a /\ j \in 1..n /\ j # i /\ particiones'[j] = particiones[j]
              \/ j > a /\ j + d \in 1..n /\ j + d # i /\ particiones'[j] = particiones[j + d]
  <2>1. j # a
    BY <1>4, <1>16
  <2> QED
    BY <1>1, <1>3, <1>10, <2>1
<1>17. \A x \in 1..n : ~particiones[x].libre /\ x # i => particiones[x].pid # p
  BY <1>13 DEF OcupadaUnica, n
<1>18. OcupadaTieneProceso'
  <2>1. ASSUME NEW j \in 1..m, ~particiones'[j].libre
        PROVE  /\ particiones'[j].pid \in DOMAIN procesos'
               /\ procesos'[particiones'[j].pid].base = particiones'[j].base
               /\ procesos'[particiones'[j].pid].limite
                    = particiones'[j].base + particiones'[j].tamanio - 1
    <3>1. PICK x \in 1..n : x # i /\ particiones'[j] = particiones[x]
      BY <1>16, <2>1
    <3>2. ~particiones[x].libre /\ particiones[x].pid # p
      BY <1>17, <2>1, <3>1
    <3>3. /\ particiones[x].pid \in DOMAIN procesos
          /\ procesos[particiones[x].pid].base = particiones[x].base
          /\ procesos[particiones[x].pid].limite = particiones[x].base + particiones[x].tamanio - 1
      BY <1>13, <3>2 DEF OcupadaTieneProceso, n
    <3>4. procesos'[particiones[x].pid] = procesos[particiones[x].pid]
      BY <1>14, <3>2, <3>3
    <3> QED
      BY <1>14, <3>1, <3>2, <3>3, <3>4
  <2> QED
    BY <1>4, <2>1 DEF OcupadaTieneProceso
<1>19. ProcesoTieneOcupada'
  <2>1. ASSUME NEW r \in DOMAIN procesos'
        PROVE  \E j \in 1..m : ~particiones'[j].libre /\ particiones'[j].pid = r
    <3>1. PICK x \in 1..n : ~particiones[x].libre /\ particiones[x].pid = r
      BY <1>13, <1>14 DEF ProcesoTieneOcupada, n
    <3>2. x # i /\ r # p
      BY <1>14, <3>1
    <3>3. x < a \/ x > b
      BY <1>1, <1>15, <3>1, <3>2
    <3>4. CASE x < a
      <4>1. x \in 1..(a - 1) /\ x \in 1..m
        BY <1>1, <1>3, <3>4
      <4> QED
        BY <1>4, <3>1, <4>1
    <3>5. CASE x > b
      <4>1. x - d \in (a + 1)..m /\ (x - d) + d = x /\ x - d \in 1..m
        BY <1>1, <1>3, <1>7, <3>5
      <4>2. particiones'[x - d] = particiones[x]
        BY <1>4, <4>1
      <4> QED
        BY <3>1, <4>1, <4>2
    <3> QED
      BY <3>3, <3>4, <3>5
  <2> QED
    BY <1>4, <2>1 DEF ProcesoTieneOcupada
<1>20. OcupadaUnica'
  <2>1. ASSUME NEW j \in 1..m, NEW k \in 1..m,
               ~particiones'[j].libre, ~particiones'[k].libre,
               particiones'[j].pid = particiones'[k].pid
        PROVE  j = k
    <3>1. \/ j < a /\ j \in 1..n /\ particiones'[j] = particiones[j]
          \/ j > a /\ j + d \in 1..n /\ particiones'[j] = particiones[j + d]
      BY <1>16, <2>1
    <3>2. \/ k < a /\ k \in 1..n /\ particiones'[k] = particiones[k]
          \/ k > a /\ k + d \in 1..n /\ particiones'[k] = particiones[k + d]
      BY <1>16, <2>1
    <3>3. \A x \in 1..n, y \in 1..n :
            /\ ~particiones[x].libre /\ ~particiones[y].libre
            /\ particiones[x].pid = particiones[y].pid
            => x = y
      BY <1>13 DEF OcupadaUnica, n
    <3>4. CASE j < a /\ k < a
      BY <1>1, <2>1, <3>1, <3>2, <3>3, <3>4
    <3>5. CASE j > a /\ k > a
      <4>1. /\ j + d \in 1..n /\ particiones'[j] = particiones[j + d]
            /\ k + d \in 1..n /\ particiones'[k] = particiones[k + d]
        BY <1>1, <3>1, <3>2, <3>5
      <4>2. j + d = k + d
        BY <2>1, <3>3, <4>1
      <4> QED
        BY <1>3, <4>2
    <3>6. CASE j < a /\ k > a
      <4>1. j = k + d
        BY <1>1, <2>1, <3>1, <3>2, <3>3, <3>6, SMTT(30)
      <4>2. j \in Nat /\ k \in Nat /\ a \in Nat /\ d \in Nat
        BY <1>1, <1>3
      <4> QED
        BY <3>6, <4>1, <4>2
    <3>7. CASE j > a /\ k < a
      <4>1. j + d = k
        BY <1>1, <2>1, <3>1, <3>2, <3>3, <3>7, SMTT(30)
      <4>2. j \in Nat /\ k \in Nat /\ a \in Nat /\ d \in Nat
        BY <1>1, <1>3
      <4> QED
        BY <3>7, <4>1, <4>2
    <3> QED
      BY <3>1, <3>2, <3>4, <3>5, <3>6, <3>7
  <2> QED
    BY <1>4, <2>1 DEF OcupadaUnica
<1>21. particiones' # <<>>
  BY <1>3, <1>4
<1> QED
  BY <1>9, <1>11, <1>12, <1>18, <1>19, <1>20, <1>21, UnaPorProcesoPartesDespues

-----------------------------------------------------------------------------
(* The steps preserve the invariant. *)

TipoKernel ==
  /\ lista_new \in Seq([pid : Pids, size : Tamanios])
  /\ lista_ready \subseteq Pids /\ lista_exit \subseteq Pids
  /\ identificador_PID \in 1..MaxProcesos
  /\ hay_pcb \in BOOLEAN

\* The head of lista_new is the process with the lowest pid that waits.
LEMMA PrimeroDeNew ==
  ASSUME Inv, lista_new # <<>>
  PROVE  /\ Head(lista_new).pid \in Pids /\ Head(lista_new).size \in Tamanios
         /\ Tail(lista_new) \in Seq([pid : Pids, size : Tamanios])
         /\ Len(Tail(lista_new)) = Len(lista_new) - 1
         /\ \A i \in 1..(Len(lista_new) - 1) : Tail(lista_new)[i] = lista_new[i + 1]
         /\ Head(lista_new) = lista_new[1] /\ Head(lista_new).pid \in EnNew
         /\ Head(lista_new).pid \notin lista_ready \cup lista_exit
         /\ \A i \in 2..Len(lista_new) : Head(lista_new).pid < lista_new[i].pid
<1> DEFINE R == [pid : Pids, size : Tamanios]
           n == Len(lista_new)
<1>1. lista_new \in Seq(R)
  BY DEF Inv, TypeOK
<1>2. n \in Nat /\ n >= 1 /\ Head(lista_new) = lista_new[1] /\ lista_new[1] \in R
  <2> HIDE DEF R
  <2> QED
    BY <1>1
<1>3. /\ Tail(lista_new) \in Seq(R) /\ Len(Tail(lista_new)) = n - 1
      /\ \A i \in 1..(n - 1) : Tail(lista_new)[i] = lista_new[i + 1]
  <2> HIDE DEF R
  <2> QED
    BY <1>1
<1>4. lista_new[1].pid \in Pids /\ lista_new[1].size \in Tamanios
  BY <1>2
<1>5. lista_new[1].pid \in EnNew
  BY <1>2 DEF EnNew
<1>6. lista_new[1].pid \notin lista_ready \cup lista_exit
  <2>1. \A p \in Pids : ~(p < p)
    BY MaxProcesosOK DEF Pids
  <2> QED
    BY <1>4, <1>5, <2>1 DEF Inv, AdmisionEnOrden
<1>7. \A i \in 2..n : lista_new[1].pid < lista_new[i].pid
  <2>1. \A i \in 2..n : 1 \in 1..n /\ i \in 1..n /\ 1 < i
    BY <1>2
  <2> QED
    BY <2>1 DEF Inv, AdmisionEnOrden
<1> QED
  BY <1>2, <1>3, <1>4, <1>5, <1>6, <1>7

\* The kernel's side of an admission.
LEMMA AdmiteKernel ==
  ASSUME Inv, PlpAdmite, DOMAIN procesos' = DOMAIN procesos \cup {Head(lista_new).pid}
  PROVE  TipoKernel' /\ AdmisionEnOrden' /\ UnaSolaVida'
<1> DEFINE n == Len(lista_new)
           p == Head(lista_new).pid
           l == Tail(lista_new)
<1>1. /\ lista_new # <<>> /\ lista_new' = l /\ lista_ready' = lista_ready \cup {p}
      /\ lista_exit' = lista_exit /\ identificador_PID' = identificador_PID
      /\ hay_pcb' = (l # <<>>)
  BY DEF PlpAdmite
<1>2. n \in Nat /\ n >= 1
  BY <1>1 DEF Inv, TypeOK
<1>3. /\ p \in Pids /\ l \in Seq([pid : Pids, size : Tamanios]) /\ Len(l) = n - 1
      /\ \A i \in 1..(n - 1) : l[i] = lista_new[i + 1]
      /\ p = lista_new[1].pid /\ p \in EnNew /\ p \notin lista_ready \cup lista_exit
      /\ \A i \in 2..n : p < lista_new[i].pid
  BY <1>1, PrimeroDeNew
<1> HIDE DEF n, p, l
<1>4. EnNew' = {l[i].pid : i \in 1..(n - 1)}
  BY <1>1, <1>3 DEF EnNew
<1>5. EnNew = {lista_new[i].pid : i \in 1..n}
  BY DEF EnNew, n
<1>6. \A r \in EnNew' : r \in EnNew /\ p < r
  <2>1. ASSUME NEW i \in 1..(n - 1)  PROVE l[i].pid \in EnNew /\ p < l[i].pid
    <3>1. i + 1 \in 2..n /\ i + 1 \in 1..n
      BY <1>2
    <3> QED
      BY <1>3, <1>5, <3>1
  <2> QED
    BY <1>4, <2>1
<1>7. \A r \in EnNew : r = p \/ r \in EnNew'
  <2>1. ASSUME NEW i \in 1..n  PROVE lista_new[i].pid = p \/ lista_new[i].pid \in EnNew'
    <3>1. CASE i = 1
      BY <1>3, <3>1
    <3>2. CASE i # 1
      <4>1. i - 1 \in 1..(n - 1) /\ (i - 1) + 1 = i
        BY <1>2, <3>2
      <4> QED
        BY <1>3, <1>4, <4>1
    <3> QED
      BY <3>1, <3>2
  <2> QED
    BY <1>5, <2>1
<1>8. AdmisionEnOrden'
  <2>1. /\ DOMAIN procesos = lista_ready
        /\ \A r \in EnNew, q \in lista_ready \cup lista_exit : q < r
        /\ EnNew \cup lista_ready \cup lista_exit = 0..(identificador_PID - 1)
        /\ \A i, j \in 1..n : i < j => lista_new[i].pid < lista_new[j].pid
    BY DEF Inv, AdmisionEnOrden, n
  <2>2. DOMAIN procesos' = lista_ready'
    BY <1>1, <2>1 DEF p
  <2>3. \A r \in EnNew', q \in lista_ready' \cup lista_exit' : q < r
    BY <1>1, <1>6, <2>1
  <2>4. EnNew' \cup lista_ready' \cup lista_exit' = 0..(identificador_PID' - 1)
    BY <1>1, <1>3, <1>6, <1>7, <2>1
  <2>5. ASSUME NEW i \in 1..(n - 1), NEW j \in 1..(n - 1), i < j
        PROVE  l[i].pid < l[j].pid
    <3>1. i + 1 \in 1..n /\ j + 1 \in 1..n /\ i + 1 < j + 1
      BY <1>2, <2>5
    <3> QED
      BY <1>3, <2>1, <3>1
  <2> QED
    BY <1>1, <1>3, <2>2, <2>3, <2>4, <2>5 DEF AdmisionEnOrden
<1>9. TipoKernel'
  <2>1. hay_pcb' \in BOOLEAN
    BY <1>1, Zenon
  <2> QED
    BY <1>1, <1>3, <2>1 DEF TipoKernel, Inv, TypeOK
<1>10. UnaSolaVida'
  BY <1>1, <1>3 DEF Inv, UnaSolaVida
<1> QED
  BY <1>8, <1>9, <1>10

\* Before the first process is admitted the memory is one free partition.
LEMMA MemoriaEntera ==
  ASSUME Inv, esquema = "DINAMICAS", 0 \in EnNew
  PROVE  Len(particiones) = 1
<1> DEFINE n == Len(particiones)
<1>1. particiones \in Seq(Marcos) /\ particiones # <<>>
  BY DEF Inv, TypeOK, TipoMemoria, Marcos
<1>2. n \in Nat /\ n >= 1
  BY <1>1
<1>3. DOMAIN procesos = {}
  <2>1. \A q \in lista_ready : q \in Nat /\ q < 0
    BY MaxProcesosOK DEF Inv, TypeOK, AdmisionEnOrden, Pids
  <2>2. lista_ready = {}
    BY <2>1
  <2> QED
    BY <2>2 DEF Inv, AdmisionEnOrden
<1>4. \A i \in 1..n : particiones[i].libre
  <2>1. OcupadaTieneProceso
    BY UnaPorProcesoPartes DEF Inv
  <2> QED
    BY <1>3, <2>1 DEF OcupadaTieneProceso
<1>5. \A i \in 1..(n - 1) : particiones[i].libre => ~particiones[i + 1].libre
  BY DEF Inv, SinVecinasLibres
<1>6. SUFFICES ASSUME n # 1 PROVE FALSE
  OBVIOUS
<1>7. 1 \in 1..(n - 1) /\ 1 \in 1..n /\ 2 \in 1..n /\ 1 + 1 = 2
  <2> HIDE DEF n
  <2> QED
    BY <1>2, <1>6
<1> QED
  BY <1>4, <1>5, <1>7

LEMMA AdmiteInv ==
  ASSUME Inv, PlpAdmite
  PROVE  Inv'
<1> DEFINE p == Head(lista_new).pid
           t == Head(lista_new).size
           n == Len(particiones)
<1>1. /\ lista_new # <<>> /\ InicializarEstructuras(p, t)
      /\ lista_ready' = lista_ready \cup {p} /\ lista_exit' = lista_exit
  BY DEF PlpAdmite
<1>2. p \in Pids /\ t \in Tamanios /\ p \in EnNew /\ p \notin lista_ready
  BY <1>1, PrimeroDeNew
<1> HIDE DEF p, t
<1>3. p \notin DOMAIN procesos
  BY <1>2 DEF Inv, AdmisionEnOrden
<1>4. PICK k \in 1..n :
        /\ Sirve(k, t)
        /\ \/ esquema = "FIJAS" /\ QuedaFija(k, p)
           \/ esquema = "DINAMICAS" /\ QuedaPartida(k, p, t)
        /\ EntraEnLaLista(k, p)
        /\ particiones' \in Seq(Marcos)
        /\ UNCHANGED <<esquema, busqueda>>
  BY <1>1, <1>2, AdmiteForma
<1>5. Mosaico' /\ ConBytes' /\ SinVecinasLibres' /\ UnaPorProceso'
  BY <1>2, <1>3, <1>4, FijaConserva, PartidaConserva
<1>6. /\ DOMAIN procesos' = DOMAIN procesos \cup {p}
      /\ procesos'[p] = [base   |-> particiones'[k].base,
                         limite |-> particiones'[k].base + particiones'[k].tamanio - 1]
      /\ \A q \in DOMAIN procesos : q # p => procesos'[q] = procesos[q]
  BY <1>4 DEF EntraEnLaLista
<1>7. TipoKernel' /\ AdmisionEnOrden' /\ UnaSolaVida'
  BY <1>6, AdmiteKernel DEF p
<1>8. /\ particiones \in Seq(Marcos) /\ n \in Nat /\ n >= 1 /\ k \in 1..n
  <2>1. particiones \in Seq(Marcos) /\ particiones # <<>>
    BY DEF Inv, TypeOK, TipoMemoria, Marcos
  <2> QED
    BY <2>1
<1>9. /\ Len(particiones') \in Nat /\ k \in 1..Len(particiones') /\ particiones' # <<>>
      /\ particiones'[k].libre = FALSE /\ particiones'[k].pid = p
  <2>1. Len(particiones') \in {n, n + 1}
    BY <1>4 DEF QuedaFija, QuedaPartida
  <2>2. Len(particiones') \in Nat /\ k \in 1..Len(particiones')
    BY <1>8, <2>1
  <2>3. particiones'[k].libre = FALSE /\ particiones'[k].pid = p
    BY <1>4 DEF QuedaFija, QuedaPartida, Marco
  <2> QED
    BY <2>2, <2>3
<1>10. TypeOK'
  <2>1. particiones'[k] \in Marcos
    BY <1>4, <1>9
  <2>2. particiones'[k].base \in Nat /\ particiones'[k].tamanio \in Nat
    BY <2>1 DEF Marcos
  <2>3. particiones'[k].tamanio >= 1
    BY <1>5, <1>9 DEF ConBytes
  <2>4. particiones'[k].base + particiones'[k].tamanio - 1 \in Nat
    BY <2>2, <2>3
  <2>5. procesos'[p] \in [base : Nat, limite : Nat]
    BY <1>6, <2>2, <2>4
  <2>6. \A q \in DOMAIN procesos' : procesos'[q] \in [base : Nat, limite : Nat]
    BY <1>6, <2>5 DEF Inv, TypeOK, TipoMemoria
  <2>7. esquema' \in Esquemas /\ busqueda' \in Busquedas
    BY <1>4 DEF Inv, TypeOK, TipoMemoria
  <2>8. TipoMemoria'
    BY <1>4, <2>6, <2>7 DEF TipoMemoria, Marcos
  <2> QED
    BY <1>7, <2>8 DEF TypeOK, TipoKernel
<1> DEFINE Vieja(m) == \/ m.pid \in lista_exit \cup {SinPid}
                       \/ esquema = "DINAMICAS" /\ m.pid = Nulo
<1>11. \A i \in 1..n : particiones[i].libre => Vieja(particiones[i])
  BY DEF Inv, PidsViejos
<1>12. PidsViejos'
  <2>1. ASSUME NEW i \in 1..Len(particiones'), particiones'[i].libre  PROVE Vieja(particiones'[i])
    <3> HIDE DEF Vieja
    <3>1. i # k
      BY <1>9, <2>1
    <3>2. CASE esquema = "FIJAS"
      <4>1. QuedaFija(k, p)
        BY <1>4, <3>2
      <4> QED
        BY <1>11, <2>1, <3>1, <4>1 DEF QuedaFija
    <3>3. CASE esquema = "DINAMICAS"
      <4>1. QuedaPartida(k, p, t)
        BY <1>4, <3>3
      <4>2. CASE i = k + 1
        <5>1. particiones'[i].pid = particiones[k].pid
          BY <4>1, <4>2 DEF QuedaPartida, Marco
        <5>2. Vieja(particiones[k])
          BY <1>4, <1>8, <1>11 DEF Sirve
        <5> QED
          BY <5>1, <5>2 DEF Vieja
      <4>3. CASE i < k
        <5>1. i \in 1..(k - 1) /\ i \in 1..n
          BY <1>8, <4>3
        <5> QED
          BY <1>11, <2>1, <4>1, <5>1 DEF QuedaPartida
      <4>4. CASE i > k + 1
        <5>1. i \in (k + 2)..(n + 1) /\ i - 1 \in 1..n
          BY <1>8, <4>1, <4>4 DEF QuedaPartida
        <5> QED
          BY <1>11, <2>1, <4>1, <5>1 DEF QuedaPartida
      <4> QED
        BY <1>8, <3>1, <4>2, <4>3, <4>4
    <3> QED
      BY <1>4, <3>2, <3>3
  <2> QED
    BY <1>1, <1>4, <2>1 DEF PidsViejos
<1>13. PrimeraDelCero'
  <2>1. SUFFICES ASSUME esquema = "DINAMICAS", 0 \in lista_ready \cup {p}
                 PROVE  particiones'[1].libre = FALSE /\ particiones'[1].pid = 0
    BY <1>1, <1>4 DEF PrimeraDelCero
  <2>2. CASE p = 0
    <3>1. k = 1
      <4>1. n = 1
        BY <1>2, <2>1, <2>2, MemoriaEntera
      <4> HIDE DEF n
      <4> QED
        BY <1>8, <4>1
    <3> QED
      BY <1>9, <2>2, <3>1
  <2>3. CASE p # 0
    <3>1. ~particiones[1].libre /\ particiones[1].pid = 0
      BY <2>1, <2>3 DEF Inv, PrimeraDelCero
    <3>2. 1 \in 1..(k - 1)
      BY <1>4, <1>8, <3>1 DEF Sirve
    <3>3. particiones'[1] = particiones[1]
      BY <1>4, <2>1, <3>2 DEF QuedaPartida
    <3>4. particiones[1].libre \in BOOLEAN
      BY <1>8, TipoMarcos
    <3> QED
      BY <3>1, <3>3, <3>4
  <2> QED
    BY <2>2, <2>3
<1> QED
  BY <1>5, <1>7, <1>9, <1>10, <1>12, <1>13 DEF Inv

LEMMA FinalizaInv ==
  ASSUME Inv, NEW p \in Pids, FinalizarProceso(p)
  PROVE  Inv'
<1> DEFINE n == Len(particiones)
<1>1. /\ p \in lista_ready /\ FinalizarEstructuras(p)
      /\ lista_ready' = lista_ready \ {p} /\ lista_exit' = lista_exit \cup {p}
      /\ hay_pcb' = TRUE /\ lista_new' = lista_new /\ identificador_PID' = identificador_PID
  BY DEF FinalizarProceso
<1>2. PICK i \in 1..n, a \in 1..n, b \in 1..n, q \in Int :
        /\ ~particiones[i].libre /\ particiones[i].pid = p
        /\ Vecinas(a, i, b)
        /\ q # p => esquema = "DINAMICAS" /\ q = Nulo
        /\ QuedaLibre(a, b, q)
        /\ particiones' \in Seq(Marcos)
        /\ procesos' = [r \in DOMAIN procesos \ {p} |-> procesos[r]]
        /\ UNCHANGED <<esquema, busqueda>>
  BY <1>1, FinalizaForma
<1>3. DOMAIN procesos = lista_ready /\ p \in DOMAIN procesos
  BY <1>1 DEF Inv, AdmisionEnOrden
<1>4. Mosaico' /\ ConBytes' /\ SinVecinasLibres' /\ UnaPorProceso' /\ particiones' # <<>>
  BY <1>2, <1>3, LiberaConserva
<1>5. /\ particiones \in Seq(Marcos) /\ n \in Nat /\ n >= 1
      /\ i \in 1..n /\ a \in 1..n /\ b \in 1..n
  <2>1. particiones \in Seq(Marcos) /\ particiones # <<>>
    BY DEF Inv, TypeOK, TipoMemoria, Marcos
  <2> QED
    BY <2>1
<1>6. EnNew' = EnNew
  BY <1>1 DEF EnNew
<1>7. AdmisionEnOrden' /\ UnaSolaVida'
  <2>1. DOMAIN procesos' = lista_ready'
    BY <1>1, <1>2, <1>3
  <2>2. /\ \A r \in EnNew, s \in lista_ready \cup lista_exit : s < r
        /\ EnNew \cup lista_ready \cup lista_exit = 0..(identificador_PID - 1)
        /\ \A x, y \in 1..Len(lista_new) : x < y => lista_new[x].pid < lista_new[y].pid
    BY DEF Inv, AdmisionEnOrden
  <2>3. lista_ready' \cup lista_exit' = lista_ready \cup lista_exit
    BY <1>1
  <2>4. EnNew' \cup lista_ready' \cup lista_exit' = 0..(identificador_PID' - 1)
    BY <1>1, <1>6, <2>2, <2>3
  <2> QED
    BY <1>1, <1>6, <2>1, <2>2, <2>3, <2>4 DEF AdmisionEnOrden, Inv, UnaSolaVida
<1>8. TypeOK'
  <2>1. \A r \in DOMAIN procesos' : procesos'[r] \in [base : Nat, limite : Nat]
    BY <1>2 DEF Inv, TypeOK, TipoMemoria
  <2>2. TipoMemoria'
    BY <1>2, <2>1 DEF Inv, TypeOK, TipoMemoria, Marcos
  <2> QED
    BY <1>1, <2>2 DEF Inv, TypeOK
<1> DEFINE d == b - a
           m == n - d
<1>9. /\ d \in 0..2 /\ m \in Nat /\ Len(particiones') = m
      /\ \A j \in 1..(a - 1) : particiones'[j] = particiones[j]
      /\ \A j \in (a + 1)..m : particiones'[j] = particiones[j + d]
      /\ particiones'[a].pid = q
  <2>1. a \in {i - 1, i} /\ b \in {i, i + 1}
    BY <1>2 DEF Vecinas
  <2>2. d \in 0..2 /\ m \in Nat
    BY <1>5, <2>1
  <2> QED
    BY <1>2, <2>2 DEF QuedaLibre
<1>10. m = n - d
  OBVIOUS
<1> HIDE DEF n, d, m
<1> DEFINE Vieja(x) == \/ x \in lista_exit \cup {p} \cup {SinPid}
                       \/ esquema = "DINAMICAS" /\ x = Nulo
<1>11. \A j \in 1..n : particiones[j].libre => Vieja(particiones[j].pid)
  BY DEF Inv, PidsViejos, n
<1>12. PidsViejos'
  <2>1. ASSUME NEW j \in 1..m, particiones'[j].libre  PROVE Vieja(particiones'[j].pid)
    <3>1. CASE j = a
      BY <1>2, <1>9, <3>1
    <3> HIDE DEF Vieja
    <3>2. CASE j < a
      <4>1. j \in 1..(a - 1) /\ j \in 1..n
        BY <1>5, <3>2
      <4> QED
        BY <1>9, <1>11, <2>1, <4>1
    <3>3. CASE j > a
      <4>1. j \in (a + 1)..m /\ j + d \in 1..n
        BY <1>5, <1>9, <1>10, <3>3
      <4> QED
        BY <1>9, <1>11, <2>1, <4>1
    <3> QED
      BY <1>5, <1>9, <3>1, <3>2, <3>3
  <2> QED
    BY <1>1, <1>2, <1>9, <2>1 DEF PidsViejos
<1>13. PrimeraDelCero'
  <2>1. SUFFICES ASSUME esquema = "DINAMICAS", 0 \in lista_ready, p # 0
                 PROVE  ~particiones'[1].libre /\ particiones'[1].pid = 0
    BY <1>1, <1>2 DEF PrimeraDelCero
  <2>2. ~particiones[1].libre /\ particiones[1].pid = 0
    BY <2>1 DEF Inv, PrimeraDelCero
  <2>3. a # 1
    <3>1. i # 1
      BY <1>2, <2>1, <2>2
    <3>2. a # i => particiones[a].libre
      BY <1>2 DEF Vecinas
    <3> QED
      BY <2>2, <3>1, <3>2
  <2>4. 1 \in 1..(a - 1)
    BY <1>5, <2>3
  <2> QED
    BY <1>9, <2>2, <2>4
<1> QED
  BY <1>4, <1>7, <1>8, <1>12, <1>13 DEF Inv

LEMMA CreaInv ==
  ASSUME Inv, NEW t \in Tamanios, ProcessCreate(t)
  PROVE  Inv'
<1> DEFINE nuevo == [pid |-> identificador_PID, size |-> t]
           n == Len(lista_new)
           id == identificador_PID
<1>1. /\ id < MaxProcesos /\ lista_new' = Append(lista_new, nuevo)
      /\ identificador_PID' = id + 1 /\ hay_pcb' = TRUE
      /\ UNCHANGED <<memoriaVars, lista_ready, lista_exit>>
  BY DEF ProcessCreate
<1>2. /\ lista_new \in Seq([pid : Pids, size : Tamanios]) /\ n \in Nat
      /\ id \in 1..MaxProcesos /\ MaxProcesos \in Nat
  BY MaxProcesosOK DEF Inv, TypeOK
<1>3. id \in Pids /\ id + 1 \in 1..MaxProcesos
  BY <1>1, <1>2 DEF Pids
<1>4. nuevo \in [pid : Pids, size : Tamanios] /\ nuevo.pid = id
  BY <1>3
<1> HIDE DEF nuevo
<1>5. /\ lista_new' \in Seq([pid : Pids, size : Tamanios]) /\ Len(lista_new') = n + 1
      /\ \A i \in 1..n : lista_new'[i] = lista_new[i]
      /\ lista_new'[n + 1] = nuevo
  <2> DEFINE R == [pid : Pids, size : Tamanios]
  <2>1. lista_new \in Seq(R) /\ nuevo \in R
    BY <1>2, <1>4
  <2> HIDE DEF R
  <2>2. /\ lista_new' \in Seq(R) /\ Len(lista_new') = n + 1
        /\ \A i \in 1..n : lista_new'[i] = lista_new[i]
        /\ lista_new'[n + 1] = nuevo
    BY <1>1, <2>1
  <2> QED
    BY <2>2 DEF R
<1> HIDE DEF n
<1>6. EnNew = {lista_new[i].pid : i \in 1..n}
  BY DEF EnNew, n
<1>7. EnNew' = {lista_new'[i].pid : i \in 1..(n + 1)}
  BY <1>5 DEF EnNew
<1>8. EnNew' = EnNew \cup {id}
  <2>1. ASSUME NEW i \in 1..(n + 1)  PROVE lista_new'[i].pid \in EnNew \cup {id}
    <3>1. CASE i = n + 1
      BY <1>4, <1>5, <3>1
    <3>2. CASE i # n + 1
      <4>1. i \in 1..n
        BY <1>2, <3>2
      <4> QED
        BY <1>5, <1>6, <4>1
    <3> QED
      BY <3>1, <3>2
  <2>2. ASSUME NEW i \in 1..n  PROVE lista_new[i].pid \in EnNew'
    <3>1. i \in 1..(n + 1)
      BY <1>2
    <3> QED
      BY <1>5, <1>7, <3>1
  <2>3. id \in EnNew'
    <3>1. n + 1 \in 1..(n + 1)
      BY <1>2
    <3> QED
      BY <1>4, <1>5, <1>7, <3>1
  <2> QED
    BY <1>6, <1>7, <2>1, <2>2, <2>3
<1>9. AdmisionEnOrden'
  <2>1. /\ DOMAIN procesos = lista_ready
        /\ \A p \in EnNew, q \in lista_ready \cup lista_exit : q < p
        /\ EnNew \cup lista_ready \cup lista_exit = 0..(id - 1)
        /\ \A i, j \in 1..n : i < j => lista_new[i].pid < lista_new[j].pid
    BY DEF Inv, AdmisionEnOrden, n
  <2>2. \A r \in 0..(id - 1) : r < id
    BY <1>2
  <2>3. 0..((id + 1) - 1) = 0..(id - 1) \cup {id}
    BY <1>2
  <2> HIDE DEF id
  <2>4. \A p \in EnNew', q \in lista_ready' \cup lista_exit' : q < p
    BY <1>1, <1>8, <2>1, <2>2
  <2>5. EnNew' \cup lista_ready' \cup lista_exit' = 0..(identificador_PID' - 1)
    BY <1>1, <1>8, <2>1, <2>3
  <2>6. ASSUME NEW i \in 1..(n + 1), NEW j \in 1..(n + 1), i < j
        PROVE  lista_new'[i].pid < lista_new'[j].pid
    <3>1. i \in 1..n
      BY <1>2, <2>6
    <3>2. CASE j \in 1..n
      BY <1>5, <2>1, <2>6, <3>1, <3>2
    <3>3. CASE j = n + 1
      <4>1. lista_new[i].pid \in EnNew
        BY <1>6, <3>1
      <4>2. lista_new[i].pid < id
        BY <2>1, <2>2, <4>1
      <4> QED
        BY <1>4, <1>5, <3>1, <3>3, <4>2
    <3> QED
      BY <1>2, <3>2, <3>3
  <2>7. DOMAIN procesos' = lista_ready'
    BY <1>1, <2>1 DEF memoriaVars
  <2> QED
    BY <1>5, <2>4, <2>5, <2>6, <2>7 DEF AdmisionEnOrden
<1>10. TypeOK'
  BY <1>1, <1>3, <1>5 DEF Inv, TypeOK, TipoMemoria, memoriaVars
<1>11. /\ UnaSolaVida' /\ Mosaico' /\ ConBytes' /\ SinVecinasLibres' /\ UnaPorProceso'
       /\ PidsViejos' /\ PrimeraDelCero' /\ particiones' # <<>>
  BY <1>1 DEF Inv, memoriaVars, UnaSolaVida, Mosaico, ConBytes, SinVecinasLibres,
              UnaPorProceso, PidsViejos, PrimeraDelCero
<1> QED
  BY <1>9, <1>10, <1>11 DEF Inv

\* What plp finds no room for changes nothing.
LEMMA QuietoInv ==
  ASSUME Inv, UNCHANGED <<memoriaVars, lista_new, lista_ready, lista_exit, identificador_PID>>,
         hay_pcb' \in BOOLEAN
  PROVE  Inv'
<1>1. TypeOK'
  BY DEF Inv, TypeOK, TipoMemoria, memoriaVars
<1>2. AdmisionEnOrden' /\ UnaSolaVida'
  BY DEF Inv, AdmisionEnOrden, EnNew, UnaSolaVida, memoriaVars
<1>3. Mosaico' /\ ConBytes' /\ SinVecinasLibres' /\ particiones' # <<>>
  BY DEF Inv, memoriaVars, Mosaico, ConBytes, SinVecinasLibres
<1>4. UnaPorProceso' /\ PidsViejos' /\ PrimeraDelCero'
  BY DEF Inv, memoriaVars, UnaPorProceso, PidsViejos, PrimeraDelCero
<1> QED
  BY <1>1, <1>2, <1>3, <1>4 DEF Inv

LEMMA PasoInv == Inv /\ [Next]_vars => Inv'
<1> SUFFICES ASSUME Inv, [Next]_vars PROVE Inv'
  OBVIOUS
<1>1. CASE \E t \in Tamanios : ProcessCreate(t)
  BY <1>1, CreaInv
<1>2. CASE PlpAdmite
  BY <1>2, AdmiteInv
<1>3. CASE PlpNoAdmite
  <2>1. UNCHANGED memoriaVars
    BY <1>3 DEF PlpNoAdmite, RechazarEstructuras
  <2>2. hay_pcb' \in BOOLEAN
    BY <1>3 DEF PlpNoAdmite
  <2> QED
    BY <1>3, <2>1, <2>2, QuietoInv DEF PlpNoAdmite
<1>4. CASE \E p \in Pids : FinalizarProceso(p)
  BY <1>4, FinalizaInv
<1>5. CASE UNCHANGED vars
  <2>1. hay_pcb' \in BOOLEAN
    BY <1>5 DEF vars, kernelVars, Inv, TypeOK
  <2> QED
    BY <1>5, <2>1, QuietoInv DEF vars, kernelVars
<1> QED
  BY <1>1, <1>2, <1>3, <1>4, <1>5 DEF Next, Plp

LEMMA InvVale == Spec => []Inv
BY InitInv, PasoInv, PTL DEF Spec

LEMMA InitEspera == Init => NadieEsperaConLugar
BY DEF Init, NadieEsperaConLugar

LEMMA PasoEspera == NadieEsperaConLugar /\ [Next]_vars => NadieEsperaConLugar'
<1> SUFFICES ASSUME NadieEsperaConLugar, [Next]_vars PROVE NadieEsperaConLugar'
  OBVIOUS
<1>1. CASE \E t \in Tamanios : ProcessCreate(t)
  BY <1>1 DEF ProcessCreate, NadieEsperaConLugar
<1>2. CASE PlpAdmite
  BY <1>2 DEF PlpAdmite, NadieEsperaConLugar
<1>3. CASE PlpNoAdmite
  BY <1>3 DEF PlpNoAdmite, RechazarEstructuras, NadieEsperaConLugar, Cabe, memoriaVars
<1>4. CASE \E p \in Pids : FinalizarProceso(p)
  BY <1>4 DEF FinalizarProceso, NadieEsperaConLugar
<1>5. CASE UNCHANGED vars
  BY <1>5 DEF vars, kernelVars, memoriaVars, NadieEsperaConLugar, Cabe
<1> QED
  BY <1>1, <1>2, <1>3, <1>4, <1>5 DEF Next, Plp

-----------------------------------------------------------------------------
(* The theorems. *)

\* The variables keep their types.
THEOREM TiposDelLargoPlazo == Spec => []TypeOK
<1>1. Inv => TypeOK
  BY DEF Inv
<1> QED
  BY <1>1, InvVale, PTL

\* Whatever sizes are asked for and in whatever order processes end, under
\* every scheme and search, the partitions tile the memory: splits and
\* groupings lose no byte and count none twice.
THEOREM MosaicoSiempre == Spec => []Mosaico
<1>1. Inv => Mosaico
  BY DEF Inv
<1> QED
  BY <1>1, InvVale, PTL

\* The partition that finalizar_estructuras finds by its pid is always that of
\* the process that ends, in spite of the pids that free partitions keep.
THEOREM UnaParticionPorProceso == Spec => []UnaPorProceso
<1>1. Inv => UnaPorProceso
  BY DEF Inv
<1> QED
  BY <1>1, InvVale, PTL

\* Two free partitions are never next to each other, so the loop of BEST, which
\* has no break, splits one partition only.
THEOREM UnSoloResto == Spec => []RestoUnico
BY RestoUnicoVale, InvVale, PTL

\* DINAMICAS turns a process away only if there is no run of free bytes long
\* enough.
THEOREM RechazosJustos == Spec => []RechazoJusto
BY RechazoJustoVale, InvVale, PTL

\* The folds of list_get_minimum and list_get_maximum end at a partition where
\* the process fits, a smallest or a largest one.
THEOREM EleccionesBuenas == Spec => []BuenaEleccion
BY BuenaEleccionVale, InvVale, PTL

\* plp admits in the order of creation, and memoria and the kernel agree on who
\* is admitted.
THEOREM AdmisionesEnOrden == Spec => []AdmisionEnOrden
<1>1. Inv => AdmisionEnOrden
  BY DEF Inv
<1> QED
  BY <1>1, InvVale, PTL

\* Between handlers the first process of lista_new waits only for room.
THEOREM NadieEspera == Spec => []NadieEsperaConLugar
BY InitEspera, PasoEspera, PTL DEF Spec

-----------------------------------------------------------------------------
(* memoria implements MemoriaDeUsuario.                                    *)

\* The fixed partitions fit the memory, as in every par_fijas configuration,
\* where they fill it: nothing in iniciar_memoria looks.
FijasCaben ==
  "FIJAS" \in Esquemas =>
    BaseFija[Len(PARTICIONES)] + PARTICIONES[Len(PARTICIONES)] <= TAM_MEMORIA

\* The list ends where the memory does, or before.
TerminaEnLaMemoria ==
  particiones[Len(particiones)].base + particiones[Len(particiones)].tamanio <= TAM_MEMORIA

\* FIJAS never moves a partition, DINAMICAS tiles the whole memory.
LEMMA PasoTermina ==
  Inv /\ Inv' /\ TerminaEnLaMemoria /\ [Next]_vars => TerminaEnLaMemoria'
<1> SUFFICES ASSUME Inv, Inv', TerminaEnLaMemoria, [Next]_vars PROVE TerminaEnLaMemoria'
  OBVIOUS
<1> DEFINE n == Len(particiones)
<1>1. /\ particiones \in Seq(Marcos) /\ n \in Nat /\ n >= 1
      /\ esquema \in {"FIJAS", "DINAMICAS"}
  <2>1. particiones \in Seq(Marcos) /\ particiones # <<>> /\ esquema \in {"FIJAS", "DINAMICAS"}
    BY MemoriaOK DEF Inv, TypeOK, TipoMemoria, Marcos
  <2> QED
    BY <2>1
<1>2. esquema' = esquema
  BY DEF Next, Plp, ProcessCreate, PlpAdmite, PlpNoAdmite, FinalizarProceso,
         InicializarEstructuras, RechazarEstructuras, FinalizarEstructuras,
         vars, kernelVars, memoriaVars
<1>3. CASE esquema = "DINAMICAS"
  <2>1. esquema' = "DINAMICAS" /\ Mosaico'
    BY <1>2, <1>3 DEF Inv
  <2>2. particiones'[Len(particiones')].base + particiones'[Len(particiones')].tamanio
          = TAM_MEMORIA
    BY <2>1 DEF Mosaico
  <2> QED
    BY <2>2, MemoriaOK DEF TerminaEnLaMemoria
<1>4. CASE esquema = "FIJAS"
  <2>1. SUFFICES /\ Len(particiones') = n
                 /\ particiones'[n].base = particiones[n].base
                 /\ particiones'[n].tamanio = particiones[n].tamanio
    BY DEF TerminaEnLaMemoria
  <2>2. CASE PlpAdmite
    <3> DEFINE p == Head(lista_new).pid
               t == Head(lista_new).size
    <3>1. lista_new # <<>> /\ InicializarEstructuras(p, t)
      BY <2>2 DEF PlpAdmite
    <3>2. p \in Pids /\ t \in Tamanios
      BY <3>1, PrimeroDeNew
    <3> HIDE DEF p, t
    <3>3. PICK k \in 1..n : QuedaFija(k, p)
      BY <1>4, <3>1, <3>2, AdmiteForma
    <3> HIDE DEF n
    <3>4. CASE k = n
      BY <3>3, <3>4 DEF QuedaFija, Marco, n
    <3>5. CASE k # n
      <4>1. n \in 1..n
        BY <1>1
      <4> QED
        BY <3>3, <3>5, <4>1 DEF QuedaFija, n
    <3> QED
      BY <3>4, <3>5
  <2>3. CASE \E p \in Pids : FinalizarProceso(p)
    <3>1. PICK p \in lista_ready : FinalizarEstructuras(p)
      BY <2>3 DEF FinalizarProceso
    <3>2. PICK a \in 1..n, q \in Int : QuedaLibre(a, a, q)
      <4>1. PICK i \in 1..n, a \in 1..n, b \in 1..n, q \in Int :
              Vecinas(a, i, b) /\ QuedaLibre(a, b, q)
        BY <3>1, FinalizaForma
      <4>2. a = b
        BY <1>4, <4>1 DEF Vecinas
      <4> QED
        BY <4>1, <4>2
    <3>3. a - a = 0 /\ n - 0 = n /\ \A j \in Nat : j + 0 = j
      BY <1>1
    <3>4. /\ Len(particiones') = n
          /\ \A j \in (a + 1)..n : particiones'[j] = particiones[j]
          /\ particiones'[a].base = particiones[a].base
          /\ particiones'[a].tamanio =
               particiones[a].base + particiones[a].tamanio - particiones[a].base
      BY <1>1, <3>2, <3>3 DEF QuedaLibre
    <3>5. particiones[a].base \in Nat /\ particiones[a].tamanio \in Nat
      BY <1>1, TipoMarcos
    <3>6. \A x, y \in Nat : x + y - x = y
      OBVIOUS
    <3>7. particiones'[a].tamanio = particiones[a].tamanio
      BY <3>4, <3>5, <3>6
    <3> HIDE DEF n
    <3>8. CASE a = n
      BY <3>4, <3>7, <3>8
    <3>9. CASE a # n
      <4>1. n \in (a + 1)..n
        BY <1>1, <3>9
      <4> QED
        BY <3>4, <4>1
    <3> QED
      BY <3>8, <3>9
  <2>4. CASE UNCHANGED particiones
    BY <2>4
  <2> QED
    BY <2>2, <2>3, <2>4 DEF Next, Plp, ProcessCreate, PlpNoAdmite, RechazarEstructuras,
                            vars, memoriaVars
<1> QED
  BY <1>1, <1>3, <1>4

LEMMA InitTermina ==
  ASSUME FijasCaben
  PROVE  Init => TerminaEnLaMemoria
<1> SUFFICES ASSUME Init PROVE TerminaEnLaMemoria
  OBVIOUS
<1>1. esquema \in {"FIJAS", "DINAMICAS"} /\ esquema \in Esquemas
  BY MemoriaOK DEF Init, MemoriaInit
<1>2. CASE esquema = "DINAMICAS"
  <2>1. Mosaico
    BY InitInv DEF Inv
  <2> QED
    BY <1>2, <2>1, MemoriaOK DEF Mosaico, TerminaEnLaMemoria
<1>3. CASE esquema = "FIJAS"
  <2> DEFINE n == Len(PARTICIONES)
  <2>1. n \in Nat /\ n >= 1
    BY <1>1, <1>3, MemoriaOK
  <2>2. particiones = [i \in 1..n |-> Marco(BaseFija[i], PARTICIONES[i], TRUE, SinPid)]
    BY <1>3 DEF Init, MemoriaInit
  <2> HIDE DEF n
  <2>3. n \in 1..n
    BY <2>1
  <2>4. Len(particiones) = n
    <3> DEFINE m(i) == Marco(BaseFija[i], PARTICIONES[i], TRUE, SinPid)
    <3>1. particiones = [i \in 1..n |-> m(i)]
      BY <2>2
    <3> HIDE DEF m
    <3> QED
      BY <2>1, <3>1
  <2>5. particiones[n].base = BaseFija[n] /\ particiones[n].tamanio = PARTICIONES[n]
    BY <2>2, <2>3 DEF Marco
  <2> QED
    BY <1>1, <1>3, <2>4, <2>5 DEF FijasCaben, TerminaEnLaMemoria, n
<1> QED
  BY <1>1, <1>2, <1>3

\* x is an address of p.
En(p, x) == procesos[p].base <= x /\ x <= procesos[p].limite

\* Every process has bytes, all of them in the memory, and no byte has two.
Separados ==
  /\ DOMAIN procesos \subseteq Pids
  /\ \A p \in DOMAIN procesos :
       /\ procesos[p].base \in Nat /\ procesos[p].limite \in Nat
       /\ procesos[p].base <= procesos[p].limite /\ procesos[p].limite < TAM_MEMORIA
  /\ \A p, q \in DOMAIN procesos, x \in Nat : En(p, x) /\ En(q, x) => p = q

LEMMA SeparadosVale == Inv /\ TerminaEnLaMemoria => Separados
<1> SUFFICES ASSUME Inv, TerminaEnLaMemoria PROVE Separados
  OBVIOUS
<1> DEFINE n == Len(particiones)
<1>1. /\ particiones \in Seq(Marcos) /\ n \in Nat /\ n >= 1 /\ TAM_MEMORIA \in Nat
  <2>1. particiones \in Seq(Marcos) /\ particiones # <<>> /\ TAM_MEMORIA \in Nat
    BY MemoriaOK DEF Inv, TypeOK, TipoMemoria, Marcos
  <2> QED
    BY <2>1
<1>2. \A i \in 1..n : particiones[i].base \in Nat /\ particiones[i].tamanio \in Nat
  BY <1>1, TipoMarcos
<1>3. \A j \in 1..n : \A i \in 1..(j - 1) :
        particiones[i].base + particiones[i].tamanio <= particiones[j].base
  BY <1>1, BasesCrecen DEF Inv
<1>4. OcupadaTieneProceso /\ ProcesoTieneOcupada /\ OcupadaUnica
  BY UnaPorProcesoPartes DEF Inv
<1>5. ASSUME NEW p \in DOMAIN procesos
      PROVE  \E i \in 1..n :
               /\ particiones[i].pid = p /\ particiones[i].tamanio >= 1
               /\ procesos[p].base = particiones[i].base
               /\ procesos[p].limite = particiones[i].base + particiones[i].tamanio - 1
  <2>1. PICK i \in 1..n : ~particiones[i].libre /\ particiones[i].pid = p
    BY <1>4 DEF ProcesoTieneOcupada
  <2>2. particiones[i].tamanio >= 1
    BY <2>1 DEF Inv, ConBytes
  <2>3. /\ procesos[p].base = particiones[i].base
        /\ procesos[p].limite = particiones[i].base + particiones[i].tamanio - 1
    BY <1>4, <2>1 DEF OcupadaTieneProceso
  <2> QED
    BY <2>1, <2>2, <2>3
<1>6. particiones[n].base + particiones[n].tamanio <= TAM_MEMORIA
  BY DEF TerminaEnLaMemoria
<1> HIDE DEF n
<1>7. ASSUME NEW i \in 1..n
      PROVE  particiones[i].base + particiones[i].tamanio <= TAM_MEMORIA
  <2>1. CASE i = n
    BY <1>6, <2>1
  <2>2. CASE i # n
    <3>1. n \in 1..n /\ i \in 1..(n - 1)
      BY <1>1, <2>2
    <3>2. particiones[i].base + particiones[i].tamanio <= particiones[n].base
      BY <1>3, <3>1
    <3>3. /\ particiones[n].base \in Nat /\ particiones[n].tamanio \in Nat
          /\ particiones[i].base \in Nat /\ particiones[i].tamanio \in Nat
      BY <1>2, <3>1
    <3>4. TAM_MEMORIA \in Nat
      BY <1>1
    <3> QED
      BY <1>6, <3>2, <3>3, <3>4
  <2> QED
    BY <2>1, <2>2
<1>8. ASSUME NEW p \in DOMAIN procesos
      PROVE  /\ procesos[p].base \in Nat /\ procesos[p].limite \in Nat
             /\ procesos[p].base <= procesos[p].limite /\ procesos[p].limite < TAM_MEMORIA
  <2>1. PICK i \in 1..n :
          /\ particiones[i].tamanio >= 1
          /\ procesos[p].base = particiones[i].base
          /\ procesos[p].limite = particiones[i].base + particiones[i].tamanio - 1
    BY <1>5
  <2>2. /\ particiones[i].base \in Nat /\ particiones[i].tamanio \in Nat
        /\ particiones[i].base + particiones[i].tamanio <= TAM_MEMORIA
    BY <1>2, <1>7
  <2> QED
    BY <1>1, <2>1, <2>2
<1>9. ASSUME NEW p \in DOMAIN procesos, NEW q \in DOMAIN procesos, NEW x \in Nat,
             En(p, x), En(q, x)
      PROVE  p = q
  <2>1. PICK i \in 1..n :
          /\ particiones[i].pid = p
          /\ procesos[p].base = particiones[i].base
          /\ procesos[p].limite = particiones[i].base + particiones[i].tamanio - 1
    BY <1>5
  <2>2. PICK j \in 1..n :
          /\ particiones[j].pid = q
          /\ procesos[q].base = particiones[j].base
          /\ procesos[q].limite = particiones[j].base + particiones[j].tamanio - 1
    BY <1>5
  <2>3. /\ particiones[i].base \in Nat /\ particiones[i].tamanio \in Nat
        /\ particiones[j].base \in Nat /\ particiones[j].tamanio \in Nat
    BY <1>2
  <2>4. /\ particiones[i].base <= x /\ x < particiones[i].base + particiones[i].tamanio
        /\ particiones[j].base <= x /\ x < particiones[j].base + particiones[j].tamanio
    BY <1>9, <2>1, <2>2, <2>3 DEF En
  <2>5. ~(i < j)
    <3>1. SUFFICES ASSUME i < j PROVE FALSE
      OBVIOUS
    <3>2. i \in 1..(j - 1)
      BY <1>1, <3>1
    <3>3. particiones[i].base + particiones[i].tamanio <= particiones[j].base
      BY <1>3, <3>2
    <3> QED
      BY <2>3, <2>4, <3>3
  <2>6. ~(j < i)
    <3>1. SUFFICES ASSUME j < i PROVE FALSE
      OBVIOUS
    <3>2. j \in 1..(i - 1)
      BY <1>1, <3>1
    <3>3. particiones[j].base + particiones[j].tamanio <= particiones[i].base
      BY <1>3, <3>2
    <3> QED
      BY <2>3, <2>4, <3>3
  <2>7. i = j
    BY <1>1, <2>5, <2>6
  <2> QED
    BY <2>1, <2>2, <2>7
<1>10. DOMAIN procesos \subseteq Pids
  BY DEF Inv, TypeOK, AdmisionEnOrden
<1> QED
  BY <1>8, <1>9, <1>10 DEF Separados

\* The mapping of duenio, by name.
Duenio ==
  [x \in 0..(TAM_MEMORIA - 1) |->
     IF \E p \in DOMAIN procesos : procesos[p].base <= x /\ x <= procesos[p].limite
     THEN CHOOSE p \in DOMAIN procesos :
            procesos[p].base <= x /\ x <= procesos[p].limite
     ELSE SinPid]

\* Whose a byte is.
DuenioPorTramo ==
  /\ \A x \in 0..(TAM_MEMORIA - 1) : \A p \in DOMAIN procesos : En(p, x) => Duenio[x] = p
  /\ \A x \in 0..(TAM_MEMORIA - 1) :
       (\A p \in DOMAIN procesos : ~En(p, x)) => Duenio[x] = SinPid

LEMMA DuenioEs == Separados => DuenioPorTramo
<1> USE DEF DuenioPorTramo
<1> SUFFICES ASSUME Separados, NEW x \in 0..(TAM_MEMORIA - 1)
             PROVE  /\ \A p \in DOMAIN procesos : En(p, x) => Duenio[x] = p
                    /\ (\A p \in DOMAIN procesos : ~En(p, x)) => Duenio[x] = SinPid
  OBVIOUS
<1>1. x \in Nat
  BY MemoriaOK
<1>2. Duenio[x] = IF \E p \in DOMAIN procesos : En(p, x)
                  THEN CHOOSE p \in DOMAIN procesos : En(p, x)
                  ELSE SinPid
  BY DEF Duenio, En
<1>3. ASSUME NEW p \in DOMAIN procesos, En(p, x)  PROVE Duenio[x] = p
  <2>1. PICK q \in DOMAIN procesos : q = Duenio[x] /\ En(q, x)
    BY <1>2, <1>3
  <2> QED
    BY <1>1, <1>3, <2>1 DEF Separados
<1> QED
  BY <1>2, <1>3

LEMMA DuenioEsDespues ==
  Separados' =>
    /\ \A x \in 0..(TAM_MEMORIA - 1) : \A p \in DOMAIN procesos' : En(p, x)' => Duenio'[x] = p
    /\ \A x \in 0..(TAM_MEMORIA - 1) :
         (\A p \in DOMAIN procesos' : ~En(p, x)') => Duenio'[x] = SinPid
<1>1. Separados' => DuenioPorTramo'
  BY DuenioEs, PTL
<1> QED
  BY <1>1 DEF DuenioPorTramo

LEMMA InitRefina == Init => Abstracta!Init
<1> SUFFICES ASSUME Init PROVE Abstracta!Init
  OBVIOUS
<1>1. procesos = <<>> /\ DOMAIN procesos = {}
  BY DEF Init, MemoriaInit
<1>2. Duenio = [x \in 0..(TAM_MEMORIA - 1) |-> SinPid]
  BY <1>1 DEF Duenio
<1> QED
  BY <1>2 DEF Abstracta!Init, Duenio

\* The admission of p, which asked for t bytes, is an Ocupar.
LEMMA AdmiteOcupa ==
  ASSUME Inv, Inv', Separados, Separados',
         NEW p \in Pids, NEW t \in Tamanios,
         p \notin lista_ready, InicializarEstructuras(p, t)
  PROVE  Abstracta!Ocupar(p, t)
<1> DEFINE M == 0..(TAM_MEMORIA - 1)
<1>3. /\ p \notin DOMAIN procesos /\ p # SinPid /\ p \in Int /\ t \in Nat /\ t >= 1
      /\ TAM_MEMORIA \in Nat
  BY MemoriaOK, MaxProcesosOK DEF Inv, AdmisionEnOrden, Pids, SinPid
<1>4. PICK k \in 1..Len(particiones) :
        /\ Sirve(k, t)
        /\ \/ esquema = "FIJAS" /\ QuedaFija(k, p)
           \/ esquema = "DINAMICAS" /\ QuedaPartida(k, p, t)
        /\ EntraEnLaLista(k, p)
  BY AdmiteForma
<1> DEFINE a == procesos'[p].base
           b == procesos'[p].limite
<1>5. /\ DOMAIN procesos' = DOMAIN procesos \cup {p}
      /\ \A q \in DOMAIN procesos : procesos'[q] = procesos[q]
      /\ a = particiones'[k].base
      /\ b = particiones'[k].base + particiones'[k].tamanio - 1
  BY <1>3, <1>4 DEF EntraEnLaLista
<1>6. a \in Nat /\ b \in Nat /\ a <= b /\ b < TAM_MEMORIA /\ a \in M /\ b \in M
  <2>1. a \in Nat /\ b \in Nat /\ a <= b /\ b < TAM_MEMORIA
    BY <1>5 DEF Separados
  <2> HIDE DEF a, b
  <2> QED
    BY <1>3, <2>1
<1>7. b - a >= t - 1
  <2>1. particiones'[k].tamanio >= t
    <3>1. particiones[k].tamanio >= t
      BY <1>4 DEF Sirve
    <3> QED
      BY <1>3, <1>4, <3>1 DEF QuedaFija, QuedaPartida, Marco
  <2>2. particiones'[k].tamanio \in Nat
    <3>1. particiones' \in Seq(Marcos)
      BY DEF Inv, TypeOK, TipoMemoria, Marcos
    <3>2. k \in 1..Len(particiones')
      <4>1. particiones \in Seq(Marcos)
        BY DEF Inv, TypeOK, TipoMemoria, Marcos
      <4>2. Len(particiones') \in {Len(particiones), Len(particiones) + 1}
        BY <1>4 DEF QuedaFija, QuedaPartida
      <4> QED
        BY <4>1, <4>2
    <3>3. particiones'[k] \in Marcos
      BY <3>1, <3>2
    <3> QED
      BY <3>3 DEF Marcos
  <2>3. a \in Nat /\ b = a + particiones'[k].tamanio - 1 /\ t \in Nat
    BY <1>3, <1>5, <1>6
  <2> HIDE DEF a, b
  <2> QED
    BY <2>1, <2>2, <2>3
<1>8. \A x \in M : En(p, x)' <=> x \in a..b
  <2>1. \A x \in M : x \in Int
    OBVIOUS
  <2>2. \A x : En(p, x)' <=> a <= x /\ x <= b
    BY DEF En
  <2> HIDE DEF a, b, M
  <2> QED
    BY <1>6, <2>1, <2>2
<1>9. \A x \in M : \A q \in DOMAIN procesos : En(q, x)' <=> En(q, x)
  BY <1>5 DEF En
<1>10. \A x \in M : x \in Nat
  BY <1>3
<1> HIDE DEF a, b, M
<1>11. ASSUME NEW x \in M
       PROVE  /\ x \in a..b => Duenio[x] = SinPid /\ Duenio'[x] = p
              /\ x \notin a..b => Duenio'[x] = Duenio[x]
              /\ Duenio[x] # p
  <2>1. CASE x \in a..b
    <3>1. En(p, x)'
      BY <1>8, <2>1
    <3>2. Duenio'[x] = p
      BY <1>5, <3>1, DuenioEsDespues DEF M
    <3>3. \A q \in DOMAIN procesos : ~En(q, x)
      <4>1. SUFFICES ASSUME NEW q \in DOMAIN procesos, En(q, x) PROVE FALSE
        OBVIOUS
      <4>2. En(q, x)'
        BY <1>9, <4>1
      <4>3. q = p
        BY <1>5, <1>10, <3>1, <4>2 DEF Separados
      <4> QED
        BY <1>3, <4>3
    <3>4. Duenio[x] = SinPid
      BY <3>3, DuenioEs DEF M, DuenioPorTramo
    <3> QED
      BY <1>3, <2>1, <3>2, <3>4
  <2>2. CASE x \notin a..b
    <3>1. ~En(p, x)'
      BY <1>8, <2>2
    <3>2. CASE \E q \in DOMAIN procesos : En(q, x)
      <4>1. PICK q \in DOMAIN procesos : En(q, x)
        BY <3>2
      <4>2. En(q, x)' /\ q \in DOMAIN procesos'
        BY <1>5, <1>9, <4>1
      <4>3. Duenio[x] = q
        BY <4>1, DuenioEs DEF M, DuenioPorTramo
      <4>4. Duenio'[x] = q
        BY <4>2, DuenioEsDespues DEF M
      <4> QED
        BY <1>3, <2>2, <4>3, <4>4
    <3>3. CASE \A q \in DOMAIN procesos : ~En(q, x)
      <4>1. \A q \in DOMAIN procesos' : ~En(q, x)'
        BY <1>5, <1>9, <3>1, <3>3
      <4>2. Duenio[x] = SinPid
        BY <3>3, DuenioEs DEF M, DuenioPorTramo
      <4>3. Duenio'[x] = SinPid
        BY <4>1, DuenioEsDespues DEF M
      <4> QED
        BY <1>3, <2>2, <4>2, <4>3
    <3> QED
      BY <3>2, <3>3
  <2> QED
    BY <2>1, <2>2
<1>12. Duenio' = [x \in M |-> IF x \in a..b THEN p ELSE Duenio[x]]
  <2>1. Duenio' = [x \in M |-> Duenio'[x]]
    BY DEF Duenio, M
  <2> QED
    BY <1>11, <2>1
<1>13. {x \in M : Duenio[x] = p} = {}
  BY <1>11
<1>14. \A x \in a..b : Duenio[x] = SinPid
  <2>1. a..b \subseteq M
    BY <1>3, <1>6 DEF M
  <2> QED
    BY <1>11, <2>1
<1> QED
  BY <1>6, <1>7, <1>12, <1>13, <1>14 DEF Abstracta!Ocupar, Abstracta!De, Duenio, M

LEMMA AdmiteRefina ==
  ASSUME Inv, Inv', Separados, Separados', PlpAdmite
  PROVE  \E p \in Pids, t \in Tamanios : Abstracta!Ocupar(p, t)
<1>1. /\ lista_new # <<>>
      /\ InicializarEstructuras(Head(lista_new).pid, Head(lista_new).size)
  BY DEF PlpAdmite
<1>2. PICK p \in Pids, t \in Tamanios :
        p = Head(lista_new).pid /\ t = Head(lista_new).size /\ p \notin lista_ready
  BY <1>1, PrimeroDeNew
<1>3. Abstracta!Ocupar(p, t)
  BY <1>1, <1>2, AdmiteOcupa
<1> QED
  BY <1>3

\* The end of a process is a Liberar.
LEMMA FinalizaRefina ==
  ASSUME Inv, Separados, Separados', NEW p \in Pids, FinalizarProceso(p)
  PROVE  Abstracta!Liberar(p)
<1> DEFINE M == 0..(TAM_MEMORIA - 1)
<1>1. /\ p \in DOMAIN procesos /\ p # SinPid
      /\ procesos' = [q \in DOMAIN procesos \ {p} |-> procesos[q]]
  BY MaxProcesosOK DEF FinalizarProceso, FinalizarEstructuras, Pids, SinPid
<1>2. /\ DOMAIN procesos' = DOMAIN procesos \ {p}
      /\ \A q \in DOMAIN procesos' : procesos'[q] = procesos[q]
  BY <1>1
<1>3. \A x \in M : \A q \in DOMAIN procesos' : En(q, x)' <=> En(q, x)
  BY <1>2 DEF En
<1>4. \A x \in M : x \in Nat
  BY MemoriaOK
<1>5. procesos[p].base \in M /\ En(p, procesos[p].base)
  BY <1>1, MemoriaOK DEF Separados, En
<1> HIDE DEF M
<1>6. ASSUME NEW x \in M
      PROVE  Duenio'[x] = IF Duenio[x] = p THEN SinPid ELSE Duenio[x]
  <2>1. CASE En(p, x)
    <3>1. Duenio[x] = p
      BY <1>1, <2>1, DuenioEs DEF M, DuenioPorTramo
    <3>2. \A q \in DOMAIN procesos' : ~En(q, x)'
      <4>1. SUFFICES ASSUME NEW q \in DOMAIN procesos', En(q, x)' PROVE FALSE
        OBVIOUS
      <4>2. En(q, x) /\ q \in DOMAIN procesos /\ q # p
        BY <1>2, <1>3, <4>1
      <4> QED
        BY <1>1, <1>4, <2>1, <4>2 DEF Separados
    <3>3. Duenio'[x] = SinPid
      BY <3>2, DuenioEsDespues DEF M
    <3> QED
      BY <3>1, <3>3
  <2>2. CASE ~En(p, x)
    <3>1. CASE \E q \in DOMAIN procesos : En(q, x)
      <4>1. PICK q \in DOMAIN procesos : En(q, x)
        BY <3>1
      <4>2. q # p /\ q \in DOMAIN procesos' /\ En(q, x)'
        BY <1>2, <1>3, <2>2, <4>1
      <4>3. Duenio[x] = q
        BY <4>1, DuenioEs DEF M, DuenioPorTramo
      <4>4. Duenio'[x] = q
        BY <4>2, DuenioEsDespues DEF M
      <4> QED
        BY <4>2, <4>3, <4>4
    <3>2. CASE \A q \in DOMAIN procesos : ~En(q, x)
      <4>1. \A q \in DOMAIN procesos' : ~En(q, x)'
        BY <1>2, <1>3, <3>2
      <4>2. Duenio[x] = SinPid
        BY <3>2, DuenioEs DEF M, DuenioPorTramo
      <4>3. Duenio'[x] = SinPid
        BY <4>1, DuenioEsDespues DEF M
      <4> QED
        BY <1>1, <4>2, <4>3
    <3> QED
      BY <3>1, <3>2
  <2> QED
    BY <2>1, <2>2
<1>7. Duenio' = [x \in M |-> IF Duenio[x] = p THEN SinPid ELSE Duenio[x]]
  <2>1. Duenio' = [x \in M |-> Duenio'[x]]
    BY DEF Duenio, M
  <2> QED
    BY <1>6, <2>1
<1>8. {x \in M : Duenio[x] = p} # {}
  <2>1. Duenio[procesos[p].base] = p
    BY <1>1, <1>5, DuenioEs DEF M, DuenioPorTramo
  <2> QED
    BY <1>5, <2>1
<1> QED
  BY <1>7, <1>8 DEF Abstracta!Liberar, Abstracta!De, Duenio, M

LEMMA PasoRefina ==
  Inv /\ Inv' /\ Separados /\ Separados' /\ [Next]_vars => [Abstracta!Next]_Duenio
<1> SUFFICES ASSUME Inv, Inv', Separados, Separados', [Next]_vars
             PROVE  Abstracta!Next \/ Duenio' = Duenio
  OBVIOUS
<1>1. CASE PlpAdmite
  BY <1>1, AdmiteRefina DEF Abstracta!Next
<1>2. CASE \E p \in Pids : FinalizarProceso(p)
  BY <1>2, FinalizaRefina DEF Abstracta!Next
<1>3. CASE UNCHANGED procesos
  BY <1>3 DEF Duenio
<1> QED
  BY <1>1, <1>2, <1>3 DEF Next, Plp, ProcessCreate, PlpNoAdmite, RechazarEstructuras,
                          vars, memoriaVars

\* Whatever the scheme and the search, what the kernel sees of memoria is
\* MemoriaDeUsuario: an admission gives free bytes, enough of them, to a process
\* that had none, and its end frees those and no others.
THEOREM MemoriaCumple ==
  ASSUME FijasCaben
  PROVE  Spec => CumpleLoPrometido
<1>1. Init => TerminaEnLaMemoria
  BY InitTermina
<1>2. Spec => [](Inv /\ TerminaEnLaMemoria)
  BY <1>1, InitInv, PasoInv, PasoTermina, PTL DEF Spec
<1>3. Spec => [](Inv /\ Separados)
  BY <1>2, SeparadosVale, PTL
<1>4. Spec => Abstracta!Init /\ [][Abstracta!Next]_Duenio
  BY <1>3, InitRefina, PasoRefina, PTL DEF Spec
<1> QED
  BY <1>4, PTL DEF CumpleLoPrometido, Abstracta!Spec, Duenio
=============================================================================
