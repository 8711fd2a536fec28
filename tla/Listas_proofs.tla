---------------------------- MODULE Listas_proofs ----------------------------
(* What the list operations return, for lists of any length. *)
EXTENDS Listas, WellFoundedInduction, FunctionTheorems, FiniteSetTheorems, TLAPS

\* Removing by position gives a list over the same elements, one shorter.
LEMMA SinIndiceTipo ==
  ASSUME NEW S, NEW l \in Seq(S), NEW k \in 1..Len(l)
  PROVE  /\ SinIndice(l, k) \in Seq(S)
         /\ Len(SinIndice(l, k)) = Len(l) - 1
<1>1. Len(l) - 1 \in Nat
  OBVIOUS
<1>2. \A i \in 1..(Len(l) - 1) : (IF i < k THEN l[i] ELSE l[i + 1]) \in S
  OBVIOUS
<1> QED
  BY <1>1, <1>2 DEF SinIndice

\* The search of list_remove_element stops at an element equal to h, the
\* first one: what CHOOSE in PosicionDe picks exists.
LEMMA PosicionDeTipo ==
  ASSUME NEW S, NEW l \in Seq(S), NEW h, EnLista(l, h)
  PROVE  /\ PosicionDe(l, h) \in 1..Len(l)
         /\ l[PosicionDe(l, h)] = h
         /\ \A j \in 1..(PosicionDe(l, h) - 1) : l[j] # h
<1> DEFINE T == {i \in 1..Len(l) : l[i] = h}
<1>1. T # {} /\ T \subseteq Nat
  BY DEF EnLista
<1>2. PICK i \in T : \A j \in T : <<j, i>> \notin OpToRel(<, Nat)
  <2> HIDE DEF T
  <2> QED
    BY <1>1, WFMin, NatLessThanWellFounded
<1>3. \A j \in T : ~(j < i)
  BY <1>1, <1>2 DEF OpToRel
<1>4. i \in 1..Len(l) /\ l[i] = h
  BY <1>2
<1>5. ASSUME NEW j \in 1..(i - 1), l[j] = h  PROVE FALSE
  <2>1. j \in 1..Len(l) /\ j < i
    BY <1>4
  <2> QED
    BY <2>1, <1>3, <1>5
<1> QED
  BY <1>4, <1>5 DEF PosicionDe

\* list_remove_element gives a list over the same elements, no longer than l.
LEMMA QuitarTipo ==
  ASSUME NEW S, NEW l \in Seq(S), NEW h
  PROVE  /\ Quitar(l, h) \in Seq(S)
         /\ Len(Quitar(l, h)) <= Len(l)
<1>1. CASE ~EnLista(l, h)
  BY <1>1 DEF Quitar
<1>2. CASE EnLista(l, h)
  <2>1. PosicionDe(l, h) \in 1..Len(l)
    BY <1>2, PosicionDeTipo
  <2> QED
    BY <1>2, <2>1, SinIndiceTipo DEF Quitar
<1> QED
  BY <1>1, <1>2

-----------------------------------------------------------------------------
(* Induction over the natural numbers, one least counterexample at a time. *)

\* A set of naturals that is not empty has a least element.
LEMMA MenorElemento ==
  ASSUME NEW S \in SUBSET Nat, S # {}
  PROVE  \E n \in S : \A m \in S : n <= m
<1> DEFINE R == OpToRel(<, Nat)
<1>1. PICK n \in S : \A m \in S : ~(<<m, n>> \in R)
  BY NatLessThanWellFounded, WFMin
<1>2. \A m \in Nat, k \in Nat : m < k => <<m, k>> \in R
  BY DEF OpToRel
<1>3. \A m \in S : ~(m < n)
  BY <1>1, <1>2, Zenon
<1> HIDE DEF R
<1>4. \A m \in S : n <= m
  BY <1>3
<1> QED
  BY <1>4

\* What holds of the first position and passes from each one to the next holds
\* of them all: T is the set of the positions it holds of.
LEMMA Induccion ==
  ASSUME NEW n \in Nat, NEW T,
         n > 0 => 1 \in T,
         \A i \in 2..n : i - 1 \in T => i \in T
  PROVE  \A i \in 1..n : i \in T
<1> DEFINE Malos == {k \in 1..n : k \notin T}
<1>1. SUFFICES ASSUME Malos # {} PROVE FALSE
  OBVIOUS
<1>2. Malos \in SUBSET Nat
  OBVIOUS
<1>3. PICK k \in Malos : \A m \in Malos : k <= m
  <2> HIDE DEF Malos
  <2> QED
    BY <1>1, <1>2, MenorElemento
<1>4. k \in 1..n /\ k \notin T
  OBVIOUS
<1>5. k \in 2..n /\ k - 1 \in 1..n
  BY <1>4
<1>6. k - 1 \in T
  <2>1. k - 1 \notin Malos
    <3> HIDE DEF Malos
    <3> QED
      BY <1>3, <1>5
  <2> QED
    BY <1>5, <2>1
<1> QED
  BY <1>4, <1>5, <1>6

\* list_fold and the loops that add up a list from its head: a function that
\* gives, for each position, what the list gives up to it.
EsPlegado(f, n, S, a, Op) ==
  /\ f \in [1..n -> S]
  /\ \A i \in 1..n : f[i] = IF i = 1 THEN a ELSE Op[i][f[i - 1]]

SePliega(n, S, a, Op) == \E f : EsPlegado(f, n, S, a, Op)

\* There is such a function, whatever the length of the list.
LEMMA Plegado ==
  ASSUME NEW n \in Nat, NEW S, NEW a \in S, NEW Op \in [1..n -> [S -> S]]
  PROVE  SePliega(n, S, a, Op)
<1> DEFINE Sirve(f, k) ==
             \A i \in 1..k : f[i] = IF i = 1 THEN a ELSE Op[i][f[i - 1]]
           Hay(k) == \E f \in [1..k -> S] : Sirve(f, k)
           Malos == {k \in 0..n : ~Hay(k)}
<1>1. Malos = {}
  <2>1. SUFFICES ASSUME Malos # {} PROVE FALSE
    OBVIOUS
  <2>2. Malos \in SUBSET Nat
    OBVIOUS
  <2>3. PICK k \in Malos : \A m \in Malos : k <= m
    <3> HIDE DEF Malos
    <3> QED
      BY <2>1, <2>2, MenorElemento
  <2>4. k \in 0..n /\ ~Hay(k)
    OBVIOUS
  <2>5. k # 0
    <3>1. [i \in 1..0 |-> a] \in [1..0 -> S]
      OBVIOUS
    <3>2. Sirve([i \in 1..0 |-> a], 0)
      OBVIOUS
    <3> QED
      BY <3>1, <3>2, <2>4
  <2>6. Hay(k - 1)
    <3> HIDE DEF Hay
    <3> QED
      BY <2>3, <2>4, <2>5
  <2>7. PICK f \in [1..(k - 1) -> S] : Sirve(f, k - 1)
    BY <2>6
  <2> DEFINE v == IF k = 1 THEN a ELSE Op[k][f[k - 1]]
             g == [i \in 1..k |-> IF i = k THEN v ELSE f[i]]
  <2>8. v \in S
    <3>1. CASE k = 1
      BY <3>1
    <3>2. CASE k # 1
      <4>1. k \in 1..n /\ k - 1 \in 1..(k - 1)
        BY <2>4, <2>5, <3>2
      <4>2. f[k - 1] \in S /\ Op[k] \in [S -> S]
        BY <4>1
      <4> QED
        BY <4>2, <3>2
    <3> QED
      BY <3>1, <3>2
  <2>9. g \in [1..k -> S]
    <3> HIDE DEF v
    <3> QED
      BY <2>8, <2>4
  <2>10. Sirve(g, k)
    <3>1. ASSUME NEW i \in 1..k
          PROVE  g[i] = IF i = 1 THEN a ELSE Op[i][g[i - 1]]
      <4>1. CASE i = k
        <5>1. CASE i = 1
          BY <4>1, <5>1
        <5>2. CASE i # 1
          <6>1. i - 1 \in 1..k /\ i - 1 # k
            BY <2>4, <4>1, <5>2
          <6>2. g[i - 1] = f[k - 1] /\ g[i] = v
            BY <6>1, <4>1
          <6> QED
            BY <6>2, <4>1, <5>2
        <5> QED
          BY <5>1, <5>2
      <4>2. CASE i # k
        <5>1. i \in 1..(k - 1)
          BY <2>4, <4>2
        <5>2. f[i] = IF i = 1 THEN a ELSE Op[i][f[i - 1]]
          BY <5>1, <2>7
        <5>3. g[i] = f[i]
          BY <4>2
        <5>4. CASE i = 1
          BY <5>2, <5>3, <5>4
        <5>5. CASE i # 1
          <6>1. i - 1 \in 1..k /\ i - 1 # k
            BY <2>4, <5>1, <5>5
          <6>2. g[i - 1] = f[i - 1]
            BY <6>1
          <6> QED
            BY <5>2, <5>3, <6>2, <5>5
        <5> QED
          BY <5>4, <5>5
      <4> QED
        BY <4>1, <4>2
    <3> QED
      BY <3>1
  <2> QED
    BY <2>4, <2>9, <2>10, Zenon
<1>2. Hay(n)
  <2> HIDE DEF Hay
  <2> QED
    BY <1>1
<1>3. PICK f \in [1..n -> S] : Sirve(f, n)
  BY <1>2
<1>4. EsPlegado(f, n, S, a, Op)
  BY <1>3 DEF EsPlegado
<1> QED
  BY <1>4 DEF SePliega

\* list_add_in_index moves one place on what was at the position and after it.
LEMMA InsertarForma ==
  ASSUME NEW S, NEW l \in Seq(S), NEW k \in 1..Len(l), NEW x \in S
  PROVE  /\ Insertar(l, k, x) \in Seq(S)
         /\ Len(Insertar(l, k, x)) = Len(l) + 1
         /\ \A i \in 1..(k - 1) : Insertar(l, k, x)[i] = l[i]
         /\ Insertar(l, k, x)[k] = x
         /\ \A i \in (k + 1)..(Len(l) + 1) : Insertar(l, k, x)[i] = l[i - 1]
<1>1. Len(l) + 1 \in Nat
  OBVIOUS
<1>2. \A i \in 1..(Len(l) + 1) : (IF i < k THEN l[i] ELSE IF i = k THEN x ELSE l[i - 1]) \in S
  OBVIOUS
<1> QED
  BY <1>1, <1>2 DEF Insertar

\* r is l with x in the place of the elements from a to b.
EsReemplazo(r, l, a, b, x) ==
  /\ Len(r) = Len(l) - (b - a)
  /\ \A i \in 1..(a - 1) : r[i] = l[i]
  /\ r[a] = x
  /\ \A i \in (a + 1)..(Len(l) - (b - a)) : r[i] = l[i + (b - a)]

LEMMA ReemplazarForma ==
  ASSUME NEW S, NEW l \in Seq(S), NEW a \in 1..Len(l), NEW b \in 1..Len(l), a <= b, NEW x \in S
  PROVE  /\ Reemplazar(l, a, b, x) \in Seq(S)
         /\ EsReemplazo(Reemplazar(l, a, b, x), l, a, b, x)
<1>1. Len(l) - (b - a) \in Nat
  OBVIOUS
<1>2. \A i \in 1..(Len(l) - (b - a)) :
        (IF i < a THEN l[i] ELSE IF i = a THEN x ELSE l[i + (b - a)]) \in S
  OBVIOUS
<1> QED
  BY <1>1, <1>2 DEF Reemplazar, EsReemplazo

\* No element of the list is in X; at most one is.
Ninguno(l, X) == \A i \in 1..Len(l) : l[i] \notin X
AloSumoUno(l, X) == \A i, j \in 1..Len(l) : l[i] \in X /\ l[j] \in X => i = j

\* How they change when an element is appended or the first one taken.
LEMMA AgregarAjeno ==
  ASSUME NEW S, NEW X, NEW l \in Seq(S), NEW x \in S, x \notin X
  PROVE  /\ AloSumoUno(l, X) => AloSumoUno(Append(l, x), X)
         /\ Ninguno(Append(l, x), X) <=> Ninguno(l, X)
<1>1. /\ Len(Append(l, x)) = Len(l) + 1
      /\ \A i \in 1..Len(l) : Append(l, x)[i] = l[i]
      /\ Append(l, x)[Len(l) + 1] = x
  OBVIOUS
<1>2. \A i \in 1..(Len(l) + 1) : i \in 1..Len(l) \/ i = Len(l) + 1
  OBVIOUS
<1>3. 1..Len(l) \subseteq 1..(Len(l) + 1)
  OBVIOUS
<1> DEFINE m == Append(l, x)
           n == Len(l)
           N == Len(l) + 1
<1>4. /\ Len(m) = N /\ \A i \in 1..n : m[i] = l[i]
      /\ m[N] = x /\ \A i \in 1..N : i \in 1..n \/ i = N
      /\ 1..n \subseteq 1..N
  BY <1>1, <1>2, <1>3
<1> HIDE DEF m, N
<1> QED
  BY <1>4 DEF Ninguno, AloSumoUno, m

LEMMA AgregarPrimero ==
  ASSUME NEW S, NEW X, NEW l \in Seq(S), NEW x \in S, Ninguno(l, X)
  PROVE  AloSumoUno(Append(l, x), X)
<1>1. /\ Len(Append(l, x)) = Len(l) + 1
      /\ \A i \in 1..Len(l) : Append(l, x)[i] = l[i]
  OBVIOUS
<1>2. \A i \in 1..(Len(l) + 1) : i \in 1..Len(l) \/ i = Len(l) + 1
  OBVIOUS
<1> QED
  BY <1>1, <1>2 DEF Ninguno, AloSumoUno

LEMMA SacarPrimero ==
  ASSUME NEW S, NEW X, NEW l \in Seq(S), l # <<>>
  PROVE  /\ Tail(l) \in Seq(S) /\ Head(l) \in S
         /\ AloSumoUno(l, X) => AloSumoUno(Tail(l), X)
         /\ Ninguno(l, X) => Ninguno(Tail(l), X) /\ Head(l) \notin X
         /\ Head(l) \notin X => (Ninguno(Tail(l), X) <=> Ninguno(l, X))
         /\ AloSumoUno(l, X) /\ Head(l) \in X => Ninguno(Tail(l), X)
<1>1. /\ Len(l) \in Nat /\ Len(l) >= 1 /\ Len(Tail(l)) = Len(l) - 1
      /\ Head(l) = l[1] /\ Tail(l) \in Seq(S) /\ Head(l) \in S
      /\ \A i \in 1..(Len(l) - 1) : Tail(l)[i] = l[i + 1]
  OBVIOUS
<1> DEFINE m == Tail(l)
           n == Len(l)
<1>2. /\ n \in Nat /\ n >= 1 /\ Len(m) = n - 1
      /\ \A i \in 1..(n - 1) : m[i] = l[i + 1]
  BY <1>1
<1> HIDE DEF m, n
<1>3. /\ \A i \in 1..(n - 1) : i + 1 \in 1..n /\ i + 1 # 1 /\ i \in Nat
      /\ \A i \in 1..n : i = 1 \/ (i - 1 \in 1..(n - 1) /\ (i - 1) + 1 = i)
      /\ 1 \in 1..n
  BY <1>2
<1>4. \A i, j \in Nat : i + 1 = j + 1 => i = j
  OBVIOUS
<1>5. AloSumoUno(l, X) => AloSumoUno(m, X)
  BY <1>2, <1>3, <1>4 DEF AloSumoUno, n
<1>6. Ninguno(l, X) => Ninguno(m, X) /\ l[1] \notin X
  BY <1>2, <1>3 DEF Ninguno, n
<1>7. l[1] \notin X => (Ninguno(m, X) <=> Ninguno(l, X))
  <2>1. ASSUME l[1] \notin X, Ninguno(m, X), NEW i \in 1..n  PROVE l[i] \notin X
    <3>1. CASE i = 1
      BY <2>1, <3>1
    <3>2. CASE i # 1
      <4>1. i - 1 \in 1..(n - 1) /\ m[i - 1] = l[i]
        BY <1>2, <1>3, <3>2
      <4> QED
        BY <1>2, <2>1, <4>1 DEF Ninguno
    <3> QED
      BY <3>1, <3>2
  <2> QED
    BY <1>6, <2>1 DEF Ninguno, n
<1>8. AloSumoUno(l, X) /\ l[1] \in X => Ninguno(m, X)
  BY <1>2, <1>3 DEF Ninguno, AloSumoUno, n
<1> QED
  BY <1>1, <1>5, <1>6, <1>7, <1>8 DEF m

\* The list has no element twice.
SinRepetir(l) == \A i, j \in 1..Len(l) : l[i] = l[j] => i = j

\* What is in the list after each operation, when no element is in it twice.
LEMMA EnListaAgregar ==
  ASSUME NEW S, NEW l \in Seq(S), NEW x \in S
  PROVE  /\ Append(l, x) \in Seq(S)
         /\ \A h : EnLista(Append(l, x), h) <=> EnLista(l, h) \/ h = x
         /\ SinRepetir(l) /\ ~EnLista(l, x) => SinRepetir(Append(l, x))
<1> DEFINE m == Append(l, x)
           n == Len(l)
           N == Len(l) + 1
<1>1. /\ Len(m) = N /\ \A i \in 1..n : m[i] = l[i] /\ i # N
      /\ m[N] = x /\ \A i \in 1..N : i \in 1..n \/ i = N
      /\ 1..n \subseteq 1..N /\ N \in 1..N
  OBVIOUS
<1>2. m \in Seq(S)
  OBVIOUS
<1> HIDE DEF m, N
<1>3. \A h : EnLista(m, h) <=> EnLista(l, h) \/ h = x
  BY <1>1 DEF EnLista
<1>4. SinRepetir(l) /\ ~EnLista(l, x) => SinRepetir(m)
  BY <1>1 DEF EnLista, SinRepetir
<1> QED
  BY <1>2, <1>3, <1>4 DEF m

LEMMA EnListaSacarPrimero ==
  ASSUME NEW S, NEW l \in Seq(S), l # <<>>
  PROVE  /\ Tail(l) \in Seq(S) /\ Head(l) \in S
         /\ \A h : EnLista(l, h) <=> h = Head(l) \/ EnLista(Tail(l), h)
         /\ SinRepetir(l) => SinRepetir(Tail(l)) /\ ~EnLista(Tail(l), Head(l))
<1> DEFINE m == Tail(l)
           n == Len(l)
<1>1. /\ n \in Nat /\ n >= 1 /\ Len(m) = n - 1
      /\ Head(l) = l[1] /\ m \in Seq(S) /\ Head(l) \in S
      /\ \A i \in 1..(n - 1) : m[i] = l[i + 1]
  OBVIOUS
<1> HIDE DEF m, n
<1>2. /\ \A i \in 1..(n - 1) : i + 1 \in 1..n /\ i + 1 # 1 /\ i \in Nat
      /\ \A i \in 1..n : i = 1 \/ (i - 1 \in 1..(n - 1) /\ (i - 1) + 1 = i)
      /\ 1 \in 1..n
  BY <1>1
<1>3. \A i, j \in Nat : i + 1 = j + 1 => i = j
  OBVIOUS
<1>4. ASSUME NEW h  PROVE EnLista(l, h) <=> h = l[1] \/ EnLista(m, h)
  <2>1. h = l[1] \/ EnLista(m, h) => EnLista(l, h)
    BY <1>1, <1>2 DEF EnLista, n
  <2>2. ASSUME NEW i \in 1..n, l[i] = h  PROVE h = l[1] \/ EnLista(m, h)
    <3>1. CASE i = 1
      BY <2>2, <3>1
    <3>2. CASE i # 1
      <4>1. i - 1 \in 1..(n - 1) /\ m[i - 1] = l[i]
        BY <1>1, <1>2, <3>2
      <4> QED
        BY <1>1, <2>2, <4>1 DEF EnLista
    <3> QED
      BY <3>1, <3>2
  <2> QED
    BY <2>1, <2>2 DEF EnLista, n
<1>5. SinRepetir(l) => SinRepetir(m) /\ ~EnLista(m, l[1])
  BY <1>1, <1>2, <1>3 DEF EnLista, SinRepetir, n
<1> QED
  BY <1>1, <1>4, <1>5 DEF m

LEMMA EnListaSinIndice ==
  ASSUME NEW S, NEW l \in Seq(S), NEW k \in 1..Len(l), SinRepetir(l)
  PROVE  /\ SinIndice(l, k) \in Seq(S)
         /\ \A h : EnLista(SinIndice(l, k), h) <=> EnLista(l, h) /\ h # l[k]
         /\ SinRepetir(SinIndice(l, k))
<1> DEFINE m == SinIndice(l, k)
           n == Len(l)
           D(i) == IF i < k THEN i ELSE i + 1
<1>1. m \in Seq(S) /\ Len(m) = n - 1 /\ n \in Nat /\ k \in 1..n
  BY SinIndiceTipo
<1>2. \A i \in 1..(n - 1) : m[i] = l[D(i)]
  BY DEF SinIndice
<1> HIDE DEF m, n
<1>3. /\ \A i \in 1..(n - 1) : D(i) \in 1..n /\ D(i) # k
      /\ \A i, j \in 1..(n - 1) : D(i) = D(j) => i = j
  BY <1>1
<1>4. \A j \in 1..n : j # k => \E i \in 1..(n - 1) : D(i) = j
  <2> SUFFICES ASSUME NEW j \in 1..n, j # k PROVE \E i \in 1..(n - 1) : D(i) = j
    OBVIOUS
  <2>1. CASE j < k
    <3>1. j \in 1..(n - 1) /\ D(j) = j
      BY <1>1, <2>1
    <3> QED
      BY <3>1
  <2>2. CASE j > k
    <3>1. j - 1 \in 1..(n - 1) /\ D(j - 1) = j
      BY <1>1, <2>2
    <3> QED
      BY <3>1
  <2> QED
    BY <1>1, <2>1, <2>2
<1> HIDE DEF D
<1>5. ASSUME NEW h  PROVE EnLista(m, h) <=> EnLista(l, h) /\ h # l[k]
  <2>1. EnLista(m, h) => EnLista(l, h) /\ h # l[k]
    BY <1>1, <1>2, <1>3 DEF EnLista, SinRepetir, n
  <2>2. EnLista(l, h) /\ h # l[k] => EnLista(m, h)
    BY <1>1, <1>2, <1>4 DEF EnLista, n
  <2> QED
    BY <2>1, <2>2
<1>6. SinRepetir(m)
  BY <1>1, <1>2, <1>3 DEF SinRepetir, n
<1> QED
  BY <1>1, <1>5, <1>6 DEF m

LEMMA EnListaQuitar ==
  ASSUME NEW S, NEW l \in Seq(S), NEW x, SinRepetir(l)
  PROVE  /\ Quitar(l, x) \in Seq(S)
         /\ \A h : EnLista(Quitar(l, x), h) <=> EnLista(l, h) /\ h # x
         /\ SinRepetir(Quitar(l, x))
<1>1. CASE EnLista(l, x)
  <2>1. PosicionDe(l, x) \in 1..Len(l) /\ l[PosicionDe(l, x)] = x
    BY <1>1, PosicionDeTipo
  <2>2. Quitar(l, x) = SinIndice(l, PosicionDe(l, x))
    BY <1>1 DEF Quitar
  <2> QED
    BY <2>1, <2>2, EnListaSinIndice
<1>2. CASE ~EnLista(l, x)
  BY <1>2 DEF Quitar
<1> QED
  BY <1>1, <1>2

LEMMA EnListaJuntar ==
  ASSUME NEW S, NEW l \in Seq(S), NEW o \in Seq(S)
  PROVE  /\ l \o o \in Seq(S)
         /\ \A h : EnLista(l \o o, h) <=> EnLista(l, h) \/ EnLista(o, h)
         /\ SinRepetir(l) /\ SinRepetir(o) /\ (\A h : ~(EnLista(l, h) /\ EnLista(o, h)))
              => SinRepetir(l \o o)
<1> DEFINE m == l \o o
           n == Len(l)
           k == Len(o)
<1>1. /\ m \in Seq(S) /\ Len(m) = n + k /\ n \in Nat /\ k \in Nat
      /\ \A i \in 1..n : m[i] = l[i]
      /\ \A i \in 1..k : m[i + n] = o[i]
  OBVIOUS
<1> HIDE DEF m, n, k
<1>2. /\ \A i \in 1..n : i \in 1..(n + k)
      /\ \A i \in 1..k : i + n \in 1..(n + k)
      /\ \A i \in 1..(n + k) : i \in 1..n \/ (i - n \in 1..k /\ (i - n) + n = i)
      /\ \A i, j \in 1..(n + k) : i - n = j - n => i = j
  BY <1>1
<1>3. \A i \in 1..(n + k) :
        \/ i \in 1..n /\ m[i] = l[i]
        \/ i - n \in 1..k /\ m[i] = o[i - n]
  <2> SUFFICES ASSUME NEW i \in 1..(n + k)
               PROVE  \/ i \in 1..n /\ m[i] = l[i]
                      \/ i - n \in 1..k /\ m[i] = o[i - n]
    OBVIOUS
  <2>1. CASE i \in 1..n
    BY <1>1, <2>1
  <2>2. CASE i - n \in 1..k /\ (i - n) + n = i
    <3>1. m[(i - n) + n] = o[i - n]
      BY <1>1, <2>2
    <3> QED
      BY <2>2, <3>1
  <2> QED
    BY <1>2, <2>1, <2>2
<1>4. ASSUME NEW h  PROVE EnLista(m, h) <=> EnLista(l, h) \/ EnLista(o, h)
  <2>1. EnLista(m, h) => EnLista(l, h) \/ EnLista(o, h)
    BY <1>1, <1>3 DEF EnLista, n, k
  <2>2. EnLista(l, h) => EnLista(m, h)
    BY <1>1, <1>2 DEF EnLista, n
  <2>3. EnLista(o, h) => EnLista(m, h)
    BY <1>1, <1>2 DEF EnLista, k
  <2> QED
    BY <2>1, <2>2, <2>3
<1>5. ASSUME SinRepetir(l), SinRepetir(o), \A h : ~(EnLista(l, h) /\ EnLista(o, h)),
             NEW i \in 1..(n + k), NEW j \in 1..(n + k), m[i] = m[j]
      PROVE  i = j
  <2>1. CASE i \in 1..n /\ j \in 1..n
    BY <1>1, <1>5, <2>1 DEF SinRepetir, n
  <2>2. CASE i - n \in 1..k /\ m[i] = o[i - n] /\ j - n \in 1..k /\ m[j] = o[j - n]
    <3>1. i - n = j - n
      BY <1>5, <2>2 DEF SinRepetir, k
    <3> QED
      BY <1>2, <3>1
  <2>3. CASE i \in 1..n /\ m[i] = l[i] /\ j - n \in 1..k /\ m[j] = o[j - n]
    <3>1. EnLista(l, m[i]) /\ EnLista(o, m[i])
      BY <1>5, <2>3 DEF EnLista, n, k
    <3> QED
      BY <1>5, <3>1
  <2>4. CASE j \in 1..n /\ m[j] = l[j] /\ i - n \in 1..k /\ m[i] = o[i - n]
    <3>1. EnLista(l, m[j]) /\ EnLista(o, m[j])
      BY <1>5, <2>4 DEF EnLista, n, k
    <3> QED
      BY <1>5, <3>1
  <2> QED
    BY <1>3, <2>1, <2>2, <2>3, <2>4
<1>6. ASSUME SinRepetir(l), SinRepetir(o), \A h : ~(EnLista(l, h) /\ EnLista(o, h))
      PROVE  SinRepetir(m)
  BY <1>1, <1>5, <1>6 DEF SinRepetir
<1> QED
  BY <1>1, <1>4, <1>6 DEF m

\* A stable sort loses and repeats nothing.
LEMMA OrdenEstable ==
  ASSUME NEW S, NEW l \in Seq(S), NEW Clave \in [S -> Nat],
         NEW p \in OrdenesEstables(l, Clave)
  PROVE  /\ p \in [1..Len(l) -> 1..Len(l)]
         /\ \A i, j \in 1..Len(l) : p[i] = p[j] => i = j
         /\ \A j \in 1..Len(l) : \E i \in 1..Len(l) : p[i] = j
<1> DEFINE n == Len(l)
           I == 1..n
<1>1. /\ p \in [I -> I] /\ n \in Nat
      /\ \A i, j \in I : i < j =>
           \/ Clave[l[p[i]]] < Clave[l[p[j]]]
           \/ Clave[l[p[i]]] = Clave[l[p[j]]] /\ p[i] < p[j]
      /\ \A i \in I : l[i] \in S
  BY DEF OrdenesEstables
<1> HIDE DEF n
<1>2. ASSUME NEW i \in I, NEW j \in I, p[i] = p[j], i < j  PROVE FALSE
  <2> DEFINE c == Clave[l[p[i]]]
             q == p[i]
  <2>1. q \in I /\ c \in Nat
    BY <1>1
  <2>2. c < c \/ q < q
    BY <1>1, <1>2
  <2> HIDE DEF c, q
  <2> QED
    BY <1>1, <2>1, <2>2
<1>3. \A i, j \in I : p[i] = p[j] => i = j
  <2> SUFFICES ASSUME NEW i \in I, NEW j \in I, p[i] = p[j] PROVE i = j
    OBVIOUS
  <2>1. i < j \/ j < i \/ i = j
    BY <1>1
  <2> QED
    BY <1>2, <2>1
<1>4. IsFiniteSet(I) /\ Cardinality(I) = n
  BY <1>1, FS_Interval
<1>5. \A j \in I : \E i \in I : p[i] = j
  <2>1. p \in Injection(I, I)
    BY <1>1, <1>3, Fun_IsInj
  <2>2. p \in Surjection(I, I)
    BY <1>4, <2>1, FS_Injection
  <2> QED
    BY <2>2 DEF Surjection
<1> QED
  BY <1>1, <1>3, <1>5 DEF n

LEMMA EnListaOrden ==
  ASSUME NEW S, NEW l \in Seq(S), NEW Clave \in [S -> Nat],
         NEW p \in OrdenesEstables(l, Clave)
  PROVE  /\ EnOrden(l, p) \in Seq(S) /\ Len(EnOrden(l, p)) = Len(l)
         /\ \A h : EnLista(EnOrden(l, p), h) <=> EnLista(l, h)
         /\ SinRepetir(l) => SinRepetir(EnOrden(l, p))
<1> DEFINE m == EnOrden(l, p)
           n == Len(l)
<1>1. /\ p \in [1..n -> 1..n] /\ n \in Nat
      /\ \A i, j \in 1..n : p[i] = p[j] => i = j
      /\ \A j \in 1..n : \E i \in 1..n : p[i] = j
  BY OrdenEstable
<1>2. m \in Seq(S) /\ Len(m) = n /\ \A i \in 1..n : m[i] = l[p[i]]
  <2>1. m = [i \in 1..n |-> l[p[i]]]
    BY DEF EnOrden
  <2>2. ASSUME NEW i \in 1..n  PROVE l[p[i]] \in S
    <3>1. p[i] \in 1..n
      BY <1>1
    <3> QED
      BY <3>1
  <2> HIDE DEF m, n
  <2> QED
    BY <1>1, <2>1, <2>2
<1> HIDE DEF m, n
<1>3. ASSUME NEW h  PROVE EnLista(m, h) <=> EnLista(l, h)
  <2>1. ASSUME NEW i \in 1..n, m[i] = h  PROVE EnLista(l, h)
    <3>1. p[i] \in 1..n /\ l[p[i]] = h
      BY <1>1, <1>2, <2>1
    <3> QED
      BY <3>1 DEF EnLista, n
  <2>2. ASSUME NEW j \in 1..n, l[j] = h  PROVE EnLista(m, h)
    <3>1. PICK i \in 1..n : p[i] = j
      BY <1>1
    <3>2. m[i] = h
      BY <1>2, <2>2, <3>1
    <3> QED
      BY <1>2, <3>2 DEF EnLista
  <2> QED
    BY <1>2, <2>1, <2>2 DEF EnLista, n
<1>4. ASSUME SinRepetir(l), NEW i \in 1..n, NEW j \in 1..n, m[i] = m[j]  PROVE i = j
  <2>1. p[i] \in 1..n /\ p[j] \in 1..n /\ l[p[i]] = l[p[j]]
    BY <1>1, <1>2, <1>4
  <2>2. p[i] = p[j]
    BY <1>4, <2>1 DEF SinRepetir, n
  <2> QED
    BY <1>1, <2>2
<1>5. SinRepetir(l) => SinRepetir(m)
  BY <1>2, <1>4 DEF SinRepetir
<1> QED
  BY <1>2, <1>3, <1>5 DEF m, n

\* The elements of a list with one more, and of its tail.
LEMMA AgregarForma ==
  ASSUME NEW S, NEW l \in Seq(S), NEW x \in S
  PROVE  \A i \in 1..Len(Append(l, x)) :
           Append(l, x)[i] = x \/ (i \in 1..Len(l) /\ Append(l, x)[i] = l[i])
OBVIOUS

LEMMA ColaForma ==
  ASSUME NEW S, NEW l \in Seq(S), l # <<>>
  PROVE  \A i \in 1..Len(Tail(l)) : i + 1 \in 1..Len(l) /\ Tail(l)[i] = l[i + 1]
OBVIOUS

\* Things numbered without repetition, of which every number below one in use is
\* in use, have the numbers below how many they are: the next free number.
LEMMA NumeradosSeguidos ==
  ASSUME NEW C, IsFiniteSet(C), NEW num \in [C -> Nat],
         \A a, b \in C : num[a] = num[b] => a = b,
         \A a \in C : \A t \in 0..num[a] : \E b \in C : num[b] = t
  PROVE  /\ Cardinality(C) \in Nat
         /\ \A a \in C : num[a] < Cardinality(C)
         /\ \A t \in 0..(Cardinality(C) - 1) : \E b \in C : num[b] = t
<1> DEFINE T == {num[a] : a \in C}
           c == Cardinality(C)
<1>1. num \in Bijection(C, T)
  BY DEF Bijection, Injection, Surjection, IsInjective
<1>2. IsFiniteSet(T) /\ Cardinality(T) = c /\ c \in Nat /\ T \subseteq Nat
  BY <1>1, FS_Bijection, FS_CardinalityType DEF ExistsBijection
<1>3. \A s \in T : \A t \in 0..s : t \in T
  OBVIOUS
<1>4. \A t \in T : \E b \in C : num[b] = t
  OBVIOUS
<1>5. \A a \in C : num[a] \in T
  OBVIOUS
<1> HIDE DEF T, c
<1>6. ASSUME NEW s \in T  PROVE s < c
  <2>1. s \in Nat /\ (0..s) \in SUBSET T
    BY <1>2, <1>3
  <2>2. Cardinality(0..s) = s + 1
    BY <2>1, FS_Interval
  <2>3. Cardinality(0..s) <= c
    BY <1>2, <2>1, FS_Subset
  <2> QED
    BY <1>2, <2>1, <2>2, <2>3
<1>7. ASSUME NEW t \in 0..(c - 1), t \notin T  PROVE FALSE
  <2>1. t \in Nat /\ t < c
    BY <1>2
  <2>2. ASSUME NEW s \in T  PROVE s \in 0..(t - 1)
    <3>1. s \in Nat /\ t \notin 0..s
      BY <1>2, <1>3, <1>7
    <3> QED
      BY <2>1, <3>1
  <2>3. PICK u \in Int : u = t - 1
    BY <2>1
  <2>4. T \in SUBSET (0..u)
    BY <2>2, <2>3
  <2>5. IsFiniteSet(0..u) /\ Cardinality(0..u) = IF 0 > u THEN 0 ELSE u - 0 + 1
    BY FS_Interval
  <2>6. Cardinality(0..u) = t
    BY <2>1, <2>3, <2>5
  <2>7. c <= t
    <3>1. Cardinality(T) <= Cardinality(0..u)
      BY <2>4, <2>5, FS_Subset
    <3> QED
      BY <1>2, <2>6, <3>1
  <2> QED
    BY <1>2, <2>1, <2>7
<1> QED
  BY <1>2, <1>4, <1>5, <1>6, <1>7 DEF c

\* A list of the elements of a finite set that has them all and is as long as
\* the set repeats none.
LEMMA OrdenSinRepetir ==
  ASSUME NEW W, IsFiniteSet(W), NEW o \in [1..Cardinality(W) -> W],
         \A h \in W : \E i \in DOMAIN o : o[i] = h
  PROVE  /\ o \in Seq(W) /\ SinRepetir(o)
         /\ \A h : EnLista(o, h) <=> h \in W
<1> DEFINE n == Cardinality(W)
<1>1. n \in Nat
  BY FS_CardinalityType
<1>2. IsFiniteSet(1..n) /\ Cardinality(1..n) = n
  BY <1>1, FS_Interval
<1>3. o \in Surjection(1..n, W)
  BY DEF Surjection
<1>4. o \in Injection(1..n, W)
  BY <1>2, <1>3, FS_SurjSameCardinalityImpliesInj
<1>5. o \in Seq(W) /\ Len(o) = n
  BY <1>1
<1>6. SinRepetir(o)
  BY <1>4, <1>5 DEF SinRepetir, Injection, IsInjective
<1>7. \A h : EnLista(o, h) <=> h \in W
  BY <1>5 DEF EnLista
<1> QED
  BY <1>5, <1>6, <1>7
=============================================================================
