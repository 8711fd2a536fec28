---------------------------- MODULE Buffers_proofs ----------------------------
(* The framing of utils: fields and packets come out of a stream as they went in. *)
EXTENDS Buffers, SequenceTheorems, TLAPS

LEMMA Concatenadas ==
  ASSUME NEW S, NEW s \in Seq(S), NEW t \in Seq(S), NEW m \in Nat, m = Len(s)
  PROVE  /\ s \o t \in Seq(S)
         /\ Len(s \o t) = m + Len(t)
         /\ \A i \in 1..m : (s \o t)[i] = s[i]
         /\ \A i \in 1..Len(t) : (s \o t)[m + i] = t[i]
<1>1. Len(t) \in Nat
  OBVIOUS
<1>2. /\ s \o t \in Seq(S)
      /\ Len(s \o t) = m + Len(t)
      /\ \A i \in 1..(m + Len(t)) : (s \o t)[i] = IF i <= m THEN s[i] ELSE t[i - m]
  BY ConcatProperties
<1>3. \A i \in 1..m : i \in 1..(m + Len(t)) /\ i <= m
  BY <1>1
<1>4. \A i \in 1..Len(t) : m + i \in 1..(m + Len(t)) /\ ~(m + i <= m) /\ (m + i) - m = i
  BY <1>1
<1>5. QED
  BY <1>2, <1>3, <1>4

\* What extract_from_buffer takes is the content add_to_buffer put, whatever
\* follows it, and what it leaves is what follows.
THEOREM ExtraeLoAgregado ==
  ASSUME NEW S, Nat \subseteq S, NEW c \in Seq(S), NEW r \in Seq(S)
  PROVE  /\ Extraido(Agregar(NuevoBuffer, c) \o r) = c
         /\ Resto(Agregar(NuevoBuffer, c) \o r) = r
<1> DEFINE n == Len(c)
           s == Agregar(NuevoBuffer, c) \o r
<1>1. n \in Nat /\ n \in S
  OBVIOUS
<1>2. /\ Agregar(NuevoBuffer, c) \in Seq(S)
      /\ Len(Agregar(NuevoBuffer, c)) = n + 1
      /\ Agregar(NuevoBuffer, c)[1] = n
      /\ \A i \in 1..n : Agregar(NuevoBuffer, c)[i + 1] = c[i]
  BY <1>1 DEF Agregar, NuevoBuffer
<1>3. /\ s \in Seq(S)
      /\ Len(s) = n + 1 + Len(r)
      /\ s[1] = n
      /\ \A i \in 1..n : s[i + 1] = c[i]
      /\ \A i \in 1..Len(r) : s[n + 1 + i] = r[i]
  <2>1. /\ s \in Seq(S) /\ Len(s) = n + 1 + Len(r)
        /\ \A i \in 1..(n + 1) : s[i] = Agregar(NuevoBuffer, c)[i]
        /\ \A i \in 1..Len(r) : s[n + 1 + i] = r[i]
    BY <1>1, <1>2, Concatenadas, SMTT(30)
  <2>2. 1 \in 1..(n + 1) /\ \A i \in 1..n : i + 1 \in 1..(n + 1)
    BY <1>1
  <2> HIDE DEF s
  <2>3. QED
    BY <1>2, <2>1, <2>2
<1> HIDE DEF s
<1>4. Extraido(s) = c
  <2>1. Extraido(s) = SubSeq(s, 2, n + 1)
    BY <1>3 DEF Extraido
  <2>2. /\ SubSeq(s, 2, n + 1) \in Seq(S) /\ Len(SubSeq(s, 2, n + 1)) = n
        /\ \A i \in 1..n : SubSeq(s, 2, n + 1)[i] = s[i + 1]
    BY <1>1, <1>3
  <2>3. QED
    BY <2>1, <2>2, <1>1, <1>3, SeqEqual
<1>5. Resto(s) = r
  <2>1. Resto(s) = SubSeq(s, n + 2, n + 1 + Len(r))
    BY <1>3 DEF Resto
  <2>2. /\ SubSeq(s, n + 2, n + 1 + Len(r)) \in Seq(S)
        /\ Len(SubSeq(s, n + 2, n + 1 + Len(r))) = Len(r)
        /\ \A i \in 1..Len(r) : SubSeq(s, n + 2, n + 1 + Len(r))[i] = s[n + 1 + i]
    BY <1>1, <1>3
  <2>3. QED
    BY <2>1, <2>2, <1>1, <1>3, SeqEqual
<1>6. QED
  BY <1>4, <1>5 DEF s

\* A packet with something in its buffer, sent in front of any others, is
\* received whole and no cell more; one with an empty buffer ends a receiver
\* that calls recv_buffer for it.
THEOREM RecibeLoEnviado ==
  ASSUME NEW S, Nat \subseteq S, NEW op \in Nat, NEW b \in Seq(S), NEW r \in Seq(S)
  PROVE  /\ RecvOp(Serializar(op, b) \o r) = op
         /\ b # <<>> => /\ RecvBuffer(Serializar(op, b) \o r) = b
                        /\ TrasBuffer(Serializar(op, b) \o r) = r
         /\ b = <<>> => RecvBuffer(Serializar(op, b) \o r) = FinDelProceso
<1> DEFINE n == Len(b)
           p == Serializar(op, b)
           s == p \o r
<1>1. n \in Nat /\ n \in S /\ op \in S
  OBVIOUS
<1>2. /\ Serializar(op, b) \in Seq(S)
      /\ Len(Serializar(op, b)) = n + 2
      /\ Serializar(op, b)[1] = op /\ Serializar(op, b)[2] = n
      /\ \A i \in 1..n : Serializar(op, b)[i + 2] = b[i]
  BY <1>1 DEF Serializar
<1>3. /\ s \in Seq(S)
      /\ Len(s) = n + 2 + Len(r)
      /\ s[1] = op /\ s[2] = n
      /\ \A i \in 1..n : s[i + 2] = b[i]
      /\ \A i \in 1..Len(r) : s[n + 2 + i] = r[i]
  <2>1. /\ s \in Seq(S) /\ Len(s) = n + 2 + Len(r)
        /\ \A i \in 1..(n + 2) : s[i] = p[i]
        /\ \A i \in 1..Len(r) : s[n + 2 + i] = r[i]
    <3>1. p \in Seq(S) /\ n + 2 = Len(p) /\ n + 2 \in Nat
      BY <1>1, <1>2
    <3> HIDE DEF p, n
    <3> QED
      BY <3>1, Concatenadas
  <2>2. 1 \in 1..(n + 2) /\ 2 \in 1..(n + 2) /\ \A i \in 1..n : i + 2 \in 1..(n + 2)
    BY <1>1
  <2> HIDE DEF s
  <2>3. QED
    BY <1>2, <2>1, <2>2
<1> HIDE DEF s
<1>4. RecvOp(s) = op
  BY <1>1, <1>3 DEF RecvOp
<1>5. ASSUME b # <<>>  PROVE RecvBuffer(s) = b
  <2>1. RecvBuffer(s) = SubSeq(s, 3, n + 2)
    <3>1. n # 0
      BY <1>5
    <3> QED
      BY <1>3, <3>1 DEF RecvBuffer
  <2>2. /\ SubSeq(s, 3, n + 2) \in Seq(S) /\ Len(SubSeq(s, 3, n + 2)) = n
        /\ \A i \in 1..n : SubSeq(s, 3, n + 2)[i] = s[i + 2]
    BY <1>1, <1>3
  <2>3. QED
    BY <2>1, <2>2, <1>1, <1>3, SeqEqual
<1>6. TrasBuffer(s) = r
  <2>1. TrasBuffer(s) = SubSeq(s, n + 3, n + 2 + Len(r))
    BY <1>3 DEF TrasBuffer
  <2>2. /\ SubSeq(s, n + 3, n + 2 + Len(r)) \in Seq(S)
        /\ Len(SubSeq(s, n + 3, n + 2 + Len(r))) = Len(r)
        /\ \A i \in 1..Len(r) : SubSeq(s, n + 3, n + 2 + Len(r))[i] = s[n + 2 + i]
    BY <1>1, <1>3
  <2>3. \A i \in 1..Len(r) : SubSeq(s, n + 3, n + 2 + Len(r))[i] = r[i]
    BY <2>2, <1>3
  <2>4. SubSeq(s, n + 3, n + 2 + Len(r)) = r
    BY <2>2, <2>3, SeqEqual
  <2>5. QED
    BY <2>1, <2>4
<1>7. ASSUME b = <<>>  PROVE RecvBuffer(s) = FinDelProceso
  BY <1>3, <1>7 DEF RecvBuffer
<1>8. QED
  BY <1>4, <1>5, <1>6, <1>7 DEF s

LEMMA ValorDeCampos ==
  ASSUME NEW S, Nat \subseteq S, NEW vs \in Seq(S)
  PROVE  /\ Campos(vs) \in Seq(S)
         /\ Len(Campos(vs)) = 2 * Len(vs)
         /\ \A k \in 1..Len(vs) : Campos(vs)[2 * k - 1] = 1 /\ Campos(vs)[2 * k] = vs[k]
<1>1. \A i \in 1..(2 * Len(vs)) :
        (IF i % 2 = 1 THEN 1 ELSE vs[i \div 2]) \in S
  <2> TAKE i \in 1..(2 * Len(vs))
  <2>1. CASE i % 2 = 1
    BY <2>1
  <2>2. CASE i % 2 # 1
    <3>1. i \div 2 \in 1..Len(vs)
      BY <2>2
    <3>2. QED
      BY <3>1, <2>2
  <2>3. QED
    BY <2>1, <2>2
<1>2. Campos(vs) \in Seq(S) /\ Len(Campos(vs)) = 2 * Len(vs)
  BY <1>1 DEF Campos
<1>3. ASSUME NEW k \in 1..Len(vs)
      PROVE  Campos(vs)[2 * k - 1] = 1 /\ Campos(vs)[2 * k] = vs[k]
  <2>1. /\ 2 * k - 1 \in 1..(2 * Len(vs)) /\ (2 * k - 1) % 2 = 1
        /\ 2 * k \in 1..(2 * Len(vs)) /\ (2 * k) % 2 = 0 /\ (2 * k) \div 2 = k
    OBVIOUS
  <2>2. QED
    BY <2>1 DEF Campos
<1>4. QED
  BY <1>2, <1>3

LEMMA ValorDeAgregar ==
  ASSUME NEW S, Nat \subseteq S, NEW c \in Seq(S), NEW u \in Seq(S)
  PROVE  /\ Agregar(c, u) \in Seq(S)
         /\ Len(Agregar(c, u)) = Len(c) + 1 + Len(u)
         /\ Agregar(c, u)[Len(c) + 1] = Len(u)
         /\ \A i \in 1..Len(u) : Agregar(c, u)[Len(c) + 1 + i] = u[i]
         /\ \A i \in 1..Len(c) : Agregar(c, u)[i] = c[i]
<1> DEFINE t == <<Len(u)>> \o u
<1>1. /\ t \in Seq(S) /\ Len(t) = Len(u) + 1 /\ t[1] = Len(u)
      /\ \A i \in 1..Len(u) : t[i + 1] = u[i]
  <2>1. Len(u) \in S /\ Len(u) \in Nat
    OBVIOUS
  <2>2. QED
    BY <2>1
<1>2. Agregar(c, u) = c \o t
  BY DEF Agregar
<1> HIDE DEF t
<1>3. /\ c \o t \in Seq(S) /\ Len(c \o t) = Len(c) + Len(t)
      /\ \A i \in 1..Len(c) : (c \o t)[i] = c[i]
      /\ \A i \in 1..Len(t) : (c \o t)[Len(c) + i] = t[i]
  BY <1>1, Concatenadas
<1>4. Len(u) \in Nat /\ Len(c) \in Nat
  OBVIOUS
<1>5. (c \o t)[Len(c) + 1] = Len(u)
  BY <1>1, <1>3, <1>4
<1>6. \A i \in 1..Len(u) : (c \o t)[Len(c) + 1 + i] = u[i]
  <2> TAKE i \in 1..Len(u)
  <2>1. i + 1 \in 1..Len(t) /\ Len(c) + (i + 1) = Len(c) + 1 + i
    BY <1>1, <1>4
  <2>2. QED
    BY <2>1, <1>1, <1>3
<1>7. QED
  BY <1>1, <1>2, <1>3, <1>4, <1>5, <1>6

LEMMA ValorDeAgregarUno ==
  ASSUME NEW S, Nat \subseteq S, NEW c \in Seq(S), NEW v \in S
  PROVE  /\ AgregarUno(c, v) \in Seq(S)
         /\ Len(AgregarUno(c, v)) = Len(c) + 2
         /\ AgregarUno(c, v)[Len(c) + 1] = 1 /\ AgregarUno(c, v)[Len(c) + 2] = v
         /\ \A i \in 1..Len(c) : AgregarUno(c, v)[i] = c[i]
<1>1. <<v>> \in Seq(S) /\ Len(<<v>>) = 1 /\ <<v>>[1] = v
  OBVIOUS
<1>2. /\ Agregar(c, <<v>>) \in Seq(S)
      /\ Len(Agregar(c, <<v>>)) = Len(c) + 1 + Len(<<v>>)
      /\ Agregar(c, <<v>>)[Len(c) + 1] = Len(<<v>>)
      /\ \A i \in 1..Len(<<v>>) : Agregar(c, <<v>>)[Len(c) + 1 + i] = <<v>>[i]
      /\ \A i \in 1..Len(c) : Agregar(c, <<v>>)[i] = c[i]
  <2>1. \A u \in Seq(S) :
          /\ Agregar(c, u) \in Seq(S)
          /\ Len(Agregar(c, u)) = Len(c) + 1 + Len(u)
          /\ Agregar(c, u)[Len(c) + 1] = Len(u)
          /\ \A i \in 1..Len(u) : Agregar(c, u)[Len(c) + 1 + i] = u[i]
          /\ \A i \in 1..Len(c) : Agregar(c, u)[i] = c[i]
    BY ValorDeAgregar
  <2>2. QED
    BY <1>1, <2>1, Zenon
<1>3. Len(c) \in Nat /\ 1 \in 1..1 /\ Len(c) + 1 + 1 = Len(c) + 2
  OBVIOUS
<1>4. Agregar(c, <<v>>)[Len(c) + 2] = v
  <2>1. Agregar(c, <<v>>)[Len(c) + 1 + 1] = <<v>>[1]
    BY <1>1, <1>2, <1>3, Zenon
  <2>2. QED
    BY <2>1, <1>1, <1>3, Zenon
<1>5. QED
  BY <1>1, <1>2, <1>3, <1>4 DEF AgregarUno

\* Campos is what adding the fields one by one makes ...
THEOREM CamposSeAgregan ==
  ASSUME NEW S, Nat \subseteq S, NEW vs \in Seq(S), NEW v \in S
  PROVE  /\ Campos(<<>>) = NuevoBuffer
         /\ Campos(Append(vs, v)) = AgregarUno(Campos(vs), v)
<1> DEFINE n  == Len(vs)
           ws == Append(vs, v)
           a  == Campos(ws)
           b  == AgregarUno(Campos(vs), v)
<1>1. Campos(<<>>) = NuevoBuffer
  BY DEF Campos, NuevoBuffer
<1>2. /\ n \in Nat /\ ws \in Seq(S) /\ Len(ws) = n + 1 /\ ws[n + 1] = v
      /\ \A k \in 1..n : ws[k] = vs[k]
  OBVIOUS
<1>3. /\ a \in Seq(S) /\ Len(a) = 2 * n + 2
      /\ \A k \in 1..(n + 1) : a[2 * k - 1] = 1 /\ a[2 * k] = ws[k]
  <2>1. 2 * (n + 1) = 2 * n + 2
    BY <1>2
  <2> HIDE DEF ws
  <2>2. /\ Campos(ws) \in Seq(S)
        /\ Len(Campos(ws)) = 2 * Len(ws)
        /\ \A k \in 1..Len(ws) : Campos(ws)[2 * k - 1] = 1 /\ Campos(ws)[2 * k] = ws[k]
    BY <1>2, ValorDeCampos
  <2>3. QED
    BY <1>2, <2>1, <2>2
<1>4. /\ b \in Seq(S) /\ Len(b) = 2 * n + 2 /\ b[2 * n + 1] = 1 /\ b[2 * n + 2] = v
      /\ \A i \in 1..(2 * n) : b[i] = Campos(vs)[i]
  <2>1. Campos(vs) \in Seq(S) /\ Len(Campos(vs)) = 2 * n
    BY ValorDeCampos
  <2> DEFINE c == Campos(vs)
  <2>2. \A x \in Seq(S) :
          /\ AgregarUno(x, v) \in Seq(S)
          /\ Len(AgregarUno(x, v)) = Len(x) + 2
          /\ AgregarUno(x, v)[Len(x) + 1] = 1 /\ AgregarUno(x, v)[Len(x) + 2] = v
          /\ \A i \in 1..Len(x) : AgregarUno(x, v)[i] = x[i]
    BY ValorDeAgregarUno
  <2> HIDE DEF c
  <2>3. /\ AgregarUno(c, v) \in Seq(S)
        /\ Len(AgregarUno(c, v)) = Len(c) + 2
        /\ AgregarUno(c, v)[Len(c) + 1] = 1 /\ AgregarUno(c, v)[Len(c) + 2] = v
        /\ \A i \in 1..Len(c) : AgregarUno(c, v)[i] = c[i]
    BY <2>1, <2>2 DEF c
  <2>4. QED
    BY <2>1, <2>3 DEF c
<1>5. \A i \in 1..(2 * n + 2) : a[i] = b[i]
  <2> TAKE i \in 1..(2 * n + 2)
  <2>1. \E k \in 1..(n + 1) : i = 2 * k - 1 \/ i = 2 * k
    <3>1. CASE i % 2 = 1
      <4>1. (i + 1) \div 2 \in 1..(n + 1) /\ i = 2 * ((i + 1) \div 2) - 1
        BY <3>1, <1>2
      <4>2. QED
        BY <4>1
    <3>2. CASE i % 2 # 1
      <4>1. i \div 2 \in 1..(n + 1) /\ i = 2 * (i \div 2)
        BY <3>2, <1>2
      <4>2. QED
        BY <4>1
    <3>3. QED
      BY <3>1, <3>2
  <2>2. PICK k \in 1..(n + 1) : i = 2 * k - 1 \/ i = 2 * k
    BY <2>1
  <2>3. a[2 * k - 1] = 1 /\ a[2 * k] = ws[k]
    BY <1>3
  <2>4. CASE k = n + 1
    <3>1. 2 * k - 1 = 2 * n + 1 /\ 2 * k = 2 * n + 2 /\ ws[k] = v
      BY <2>4, <1>2
    <3> HIDE DEF a, b, ws
    <3>2. QED
      BY <2>2, <2>3, <3>1, <1>4
  <2>5. CASE k # n + 1
    <3>1. k \in 1..n /\ 2 * k - 1 \in 1..(2 * n) /\ 2 * k \in 1..(2 * n)
      BY <2>5, <1>2
    <3>2. Campos(vs)[2 * k - 1] = 1 /\ Campos(vs)[2 * k] = vs[k]
      BY <3>1, ValorDeCampos
    <3>3. b[2 * k - 1] = 1 /\ b[2 * k] = vs[k]
      BY <3>1, <3>2, <1>4
    <3>4. ws[k] = vs[k]
      BY <3>1, <1>2
    <3> HIDE DEF a, b, ws
    <3>5. QED
      BY <2>2, <2>3, <3>3, <3>4
  <2>6. QED
    BY <2>4, <2>5
<1>6. a = b
  <2> HIDE DEF a, b
  <2>1. QED
    BY <1>2, <1>3, <1>4, <1>5
<1>7. QED
  BY <1>1, <1>6

\* ... and its fields come out one by one, in that order: the k-th is Campo(b, k).
THEOREM CamposSeExtraen ==
  ASSUME NEW S, Nat \subseteq S, NEW vs \in Seq(S), vs # <<>>
  PROVE  /\ Uno(Campos(vs)) = Head(vs)
         /\ Campo(Campos(vs), 1) = Head(vs)
         /\ \A k \in 1..(Len(vs) - 1) : Campo(Resto(Campos(vs)), k) = Campo(Campos(vs), k + 1)
<1> DEFINE n == Len(vs)
           b == Campos(vs)
<1>1. n \in Nat /\ n >= 1 /\ Head(vs) = vs[1]
  OBVIOUS
<1>2. /\ b \in Seq(S) /\ Len(b) = 2 * n
      /\ \A k \in 1..n : b[2 * k - 1] = 1 /\ b[2 * k] = vs[k]
  BY ValorDeCampos
<1>3. b[1] = 1 /\ b[2] = vs[1]
  <2>1. 1 \in 1..n /\ 2 * 1 - 1 = 1 /\ 2 * 1 = 2
    BY <1>1
  <2> HIDE DEF b
  <2>2. QED
    BY <2>1, <1>2
<1> HIDE DEF b
<1>4. Uno(b) = vs[1]
  <2>1. Extraido(b) = SubSeq(b, 2, 2)
    BY <1>3 DEF Extraido
  <2>2. SubSeq(b, 2, 2)[1] = b[2]
    BY <1>1, <1>2
  <2>3. QED
    BY <2>1, <2>2, <1>3 DEF Uno
<1>5. \A k \in 1..(n - 1) : Campo(Resto(b), k) = Campo(b, k + 1)
  <2> TAKE k \in 1..(n - 1)
  <2>1. Resto(b) = SubSeq(b, 3, 2 * n)
    BY <1>2, <1>3 DEF Resto
  <2>2. 2 * k \in 1..(2 * n - 2) /\ 2 * k + 2 = 2 * (k + 1)
    BY <1>1
  <2>3. SubSeq(b, 3, 2 * n)[2 * k] = b[2 * k + 2]
    BY <1>1, <1>2, <2>2
  <2>4. QED
    BY <2>1, <2>2, <2>3 DEF Campo
<1>6. Campo(b, 1) = vs[1]
  BY <1>3 DEF Campo
<1>7. QED
  BY <1>1, <1>4, <1>5, <1>6 DEF b
=============================================================================
