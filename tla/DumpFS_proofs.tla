---------------------------- MODULE DumpFS_proofs ----------------------------
(***************************************************************************)
(* The disk of the filesystem through any number of dumps and deaths, for  *)
(* every number of blocks and every size of dump.  Files are never deleted *)
(* and the run the search finds and the bits that are set begin at the     *)
(* same block, so the blocks in use are always the first ones.             *)
(***************************************************************************)
EXTENDS DumpFS, FiniteSetTheorems, TLAPS

\* The bits that are set are those of the first blocks.
Prefijo(S) == \E n \in 0..BLOCK_COUNT : S = 0..(n - 1)

Registro == [id |-> dump.id, base |-> dump.base, cantidad |-> dump.cantidad]

\* Blocks 0..k of a file hold its id and their number.
Escritos(a, k) ==
  \A i \in 0..k : bloques[a.base + i].archivo = a.id /\ bloques[a.base + i].parte = i

\* The disk, whoever writes it.
InvDisco ==
  /\ Prefijo(bitmap) /\ Prefijo(bitmapDisco)
  /\ SinSolapamiento
  /\ \A a, b \in metadatos : a.id = b.id => a = b

\* The request in course: which writes it has done, and that it is the only one
\* that touches its blocks.
InvDump ==
  /\ ~arriba => dump = Reposo
  /\ arriba /\ dump.paso # "persiste" => bitmap = bitmapDisco
  /\ dump.paso # "reposo" =>
       dump.id \in Ids /\ dump.id \notin respondidos /\ dump.cantidad \in Nat \ {0}
  /\ dump.paso \in {"espacio", "marca", "persiste", "metadata"} =>
       \A a \in metadatos : a.id # dump.id
  /\ dump.paso \notin {"reposo", "espacio"} => dump.base + dump.cantidad < BLOCK_COUNT
  /\ dump.paso = "marca" => bitmap = 0..(dump.base - 1)
  /\ dump.paso = "persiste" =>
       bitmap = 0..(dump.base + dump.cantidad) /\ bitmapDisco = 0..(dump.base - 1)
  /\ dump.paso = "metadata" =>
       /\ bitmapDisco = 0..(dump.base + dump.cantidad)
       /\ \A a \in metadatos : Ocupa(a) \subseteq 0..(dump.base - 1)
  /\ dump.paso \in {"indice", "datos", "responde"} => Registro \in metadatos
  /\ dump.paso = "datos" => dump.i \in 1..dump.cantidad /\ Escritos(Registro, dump.i - 1)
  /\ dump.paso = "responde" => Escritos(Registro, dump.cantidad)

Inv == TypeOK /\ InvDisco /\ InvDump /\ DumpDurable

LEMMA PrefijoHasta == \A n \in 0..BLOCK_COUNT : Prefijo(0..(n - 1))
BY Zenon DEF Prefijo

LEMMA InvInicial == Init => Inv
<1> SUFFICES ASSUME Init PROVE Inv
  OBVIOUS
<1>1. TypeOK
  BY DiscoOK DEF Init, TypeOK, Bloques, Vacio, Reposo, Pasos
<1>2. Prefijo({})
  <2>1. 0 \in 0..BLOCK_COUNT /\ {} = 0..(0 - 1)
    BY DiscoOK
  <2>2. QED
    BY <2>1, Zenon DEF Prefijo
<1>3. InvDisco
  BY <1>2 DEF Init, InvDisco, SinSolapamiento
<1>4. InvDump /\ DumpDurable
  BY DEF Init, InvDump, Reposo, DumpDurable
<1>5. QED
  BY <1>1, <1>3, <1>4 DEF Inv

-----------------------------------------------------------------------------
(* The search: with the first n blocks in use, the run begins at block n. *)

LEMMA LibresTrasPrefijo ==
  ASSUME DiscoOK, NEW n \in 0..BLOCK_COUNT, bitmap = 0..(n - 1), NEW c \in Nat \ {0}
  PROVE  /\ HayEspacio(c + 1) <=> n + c < BLOCK_COUNT
         /\ n + c < BLOCK_COUNT =>
              n \in Bloques /\ Libres(n, c + 1) /\ \A b \in Bloques : EsBase(b, c) <=> b = n
<1>1. Bloques \ bitmap = n..(BLOCK_COUNT - 1)
  BY DiscoOK DEF Bloques
<1>2. Cardinality(Bloques \ bitmap) = IF n > BLOCK_COUNT - 1 THEN 0 ELSE BLOCK_COUNT - 1 - n + 1
  <2>1. n \in Int /\ BLOCK_COUNT - 1 \in Int
    BY DiscoOK
  <2>2. QED
    BY <1>1, <2>1, FS_Interval
<1>3. HayEspacio(c + 1) <=> n + c < BLOCK_COUNT
  BY <1>2, DiscoOK DEF HayEspacio
<1>4. ASSUME n + c < BLOCK_COUNT
      PROVE  n \in Bloques /\ Libres(n, c + 1) /\ \A b \in Bloques : EsBase(b, c) <=> b = n
  <2>1. n \in Bloques
    BY <1>4, DiscoOK DEF Bloques
  <2>2. Libres(n, c + 1) /\ Libres(n, c)
    BY <1>1, <1>4, DiscoOK DEF Libres
  <2>3. \A a \in Bloques : a < n => ~Libres(a, c)
    <3> SUFFICES ASSUME NEW a \in Bloques, a < n PROVE ~Libres(a, c)
      OBVIOUS
    <3>1. a \in a..(a + c - 1) /\ a \notin Bloques \ bitmap
      BY <1>1, DiscoOK DEF Bloques
    <3>2. QED
      BY <3>1 DEF Libres
  <2>4. EsBase(n, c)
    BY <2>2, <2>3 DEF EsBase
  <2>5. ASSUME NEW b \in Bloques, EsBase(b, c), b # n PROVE FALSE
    <3>1. b < n \/ n < b
      BY <2>1, <2>5, DiscoOK DEF Bloques
    <3>2. QED
      BY <3>1, <2>1, <2>2, <2>3, <2>5 DEF EsBase
  <2>6. QED
    BY <2>1, <2>2, <2>4, <2>5
<1>5. QED
  BY <1>3, <1>4

LEMMA HayBaseSiPrefijo == DiscoOK /\ InvDisco /\ InvDump => HayBase
<1> SUFFICES ASSUME DiscoOK, InvDisco, InvDump, dump.paso = "espacio", HayEspacio(dump.cantidad + 1)
             PROVE  \E b \in Bloques : EsBase(b, dump.cantidad) /\ Libres(b, dump.cantidad + 1)
  BY DEF HayBase
<1>1. dump.cantidad \in Nat \ {0}
  BY DEF InvDump
<1>2. PICK n \in 0..BLOCK_COUNT : bitmap = 0..(n - 1)
  BY DEF InvDisco, Prefijo
<1>3. QED
  BY <1>1, <1>2, LibresTrasPrefijo

-----------------------------------------------------------------------------
(* The steps of a dump *)

LEMMA DiscoIgual ==
  ASSUME InvDisco, DumpDurable, UNCHANGED <<bitmap, bitmapDisco, metadatos, bloques>>,
         respondidos' = respondidos
  PROVE  InvDisco' /\ DumpDurable'
<1>1. Prefijo(bitmap)' /\ Prefijo(bitmapDisco)'
  BY Zenon DEF InvDisco, Prefijo
<1>2. SinSolapamiento'
  BY DEF InvDisco, SinSolapamiento
<1>3. DumpDurable'
  BY DEF DumpDurable
<1>4. QED
  BY <1>1, <1>2, <1>3 DEF InvDisco

LEMMA PedirConserva ==
  ASSUME Inv, NEW id \in Ids, NEW c \in Cantidades, Pedir(id, c)
  PROVE  Inv'
<1>1. c \in Nat \ {0} /\ id \in Nat /\ 0 \in Bloques
  BY DiscoOK DEF Ids, Bloques
<1>2. TypeOK'
  BY <1>1 DEF Inv, TypeOK, Pedir, Pasos
<1>3. id \notin respondidos /\ \A a \in metadatos : a.id # id
  BY DEF Pedir, Pedidos
<1>4. InvDisco' /\ DumpDurable'
  <2>1. UNCHANGED <<bitmap, bitmapDisco, metadatos, bloques>> /\ respondidos' = respondidos
    BY DEF Pedir
  <2>2. QED
    BY <2>1, DiscoIgual DEF Inv
<1>5. InvDump'
  BY <1>1, <1>3 DEF Inv, InvDump, Pedir, TypeOK
<1>6. QED
  BY <1>2, <1>4, <1>5 DEF Inv

LEMMA BuscarEspacioConserva == Inv /\ BuscarEspacio => Inv'
<1> SUFFICES ASSUME Inv, BuscarEspacio PROVE Inv'
  OBVIOUS
<1>1. InvDisco' /\ DumpDurable'
  <2>1. UNCHANGED <<bitmap, bitmapDisco, metadatos, bloques>> /\ respondidos' = respondidos
    BY DEF BuscarEspacio
  <2>2. QED
    BY <2>1, DiscoIgual DEF Inv
<1>2. CASE rechazados' = rechazados \cup {dump.id} /\ dump' = Reposo
  <2>1. TypeOK'
    <3>1. dump.id \in Ids
      BY DEF Inv, InvDump, BuscarEspacio
    <3>2. 0 \in Bloques
      BY DiscoOK DEF Bloques
    <3>3. QED
      BY <1>2, <3>1, <3>2 DEF Inv, TypeOK, BuscarEspacio, Reposo, Pasos
  <2>2. InvDump'
    BY <1>2 DEF Inv, InvDump, BuscarEspacio, Reposo
  <2>3. QED
    BY <1>1, <2>1, <2>2 DEF Inv
<1>3. CASE /\ HayEspacio(dump.cantidad + 1)
           /\ \E b \in Bloques :
                /\ EsBase(b, dump.cantidad)
                /\ dump' = [dump EXCEPT !.paso = "marca", !.base = b]
           /\ UNCHANGED rechazados
  <2>1. PICK n \in 0..BLOCK_COUNT : bitmap = 0..(n - 1)
    BY DEF Inv, InvDisco, Prefijo
  <2>2. dump.cantidad \in Nat \ {0}
    BY DEF Inv, InvDump, BuscarEspacio
  <2>3. n + dump.cantidad < BLOCK_COUNT /\ n \in Bloques
    BY <1>3, <2>1, <2>2, LibresTrasPrefijo, DiscoOK
  <2>4. dump' = [dump EXCEPT !.paso = "marca", !.base = n]
    BY <1>3, <2>1, <2>2, <2>3, LibresTrasPrefijo, DiscoOK
  <2>5. TypeOK'
    BY <1>3, <2>3, <2>4 DEF Inv, TypeOK, BuscarEspacio, Pasos
  <2>6. InvDump'
    BY <2>1, <2>3, <2>4 DEF Inv, TypeOK, InvDump, BuscarEspacio
  <2>7. QED
    BY <1>1, <2>5, <2>6 DEF Inv
<1>4. QED
  BY <1>2, <1>3 DEF BuscarEspacio

LEMMA MarcarConserva == Inv /\ Marcar => Inv'
<1> SUFFICES ASSUME Inv, Marcar PROVE Inv'
  OBVIOUS
<1>1. /\ dump.base \in Nat /\ dump.cantidad \in Nat /\ dump.base + dump.cantidad < BLOCK_COUNT
      /\ bitmap = 0..(dump.base - 1) /\ bitmapDisco = bitmap
  BY DiscoOK DEF Inv, TypeOK, InvDump, Marcar, Bloques
<1>2. bitmap' = 0..(dump.base + dump.cantidad)
  BY <1>1 DEF Marcar
<1>3. TypeOK'
  BY <1>1, <1>2, DiscoOK, SMTT(30) DEF Inv, TypeOK, Marcar, Pasos, Bloques
<1>4. Prefijo(bitmap')
  <2> DEFINE n == dump.base + dump.cantidad + 1
  <2>1. n \in 0..BLOCK_COUNT /\ bitmap' = 0..(n - 1)
    BY <1>1, <1>2, DiscoOK
  <2> HIDE DEF n
  <2>2. QED
    BY <2>1, PrefijoHasta
<1>5. InvDisco' /\ DumpDurable'
  BY <1>4 DEF Inv, InvDisco, DumpDurable, SinSolapamiento, Prefijo, Marcar
<1>6. InvDump'
  BY <1>1, <1>2 DEF Inv, TypeOK, InvDump, Marcar
<1>7. QED
  BY <1>3, <1>5, <1>6 DEF Inv

LEMMA PersistirConserva == Inv /\ Persistir => Inv'
<1> SUFFICES ASSUME Inv, Persistir PROVE Inv'
  OBVIOUS
<1>1. /\ dump.base \in Nat /\ dump.cantidad \in Nat
      /\ bitmap = 0..(dump.base + dump.cantidad) /\ bitmapDisco = 0..(dump.base - 1)
  BY DiscoOK DEF Inv, TypeOK, InvDump, Persistir, Bloques
<1>2. bitmapDisco \subseteq bitmapDisco'
  BY <1>1 DEF Persistir
<1>3. TypeOK'
  BY DEF Inv, TypeOK, Persistir, Pasos
<1>4. InvDisco' /\ DumpDurable'
  BY <1>2 DEF Inv, InvDisco, DumpDurable, SinSolapamiento, Prefijo, Persistir
<1>5. \A a \in metadatos : Ocupa(a) \subseteq 0..(dump.base - 1)
  BY <1>1 DEF Inv, InvDisco, SinSolapamiento
<1>6. InvDump'
  BY <1>1, <1>5 DEF Inv, TypeOK, InvDump, Persistir
<1>7. QED
  BY <1>3, <1>4, <1>6 DEF Inv

LEMMA CrearMetadataConserva == Inv /\ CrearMetadata => Inv'
<1> SUFFICES ASSUME Inv, CrearMetadata PROVE Inv'
  OBVIOUS
<1>1. /\ dump.base \in Bloques /\ dump.cantidad \in Nat \ {0} /\ dump.id \in Ids
      /\ bitmapDisco = 0..(dump.base + dump.cantidad)
      /\ \A a \in metadatos : a.id # dump.id /\ Ocupa(a) \subseteq 0..(dump.base - 1)
      /\ metadatos' = metadatos \cup {Registro}
  BY DEF Inv, TypeOK, InvDump, CrearMetadata, Registro
<1>2. Registro \in Archivos /\ Registro.id = dump.id
      /\ Ocupa(Registro) = dump.base..(dump.base + dump.cantidad)
  BY <1>1 DEF Registro, Archivos, Ocupa
<1>3. TypeOK'
  BY <1>1, <1>2 DEF Inv, TypeOK, CrearMetadata, Pasos
<1>4. SinSolapamiento'
  <2>1. Ocupa(Registro) \subseteq bitmapDisco /\ \A a \in metadatos : Ocupa(a) \cap Ocupa(Registro) = {}
    BY <1>1, <1>2, DiscoOK DEF Bloques
  <2>2. bitmapDisco' = bitmapDisco
    BY DEF CrearMetadata
  <2>3. QED
    BY <1>1, <2>1, <2>2 DEF Inv, InvDisco, SinSolapamiento
<1>5. InvDisco'
  BY <1>1, <1>2, <1>4 DEF Inv, InvDisco, Prefijo, CrearMetadata
<1>6. DumpDurable'
  BY <1>1 DEF Inv, DumpDurable, CrearMetadata
<1>7. InvDump'
  BY <1>1 DEF Inv, TypeOK, InvDump, CrearMetadata, Registro
<1>8. QED
  BY <1>3, <1>5, <1>6, <1>7 DEF Inv

\* What a write to block base + i of the dump in course does to the others.
LEMMA EscribirAjeno ==
  ASSUME Inv, Registro \in metadatos, dump.paso \in {"indice", "datos"},
         NEW i \in 0..dump.cantidad, NEW x,
         bloques' = [bloques EXCEPT ![dump.base + i] = x],
         UNCHANGED <<metadatos, respondidos>>
  PROVE  DumpDurable'
<1> SUFFICES ASSUME NEW id \in respondidos
             PROVE  \E a \in metadatos :
                      /\ a.id = id
                      /\ \A k \in 0..a.cantidad :
                           bloques'[a.base + k].archivo = id /\ bloques'[a.base + k].parte = k
  BY DEF DumpDurable
<1>1. PICK a \in metadatos :
         /\ a.id = id
         /\ \A k \in 0..a.cantidad :
              bloques[a.base + k].archivo = id /\ bloques[a.base + k].parte = k
  BY DEF Inv, DumpDurable
<1>2. a # Registro
  BY <1>1 DEF Inv, InvDump, Registro
<1>3. Ocupa(a) \cap Ocupa(Registro) = {}
  BY <1>1, <1>2 DEF Inv, InvDisco, SinSolapamiento
<1>4. a \in Archivos /\ dump.base \in Nat /\ dump.cantidad \in Nat
  BY <1>1, DiscoOK DEF Inv, TypeOK, InvDump, Bloques
<1>5. a.base \in Nat /\ a.cantidad \in Nat
  BY <1>4, DiscoOK DEF Archivos, Bloques
<1>6. dump.base + i \in Ocupa(Registro)
  BY <1>4 DEF Ocupa, Registro
<1>7. \A k \in 0..a.cantidad : a.base + k \in Ocupa(a)
  BY <1>5 DEF Ocupa
<1>8. \A k \in 0..a.cantidad : a.base + k # dump.base + i
  BY <1>3, <1>6, <1>7
<1>9. \A k \in 0..a.cantidad : a.base + k \in Bloques
  <2>1. \A k \in 0..a.cantidad : a.base + k \in bitmapDisco
    BY <1>1, <1>7 DEF Inv, InvDisco, SinSolapamiento
  <2>2. QED
    BY <2>1 DEF Inv, TypeOK
<1>10. \A k \in 0..a.cantidad : bloques'[a.base + k] = bloques[a.base + k]
  BY <1>8, <1>9 DEF Inv, TypeOK
<1>11. QED
  BY <1>1, <1>10

LEMMA EscribirIndiceConserva == Inv /\ EscribirIndice => Inv'
<1> SUFFICES ASSUME Inv, EscribirIndice PROVE Inv'
  OBVIOUS
<1>1. /\ dump.base \in Nat /\ dump.base \in Bloques /\ dump.cantidad \in Nat \ {0} /\ dump.id \in Nat
      /\ Registro \in metadatos /\ dump.paso = "indice"
  BY DiscoOK DEF Inv, TypeOK, InvDump, EscribirIndice, Bloques
<1>2. TypeOK'
  <2>1. [archivo |-> dump.id, parte |-> 0, punteros |-> {dump.base + 1}]
          \in [archivo : Nat, parte : Nat, punteros : SUBSET Nat]
    BY <1>1
  <2>2. bloques' \in [Bloques -> [archivo : Nat, parte : Nat, punteros : SUBSET Nat]]
    BY <1>1, <2>1 DEF Inv, TypeOK, EscribirIndice
  <2>3. dump' \in [paso : Pasos, id : Nat, cantidad : Nat, base : Bloques, i : Nat]
    BY <1>1 DEF Inv, TypeOK, EscribirIndice, Pasos
  <2>4. QED
    BY <2>2, <2>3 DEF Inv, TypeOK, EscribirIndice
<1>3. DumpDurable'
  <2> DEFINE x == [archivo |-> dump.id, parte |-> 0, punteros |-> {dump.base + 1}]
  <2>1. 0 \in 0..dump.cantidad /\ dump.base + 0 = dump.base
    BY <1>1
  <2>2. bloques' = [bloques EXCEPT ![dump.base + 0] = x]
    BY <2>1 DEF EscribirIndice
  <2>3. UNCHANGED <<metadatos, respondidos>>
    BY DEF EscribirIndice
  <2> HIDE DEF x
  <2>4. QED
    BY <1>1, <2>1, <2>2, <2>3, EscribirAjeno
<1>4. InvDisco'
  BY DEF Inv, InvDisco, SinSolapamiento, Prefijo, EscribirIndice
<1>5. Registro' = Registro
  BY DEF EscribirIndice, Registro, Inv, TypeOK
<1>6. Escritos(Registro, 0)'
  BY <1>1, <1>5 DEF Escritos, Registro, EscribirIndice, Inv, TypeOK
<1>7. InvDump'
  BY <1>1, <1>5, <1>6 DEF Inv, TypeOK, InvDump, EscribirIndice
<1>8. QED
  BY <1>2, <1>3, <1>4, <1>7 DEF Inv

LEMMA EscribirBloqueConserva == Inv /\ EscribirBloque => Inv'
<1> SUFFICES ASSUME Inv, EscribirBloque PROVE Inv'
  OBVIOUS
<1>1. /\ dump.base \in Nat /\ dump.cantidad \in Nat \ {0} /\ dump.id \in Nat
      /\ dump.i \in 1..dump.cantidad /\ dump.base + dump.i \in Bloques
      /\ Registro \in metadatos /\ dump.paso = "datos"
  BY DiscoOK DEF Inv, TypeOK, InvDump, EscribirBloque, Bloques
<1>2. TypeOK'
  <2>1. [archivo |-> dump.id, parte |-> dump.i, punteros |-> {}]
          \in [archivo : Nat, parte : Nat, punteros : SUBSET Nat]
    BY <1>1
  <2>2. bloques' \in [Bloques -> [archivo : Nat, parte : Nat, punteros : SUBSET Nat]]
    BY <1>1, <2>1 DEF Inv, TypeOK, EscribirBloque
  <2>3. dump' \in [paso : Pasos, id : Nat, cantidad : Nat, base : Bloques, i : Nat]
    <3> DEFINE p == IF dump.i = dump.cantidad THEN "responde" ELSE "datos"
    <3>1. p \in Pasos /\ dump.i + 1 \in Nat
      BY <1>1 DEF Pasos
    <3>2. dump' = [dump EXCEPT !.i = dump.i + 1, !.paso = p]
      BY DEF EscribirBloque
    <3> HIDE DEF p
    <3>3. QED
      BY <3>1, <3>2 DEF Inv, TypeOK
  <2>4. QED
    BY <2>2, <2>3 DEF Inv, TypeOK, EscribirBloque
<1>3. DumpDurable'
  <2> DEFINE x == [archivo |-> dump.id, parte |-> dump.i, punteros |-> {}]
  <2>1. /\ bloques' = [bloques EXCEPT ![dump.base + dump.i] = x]
        /\ UNCHANGED <<metadatos, respondidos>>
    BY DEF EscribirBloque
  <2>2. dump.i \in 0..dump.cantidad
    BY <1>1
  <2> HIDE DEF x
  <2>3. QED
    BY <1>1, <2>1, <2>2, EscribirAjeno
<1>4. InvDisco'
  BY DEF Inv, InvDisco, SinSolapamiento, Prefijo, EscribirBloque
<1>5. Registro' = Registro
  BY DEF EscribirBloque, Registro, Inv, TypeOK
<1>6. \A i \in 0..dump.i : bloques'[dump.base + i].archivo = dump.id /\ bloques'[dump.base + i].parte = i
  <2> SUFFICES ASSUME NEW i \in 0..dump.i
               PROVE  bloques'[dump.base + i].archivo = dump.id /\ bloques'[dump.base + i].parte = i
    OBVIOUS
  <2>1. CASE i = dump.i
    BY <1>1, <2>1 DEF EscribirBloque, Inv, TypeOK
  <2>2. CASE i < dump.i
    <3>1. i \in 0..(dump.i - 1) /\ Registro.base = dump.base /\ Registro.id = dump.id
      BY <1>1, <2>2 DEF Registro
    <3>2. bloques[dump.base + i].archivo = dump.id /\ bloques[dump.base + i].parte = i
      BY <1>1, <3>1 DEF Inv, InvDump, Escritos
    <3>3. bloques'[dump.base + i] = bloques[dump.base + i]
      <4>1. dump.base + i # dump.base + dump.i /\ dump.base + i \in Bloques
        BY <1>1, <2>2, DiscoOK DEF Bloques
      <4>2. QED
        BY <4>1 DEF EscribirBloque, Inv, TypeOK
    <3>4. QED
      BY <3>2, <3>3
  <2>3. QED
    BY <1>1, <2>1, <2>2
<1>7. InvDump'
  <2>1. CASE dump.i = dump.cantidad
    <3>1. dump'.paso = "responde"
      BY <2>1 DEF EscribirBloque, Inv, TypeOK
    <3>2. Escritos(Registro, dump.cantidad)'
      BY <1>1, <1>5, <1>6, <2>1 DEF Escritos, Registro, EscribirBloque, Inv, TypeOK
    <3>3. QED
      BY <1>1, <1>5, <3>1, <3>2 DEF Inv, TypeOK, InvDump, EscribirBloque
  <2>2. CASE dump.i < dump.cantidad
    <3>1. dump'.paso = "datos" /\ dump'.i = dump.i + 1 /\ dump'.i \in 1..dump.cantidad
      BY <1>1, <2>2 DEF EscribirBloque, Inv, TypeOK
    <3>2. Escritos(Registro, dump.i - 1)'
      BY <1>1, <1>5, <1>6, <3>1 DEF Escritos, Registro, EscribirBloque, Inv, TypeOK
    <3>3. QED
      BY <1>1, <1>5, <3>1, <3>2 DEF Inv, TypeOK, InvDump, EscribirBloque
  <2>3. QED
    BY <1>1, <2>1, <2>2
<1>8. QED
  BY <1>2, <1>3, <1>4, <1>7 DEF Inv

LEMMA ResponderConserva == Inv /\ Responder => Inv'
<1> SUFFICES ASSUME Inv, Responder PROVE Inv'
  OBVIOUS
<1>1. Registro \in metadatos /\ Escritos(Registro, dump.cantidad) /\ dump.id \in Ids
  BY DEF Inv, InvDump, Responder
<1>2. 0 \in Bloques
  BY DiscoOK DEF Bloques
<1>3. TypeOK'
  BY <1>1, <1>2 DEF Inv, TypeOK, Responder, Reposo, Pasos
<1>4. DumpDurable'
  BY <1>1 DEF Inv, DumpDurable, Responder, Escritos, Registro
<1>5. InvDisco'
  BY DEF Inv, InvDisco, SinSolapamiento, Prefijo, Responder
<1>6. InvDump'
  BY DEF Inv, InvDump, Responder, Reposo
<1>7. QED
  BY <1>3, <1>4, <1>5, <1>6 DEF Inv

-----------------------------------------------------------------------------
(* Deaths *)

LEMMA CaerConserva == Inv /\ Caer => Inv'
<1> SUFFICES ASSUME Inv, Caer PROVE Inv'
  OBVIOUS
<1>1. 0 \in Bloques
  BY DiscoOK DEF Bloques
<1>2. TypeOK'
  <2>1. Reposo \in [paso : Pasos, id : Nat, cantidad : Nat, base : Bloques, i : Nat]
    BY <1>1 DEF Reposo, Pasos
  <2>2. arriba' \in BOOLEAN
    BY Zenon DEF Caer
  <2>3. caidas' \in Nat
    BY DEF Inv, TypeOK, Caer
  <2>4. QED
    BY <2>1, <2>2, <2>3 DEF Inv, TypeOK, Caer
<1>3. InvDisco' /\ DumpDurable'
  BY DiscoIgual DEF Inv, Caer
<1>4. InvDump'
  BY DEF Inv, InvDump, Caer, Reposo
<1>5. QED
  BY <1>2, <1>3, <1>4 DEF Inv

LEMMA LevantarConserva == Inv /\ Levantar => Inv'
<1> SUFFICES ASSUME Inv, Levantar PROVE Inv'
  OBVIOUS
<1>1. TypeOK'
  BY DEF Inv, TypeOK, Levantar
<1>2. InvDisco'
  BY DEF Inv, InvDisco, SinSolapamiento, Prefijo, Levantar
<1>3. DumpDurable'
  BY DEF Inv, DumpDurable, Levantar
<1>4. InvDump'
  BY DEF Inv, InvDump, Levantar, Reposo
<1>5. QED
  BY <1>1, <1>2, <1>3, <1>4 DEF Inv

-----------------------------------------------------------------------------
(* Theorems *)

LEMMA InvSeConserva == Inv /\ [Next]_vars => Inv'
<1> SUFFICES ASSUME Inv, [Next]_vars PROVE Inv'
  OBVIOUS
<1>1. CASE \E id \in Ids, c \in Cantidades : Pedir(id, c)
  BY <1>1, PedirConserva
<1>2. CASE Atender
  BY <1>2, BuscarEspacioConserva, MarcarConserva, PersistirConserva, CrearMetadataConserva,
     EscribirIndiceConserva, EscribirBloqueConserva, ResponderConserva DEF Atender
<1>3. CASE Caer \/ Levantar
  BY <1>3, CaerConserva, LevantarConserva
<1>4. CASE UNCHANGED vars
  BY <1>4 DEF vars, Inv, TypeOK, InvDisco, SinSolapamiento, Prefijo, InvDump, Registro, Escritos,
     DumpDurable
<1>5. QED
  BY <1>1, <1>2, <1>3, <1>4 DEF Next

LEMMA InvSiempre == Spec => []Inv
BY InvInicial, InvSeConserva, PTL DEF Spec

\* attend_dump_memory and the files it writes keep their types.
THEOREM TiposDelDisco == Spec => []TypeOK
<1>1. Inv => TypeOK
  BY DEF Inv
<1>2. QED
  BY <1>1, InvSiempre, PTL

\* No block of bloques.dat belongs to two files, whenever the filesystem dies
\* between two writes of attend_dump_memory and whatever it had written.
THEOREM BloquesDeUnSoloArchivo == Spec => []SinSolapamiento
<1>1. Inv => SinSolapamiento
  BY DEF Inv, InvDisco
<1>2. QED
  BY <1>1, InvSiempre, PTL

\* bitmap_obtener_bloques_libres finds a run whenever hay_espacio_en_bitmap said
\* there is room, and the bit after the run is clear too.
THEOREM SiempreHayBase == Spec => []HayBase
<1>1. Inv => HayBase
  BY HayBaseSiPrefijo, DiscoOK DEF Inv
<1>2. QED
  BY <1>1, InvSiempre, PTL

\* A dump that was answered 1 stays whole on disk through later dumps and deaths.
THEOREM DumpsDurables == Spec => []DumpDurable
<1>1. Inv => DumpDurable
  BY DEF Inv
<1>2. QED
  BY <1>1, InvSiempre, PTL
=============================================================================
