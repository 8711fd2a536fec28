------------------------------- MODULE DumpFS -------------------------------
(***************************************************************************)
(* The filesystem: attend_dump_memory, from the request for a memory dump  *)
(* to its answer, over bitmap.dat, the metadata files and bloques.dat.     *)
(*                                                                         *)
(* The kernel's dispatch thread waits for the end of a dump before it      *)
(* serves anything else, so one dump is in course at a time.  The process  *)
(* may die between any two steps; it starts again from what is on disk     *)
(* (the files survive the process: its writes are not lost with it).       *)
(* Files are never deleted.                                                *)
(***************************************************************************)
EXTENDS Naturals, FiniteSets

CONSTANTS
  BLOCK_COUNT,   \* blocks of bloques.dat
  Cantidades,    \* data blocks a dump may need: its size, rounded up
  MaxDumps,      \* bound: dumps ever asked
  MaxCaidas      \* bound: deaths of the process

\* bitmap.dat has BLOCK_COUNT / 8 bytes; the configurations give multiples of 8.
ASSUME DiscoOK ==
  /\ BLOCK_COUNT \in Nat \ {0} /\ BLOCK_COUNT % 8 = 0
  /\ Cantidades \subseteq Nat \ {0}
  /\ MaxDumps \in Nat /\ MaxCaidas \in Nat

VARIABLES
  arriba,       \* the process runs
  bitmap,       \* blocks whose bit is set, in memory
  bitmapDisco,  \* the same in bitmap.dat
  metadatos,    \* the files of MOUNT_DIR/files
  bloques,      \* what each block of bloques.dat holds
  dump,         \* attend_dump_memory: its step and its locals
  respondidos,  \* dumps answered 1 to memoria
  rechazados,   \* dumps answered 0
  caidas

vars == <<arriba, bitmap, bitmapDisco, metadatos, bloques, dump, respondidos, rechazados,
          caidas>>

Bloques == 0..(BLOCK_COUNT - 1)
Ids     == 1..MaxDumps

Vacio == [archivo |-> 0, parte |-> 0, punteros |-> {}]
Reposo == [paso |-> "reposo", id |-> 0, cantidad |-> 0, base |-> 0, i |-> 0]
Pasos == {"reposo", "espacio", "marca", "persiste", "metadata", "indice", "datos", "responde"}

\* Names carry pid, tid and time: every dump has its own.
Pedidos == {dump.id} \cup respondidos \cup rechazados \cup {a.id : a \in metadatos}

Init ==
  /\ arriba = TRUE
  /\ bitmap = {} /\ bitmapDisco = {}
  /\ metadatos = {}
  /\ bloques = [b \in Bloques |-> Vacio]
  /\ dump = Reposo
  /\ respondidos = {} /\ rechazados = {}
  /\ caidas = 0

\* DUMP_MEMORY_MF arrives.
Pedir(id, c) ==
  /\ arriba /\ dump.paso = "reposo"
  /\ id \notin Pedidos
  /\ dump' = [paso |-> "espacio", id |-> id, cantidad |-> c, base |-> 0, i |-> 0]
  /\ UNCHANGED <<arriba, bitmap, bitmapDisco, metadatos, bloques, respondidos, rechazados,
                 caidas>>

\* Mutant: one block less is enough.
HayEspacioJusto(c) == Cardinality(Bloques \ bitmap) + 1 >= c

\* hay_espacio_en_bitmap: so many bits are clear, wherever they are.
HayEspacio(c) == Cardinality(Bloques \ bitmap) >= c

\* bitmap_obtener_bloques_libres: the first run of c clear bits.
Libres(b, c) == \A j \in b..(b + c - 1) : j \in Bloques \ bitmap
EsBase(b, c) == Libres(b, c) /\ \A a \in Bloques : a < b => ~Libres(a, c)

\* The check asks for room for the data and the index; the search for the data.
BuscarEspacio ==
  /\ arriba /\ dump.paso = "espacio"
  /\ \/ /\ ~HayEspacio(dump.cantidad + 1)
        /\ rechazados' = rechazados \cup {dump.id}
        /\ dump' = Reposo
     \/ /\ HayEspacio(dump.cantidad + 1)
        /\ \E b \in Bloques :
             /\ EsBase(b, dump.cantidad)
             /\ dump' = [dump EXCEPT !.paso = "marca", !.base = b]
        /\ UNCHANGED rechazados
  /\ UNCHANGED <<arriba, bitmap, bitmapDisco, metadatos, bloques, respondidos, caidas>>

\* Mutants: one bit too many; the bit of the index block is not set.
MarcarDeMas ==
  /\ arriba /\ dump.paso = "marca"
  /\ bitmap' = bitmap \cup (dump.base..(dump.base + dump.cantidad + 1))
  /\ dump' = [dump EXCEPT !.paso = "persiste"]
  /\ UNCHANGED <<arriba, bitmapDisco, metadatos, bloques, respondidos, rechazados, caidas>>

MarcarSinIndice ==
  /\ arriba /\ dump.paso = "marca"
  /\ bitmap' = bitmap \cup (dump.base..(dump.base + dump.cantidad - 1))
  /\ dump' = [dump EXCEPT !.paso = "persiste"]
  /\ UNCHANGED <<arriba, bitmapDisco, metadatos, bloques, respondidos, rechazados, caidas>>

\* bitmap_escribir_archivo sets a bit more than the search looked at.
Marcar ==
  /\ arriba /\ dump.paso = "marca"
  /\ bitmap' = bitmap \cup (dump.base..(dump.base + dump.cantidad))
  /\ dump' = [dump EXCEPT !.paso = "persiste"]
  /\ UNCHANGED <<arriba, bitmapDisco, metadatos, bloques, respondidos, rechazados, caidas>>

\* Mutant: bitmap.dat is not written back.
NoPersistir ==
  /\ arriba /\ dump.paso = "persiste"
  /\ dump' = [dump EXCEPT !.paso = "metadata"]
  /\ UNCHANGED <<arriba, bitmap, bitmapDisco, metadatos, bloques, respondidos, rechazados,
                 caidas>>

\* bitmap_modificar_archivo_bitmap writes the whole bitmap.
Persistir ==
  /\ arriba /\ dump.paso = "persiste"
  /\ bitmapDisco' = bitmap
  /\ dump' = [dump EXCEPT !.paso = "metadata"]
  /\ UNCHANGED <<arriba, bitmap, metadatos, bloques, respondidos, rechazados, caidas>>

CrearMetadata ==
  /\ arriba /\ dump.paso = "metadata"
  /\ metadatos' = metadatos \cup
       {[id |-> dump.id, base |-> dump.base, cantidad |-> dump.cantidad]}
  /\ dump' = [dump EXCEPT !.paso = "indice"]
  /\ UNCHANGED <<arriba, bitmap, bitmapDisco, bloques, respondidos, rechazados, caidas>>

\* blockFile_escribir_archivo_indices copies sizeof(bloque_index) = 8 bytes of
\* what generar_bloque_index built 16 bytes apart: the first pointer.
EscribirIndice ==
  /\ arriba /\ dump.paso = "indice"
  /\ bloques' = [bloques EXCEPT ![dump.base] =
       [archivo |-> dump.id, parte |-> 0, punteros |-> {dump.base + 1}]]
  /\ dump' = [dump EXCEPT !.paso = "datos", !.i = 1]
  /\ UNCHANGED <<arriba, bitmap, bitmapDisco, metadatos, respondidos, rechazados, caidas>>

\* Mutant: the loop over the blocks has no end but the count.
EscribirSinFin ==
  /\ arriba /\ dump.paso = "datos" /\ dump.i <= dump.cantidad
  /\ bloques' = [bloques EXCEPT ![dump.base + dump.i] =
       [archivo |-> dump.id, parte |-> dump.i, punteros |-> {}]]
  /\ dump' = [dump EXCEPT !.i = @ + 1]
  /\ UNCHANGED <<arriba, bitmap, bitmapDisco, metadatos, respondidos, rechazados, caidas>>

\* blockFile_escribir_archivo, one block and its msync at a time.
EscribirBloque ==
  /\ arriba /\ dump.paso = "datos"
  /\ bloques' = [bloques EXCEPT ![dump.base + dump.i] =
       [archivo |-> dump.id, parte |-> dump.i, punteros |-> {}]]
  /\ dump' = [dump EXCEPT !.i = @ + 1,
                          !.paso = IF dump.i = dump.cantidad THEN "responde" ELSE "datos"]
  /\ UNCHANGED <<arriba, bitmap, bitmapDisco, metadatos, respondidos, rechazados, caidas>>

Responder ==
  /\ arriba /\ dump.paso = "responde"
  /\ respondidos' = respondidos \cup {dump.id}
  /\ dump' = Reposo
  /\ UNCHANGED <<arriba, bitmap, bitmapDisco, metadatos, bloques, rechazados, caidas>>

Caer ==
  /\ arriba /\ caidas < MaxCaidas
  /\ arriba' = FALSE
  /\ dump' = Reposo
  /\ caidas' = caidas + 1
  /\ UNCHANGED <<bitmap, bitmapDisco, metadatos, bloques, respondidos, rechazados>>

\* inicializar_estructuras_fs finds MOUNT_DIR and loads bitmap.dat.
Levantar ==
  /\ ~arriba
  /\ arriba' = TRUE
  /\ bitmap' = bitmapDisco
  /\ UNCHANGED <<bitmapDisco, metadatos, bloques, dump, respondidos, rechazados, caidas>>

Atender ==
  \/ BuscarEspacio \/ Marcar \/ Persistir \/ CrearMetadata \/ EscribirIndice
  \/ EscribirBloque \/ Responder

Next ==
  \/ \E id \in Ids, c \in Cantidades : Pedir(id, c)
  \/ Atender
  \/ Caer \/ Levantar

Spec == Init /\ [][Next]_vars

SpecJusta == Spec /\ WF_vars(Atender)

-----------------------------------------------------------------------------
(* Properties *)

Archivos == [id : Ids, base : Bloques, cantidad : Nat \ {0}]

\* Types of the disk, of the bitmap and of the request in course.
TypeOK ==
  /\ arriba \in BOOLEAN
  /\ bitmap \subseteq Bloques /\ bitmapDisco \subseteq Bloques
  /\ metadatos \subseteq Archivos
  /\ bloques \in [Bloques -> [archivo : Nat, parte : Nat, punteros : SUBSET Nat]]
  /\ dump \in [paso : Pasos, id : Nat, cantidad : Nat, base : Bloques, i : Nat]
  /\ respondidos \subseteq Ids /\ rechazados \subseteq Ids
  /\ caidas \in Nat

Ocupa(a) == a.base..(a.base + a.cantidad)

\* No block belongs to two files, through any number of deaths and restarts:
\* the bits reach bitmap.dat before the metadata names the blocks, and the bit
\* that the search does not look at is clear too.
SinSolapamiento ==
  /\ \A a \in metadatos : Ocupa(a) \subseteq bitmapDisco
  /\ \A a, b \in metadatos : a # b => Ocupa(a) \cap Ocupa(b) = {}

\* When the check finds room the search finds a run: base_bloque is never the
\* -1 that attend_dump_memory only reports, and the room reaches the index too.
HayBase ==
  dump.paso = "espacio" /\ HayEspacio(dump.cantidad + 1) =>
    \E b \in Bloques : EsBase(b, dump.cantidad) /\ Libres(b, dump.cantidad + 1)

\* A dump answered 1 is on disk, whole, and stays so: neither later dumps nor
\* deaths touch its blocks.
DumpDurable ==
  \A id \in respondidos :
    \E a \in metadatos :
      /\ a.id = id
      /\ \A i \in 0..a.cantidad :
           bloques[a.base + i].archivo = id /\ bloques[a.base + i].parte = i

\* A dump that the process survives is answered.
TodoDumpSeResponde ==
  \A id \in Ids :
    dump.id = id ~> (id \in respondidos \/ id \in rechazados \/ ~arriba)

\* "aca hay que escribir todos los indices": the index block of a dump points
\* at all its data blocks.
IndiceCompleto ==
  \A id \in respondidos : \E a \in metadatos :
    a.id = id /\ bloques[a.base].punteros = (a.base + 1)..(a.base + a.cantidad)
=============================================================================
