--------------------------- MODULE MemoriaDeUsuario ---------------------------
(***************************************************************************)
(* What memoria promises the kernel about the user memory, whatever the    *)
(* scheme and the search: a process gets a run of free bytes at least as   *)
(* long as it asked for, nobody else gets any of them while it lives, and  *)
(* they are all free again when it ends.                                   *)
(***************************************************************************)
EXTENDS Integers

CONSTANTS Bytes,    \* addresses of the user memory
          Pids,
          Libre,    \* no process
          Tamanios

VARIABLE duenio     \* whose each byte is

De(p) == {x \in Bytes : duenio[x] = p}

Init == duenio = [x \in Bytes |-> Libre]

Ocupar(p, t) ==
  /\ De(p) = {}
  /\ \E a, b \in Bytes :
       /\ b - a >= t - 1 /\ a <= b
       /\ \A x \in a..b : duenio[x] = Libre
       /\ duenio' = [x \in Bytes |-> IF x \in a..b THEN p ELSE duenio[x]]

Liberar(p) ==
  /\ De(p) # {}
  /\ duenio' = [x \in Bytes |-> IF duenio[x] = p THEN Libre ELSE duenio[x]]

Next == \E p \in Pids : Liberar(p) \/ \E t \in Tamanios : Ocupar(p, t)

Spec == Init /\ [][Next]_duenio
=============================================================================
