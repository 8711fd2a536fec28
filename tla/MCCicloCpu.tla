------------------------------ MODULE MCCicloCpu ------------------------------
(* A small instance of CicloCpu for TLC. *)
EXTENDS CicloCpu, TLC

A == <<0, 0>>
B == <<1, 1>>
DosHilos == {A, B}
AX_BX    == <<"AX", "BX">>

Ins(o, r, s)    == [op |-> o, a |-> r, b |-> s, n |-> 0]
InsN(o, r, v)   == [op |-> o, a |-> r, b |-> "", n |-> v]
Solo(o)         == [op |-> o, a |-> "", b |-> "", n |-> 0]

\* A, the main thread of its process, ends.  B, another thread of its own,
\* subtracts below zero, writes and reads back a word in the byte that follows its
\* partition, waits in a lock, asks for a dump and reads out of its partition.  An
\* interrupt that comes with the error hides it: then B tries to end its process,
\* jumps, uses registers that do not exist, reads a zero into one and, hidden
\* again, ends.
Programas ==
  A :> <<Solo("PROCESS_EXIT")>> @@
  B :> <<InsN("SET", "AX", 3), Ins("SUB", "BX", "AX"), Ins("WRITE_MEM", "AX", "BX"),
         Ins("READ_MEM", "AX", "AX"), Solo("MUTEX_LOCK"), Solo("DUMP_MEMORY"),
         Ins("READ_MEM", "BX", "AX"), Solo("PROCESS_EXIT"), InsN("JNZ", "BX", 10),
         InsN("SET", "ZX", 1), Ins("SUM", "ZX", "ZX"), InsN("SET", "AX", 0),
         Ins("READ_MEM", "ZX", "AX"), Ins("LOG", "AX", ""), Solo("THREAD_EXIT")>>

Bases   == [p \in {0, 1} |-> IF p = 0 THEN 3 ELSE 0]
Limites == [p \in {0, 1} |-> Bases[p] + 2]

\* These programs are what the theorem about the end of memoria asks for.
ASSUME TerminanLosDeAqui == ProgramasQueTerminan
=============================================================================
