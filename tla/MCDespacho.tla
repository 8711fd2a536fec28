------------------------------ MODULE MCDespacho ------------------------------
(* Small instances of Despacho for TLC. *)
EXTENDS Despacho

\* One process with two threads, or three processes of one.
DosHilos     == {<<0, 0>>, <<0, 1>>}
TresProcesos == {<<0, 0>>, <<1, 0>>, <<2, 0>>}

\* All alike; or the main thread has the best priority, as
\* crear_proceso_inicial gives it.
Iguales    == [h \in Hilos |-> 1]
PorNumero  == [h \in Hilos |-> 2 * h[2]]
SoloIguales == {Iguales}
Varias      == {Iguales, PorNumero}

\* Round robin with different priorities (despacho_turnos has it with equal
\* ones), the other algorithms with both.
InitVarias == Init /\ (algoritmo = "CMN" => prioridad = PorNumero)
=============================================================================
