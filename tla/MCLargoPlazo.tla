----------------------------- MODULE MCLargoPlazo -----------------------------
(* A small instance of LargoPlazo for TLC. *)
EXTENDS LargoPlazo

\* Unequal fixed partitions out of order, as in memoria's par_fijas
\* configurations.
Fijas == <<1, 3, 2>>
=============================================================================
