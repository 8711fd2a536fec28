------------------------------ MODULE MCCerrojos ------------------------------
(* Small instances of Cerrojos for TLC. *)
EXTENDS Cerrojos, TLC
=============================================================================
