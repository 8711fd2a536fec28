-------------------------------- MODULE MCHilos --------------------------------
EXTENDS Hilos, TLC

\* The names of the mutexes are interchangeable.
Simetria == Permutations(Mutexes)
=============================================================================
