-------------------------------- MODULE Listas --------------------------------
(***************************************************************************)
(* The operations of the commons list (t_list) that the modules need and   *)
(* that the provers have to see through, so none of them is recursive.     *)
(***************************************************************************)
EXTENDS Naturals, Sequences

\* h is an element of the list (list_any_satisfy with an equality test).
EnLista(l, h) == \E i \in 1..Len(l) : l[i] = h

\* list_remove(l, k - 1): the list without its k-th element.
SinIndice(l, k) ==
  [i \in 1..(Len(l) - 1) |-> IF i < k THEN l[i] ELSE l[i + 1]]

\* First position of h in l.
PosicionDe(l, h) ==
  CHOOSE i \in 1..Len(l) : l[i] = h /\ \A j \in 1..(i - 1) : l[j] # h

\* list_remove_element(l, h): l without the first occurrence of h, if any.
Quitar(l, h) == IF EnLista(l, h) THEN SinIndice(l, PosicionDe(l, h)) ELSE l

\* list_add_in_index(l, k - 1, x): x becomes the k-th element.
Insertar(l, k, x) ==
  [i \in 1..(Len(l) + 1) |-> IF i < k THEN l[i] ELSE IF i = k THEN x ELSE l[i - 1]]

\* The elements from a to b are removed and x put in their place.
Reemplazar(l, a, b, x) ==
  [i \in 1..(Len(l) - (b - a)) |->
     IF i < a THEN l[i] ELSE IF i = a THEN x ELSE l[i + (b - a)]]

\* Mutant: the elements with the same key come out the other way round.
OrdenesInestables(l, Clave) ==
  { p \in [1..Len(l) -> 1..Len(l)] :
      \A i, j \in 1..Len(l) : i < j =>
        \/ Clave[l[p[i]]] < Clave[l[p[j]]]
        \/ Clave[l[p[i]]] = Clave[l[p[j]]] /\ p[i] > p[j] }

\* The permutations that sort l by increasing Clave (a function) and keep the order of the
\* elements with the same key (list_sort of the commons is stable).
OrdenesEstables(l, Clave) ==
  { p \in [1..Len(l) -> 1..Len(l)] :
      \A i, j \in 1..Len(l) : i < j =>
        \/ Clave[l[p[i]]] < Clave[l[p[j]]]
        \/ Clave[l[p[i]]] = Clave[l[p[j]]] /\ p[i] < p[j] }

\* The list read in the order of a permutation.
EnOrden(l, p) == [i \in 1..Len(l) |-> l[p[i]]]
=============================================================================
