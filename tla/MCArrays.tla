------------------------------ MODULE MCArrays ------------------------------
(* The arrays of up to three elements, some with four different ones, and  *)
(* one that has lost so many elements that the next loss shrinks it.       *)
EXTENDS Arrays

MCStarts ==
  {[vals |-> s, cap |-> Len(s)] : s \in UNION {[1 .. n -> {1, 2}] : n \in 0 .. 3}
                                        \cup {p \in [1 .. 4 -> 1 .. 4] : Cardinality(ToSet(p)) = 4 /\ p[1] < p[2]}}
  \cup {[vals |-> <<1, 2, 1, 2, 1, 2, 1>>, cap |-> 24]}
=============================================================================
