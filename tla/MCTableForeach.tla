---------------------------- MODULE MCTableForeach ----------------------------
(***************************************************************************)
(* Tables of five keys: under the mask of the four initial nodes k1, k2    *)
(* and k3 collide at node 0 and k4 wants a node that chains run through;   *)
(* the table grows to eight nodes and shrinks back.  Loops run over tables *)
(* of four keys.                                                           *)
(***************************************************************************)
EXTENDS TableForeach

CONSTANTS k1, k2, k3, k4, k5, v1, v2

MCKeys == {k1, k2, k3, k4, k5}
MCVals == {v1, v2}
MCHash == [k \in MCKeys |-> CASE k = k1 -> 0
                              [] k = k2 -> 8
                              [] k = k3 -> 4
                              [] k = k4 -> 3
                              [] k = k5 -> 6]
MCUses == {[keys |-> MCKeys, vals |-> {v1, v2}, loops |-> FALSE],
           [keys |-> MCKeys \ {k5}, vals |-> {v1}, loops |-> TRUE]}
=============================================================================
