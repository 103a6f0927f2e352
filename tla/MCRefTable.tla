----------------------------- MODULE MCRefTable -----------------------------
(***************************************************************************)
(* RefTable with four objects and two initial slots, so that the third     *)
(* object makes the table grow to four slots.  Under the mask of two slots *)
(* o1, o2 and o3 share a chain; under the mask of four, o3 parts from o1   *)
(* and o2.                                                                 *)
(***************************************************************************)
EXTENDS RefTable

CONSTANTS o1, o2, o3, o4

MCObjs == {o1, o2, o3, o4}
MCHash == [o \in MCObjs |-> CASE o = o1 -> 0
                              [] o = o2 -> 4
                              [] o = o3 -> 2
                              [] o = o4 -> 3]
=============================================================================
