--------------------------- MODULE MCStringTable ---------------------------
(* Six texts: enough for the table to grow beyond its four slots. Some     *)
(* collide in every size, some only in the first. Addresses are            *)
(* interchangeable; there is one for every text.                           *)
EXTENDS StringTable, TLC

CONSTANTS p1, p2, p3, p4, p5, p6
MCAddresses == {p1, p2, p3, p4, p5, p6}
MCSymmetry == Permutations(MCAddresses)

MCHash == [t \in Texts |-> CASE t = "a" -> 0 [] t = "b" -> 8 [] t = "c" -> 4 [] t = "d" -> 1 [] t = "e" -> 5 [] t = "f" -> 3]
=============================================================================
