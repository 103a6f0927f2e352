-------------------------------- MODULE SqMap --------------------------------
(***************************************************************************)
(* What a Squirrel table promises its users: a finite map from keys to     *)
(* values, changed one slot at a time.  SqTable, the hash table of         *)
(* sqtable.cpp, is shown to implement it.                                  *)
(***************************************************************************)
CONSTANTS Keys, Vals

VARIABLES map     \* a function whose domain is the set of present keys

Empty == [k \in {} |-> k]

MInit == map = Empty

\* t[k] <- v, which creates the slot or overwrites it, and t[k] = v, which
\* overwrites a slot that is present.
Put(m, k, v) == [x \in DOMAIN m \cup {k} |-> IF x = k THEN v ELSE m[x]]

\* delete t[k]
Without(m, k) == [x \in DOMAIN m \ {k} |-> m[x]]

\* What one operation can make of the map m.
Changes(m) == {Put(m, k, v) : k \in Keys, v \in Vals}
                \cup {Without(m, k) : k \in DOMAIN m}
                \cup {Empty}

MNext == map' \in Changes(map)

MSpec == MInit /\ [][MNext]_map
=============================================================================
