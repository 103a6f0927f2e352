------------------------------- MODULE SqTable -------------------------------
(***************************************************************************)
(* struct SQTable (sqtable.h, sqtable.cpp): the hash table behind tables,  *)
(* class members, the registry and the compiler's name tables.  A chained  *)
(* scatter table with Brent's variation: collisions are linked through     *)
(* free nodes of the node array itself, _firstfree runs down the array,    *)
(* and a removed slot keeps its link.                                      *)
(*                                                                         *)
(* A table is a record of the fields of SQTable with the node array split  *)
(* into three functions; a node is named by its index.  NewSlot and Rehash *)
(* call each other in the code: `spilled' records whether a NewSlot that   *)
(* Rehash makes ever needs a second Rehash (it never does).                *)
(***************************************************************************)
EXTENDS Integers, FiniteSets, FiniteSetsExt

CONSTANTS Keys,       \* keys other than null
          Vals,       \* values
          Null,       \* OT_NULL
          Hash,       \* HashObj on Keys
          MinPower2,  \* MINPOWER2, the smallest node array (4 in the code)
          InitSizes   \* the sizes with which tables are created

ASSUME SlotAssumption == Null \notin Keys /\ Null \notin Vals
ASSUME KeyHashAssumption == Hash \in [Keys -> Nat]
ASSUME MinPower2Assumption == MinPower2 \in Nat /\ MinPower2 >= 4

\* The constructor starts from MINPOWER2 and doubles until the size that was
\* asked for fits.
ASSUME InitSizesAssumption ==
  /\ InitSizes \subseteq Nat \ {0}
  /\ \A n \in InitSizes : n = MinPower2 \/ \E m \in InitSizes : n = 2 * m

VARIABLES tbl,        \* the table
          ret         \* what the last NewSlot or Set returned

tvars == <<tbl, ret>>

NoNode == -1          \* a NULL _HashNode*

Nodes(t) == 0 .. t.numofnodes - 1

\* HashObj(key) & (_numofnodes - 1); a null key hashes to the null pointer.
MainPos(t, k) == (IF k = Null THEN 0 ELSE Hash[k]) % t.numofnodes

\* _Get: the first node of the chain of k's main position that holds k.
GetNode(t, k) ==
  LET find[n \in Nodes(t)] ==
        IF t.key[n] = k THEN n
        ELSE IF t.next[n] = NoNode THEN NoNode ELSE find[t.next[n]]
  IN  find[MainPos(t, k)]

AllocNodes(size) ==
  [numofnodes |-> size,
   usednodes  |-> 0,
   firstfree  |-> size - 1,
   key        |-> [n \in 0 .. size - 1 |-> Null],
   val        |-> [n \in 0 .. size - 1 |-> Null],
   next       |-> [n \in 0 .. size - 1 |-> NoNode],
   spilled    |-> FALSE]

\* The node before mp in the chain that starts at h; the assert in the loop says
\* that the chain does not end before it.
Previous(t, h, mp) ==
  LET prev[n \in Nodes(t)] == IF t.next[n] \in {mp, NoNode} THEN n ELSE prev[t.next[n]]
  IN  prev[h]

\* (wrong on purpose) the chain of the moved node is not relinked to it.
MoveWithoutRelink(t, h, mp, n, k) ==
  [t EXCEPT !.key[n] = t.key[mp], !.val[n] = t.val[mp], !.next[n] = t.next[mp],
            !.key[mp] = k, !.val[mp] = Null, !.next[mp] = NoNode]

\* (wrong on purpose) the moved node leaves its value behind.
MoveWithoutValue(t, h, mp, n, k) ==
  [t EXCEPT !.next[Previous(t, h, mp)] = n,
            !.key[n] = t.key[mp], !.next[n] = t.next[mp],
            !.key[mp] = k, !.val[mp] = Null, !.next[mp] = NoNode]

\* The colliding node at mp, out of its main position h, moves to the free
\* place n and leaves mp to k.
MoveColliding(t, h, mp, n, k) ==
  [t EXCEPT !.next[Previous(t, h, mp)] = n,
            !.key[n] = t.key[mp],
            !.val[n] = t.val[mp],
            !.next[n] = t.next[mp],
            !.key[mp] = k,
            !.val[mp] = Null,
            !.next[mp] = NoNode]

\* The middle of NewSlot: k goes to its main position if that is free, or if
\* the node there does not belong to it and can be moved to the free place;
\* otherwise k goes to the free place.  `at' is the node that received k.
Place(t, k) ==
  LET mp == MainPos(t, k)
      n  == t.firstfree
      h  == MainPos(t, t.key[mp])
  IN  IF t.key[mp] = Null
        THEN [at |-> mp, tab |-> [t EXCEPT !.key[mp] = k]]
      ELSE IF mp > n /\ h # mp
        THEN [at |-> mp, tab |-> MoveColliding(t, h, mp, n, k)]
      ELSE [at |-> n,
            tab |-> [t EXCEPT !.next[n] = t.next[mp],
                              !.next[mp] = n,
                              !.key[n] = k]]

\* The nodes at which the loop that corrects _firstfree may stop.
FreePlaces(t) ==
  {n \in 0 .. t.firstfree : t.key[n] = Null /\ t.next[n] = NoNode}

\* NewSlot up to the point where it calls Rehash.
NewSlotOnce(t, k, v) ==
  LET n    == GetNode(t, k)
      p    == Place(t, k)
      free == FreePlaces(p.tab)
  IN  IF n # NoNode
        THEN [tab |-> [t EXCEPT !.val[n] = v], ret |-> FALSE, full |-> FALSE]
      ELSE IF free # {}
        THEN [tab  |-> [p.tab EXCEPT !.val[p.at] = v,
                                     !.usednodes = @ + 1,
                                     !.firstfree = Max(free)],
              ret  |-> TRUE,
              full |-> FALSE]
      ELSE [tab |-> [p.tab EXCEPT !.firstfree = 0], ret |-> FALSE, full |-> TRUE]

\* (wrong on purpose) the table grows only beyond three quarters.
RehashSizeLate(t, force) ==
  LET old == t.numofnodes
  IN  CASE t.usednodes > old - old \div 4 -> old * 2
        [] t.usednodes =< old \div 4 /\ old > MinPower2 -> old \div 2
        [] OTHER -> IF force THEN old ELSE 0

\* The size Rehash allocates; 0 when it leaves the table alone.
RehashSize(t, force) ==
  LET old == t.numofnodes
  IN  CASE t.usednodes >= old - old \div 4 -> old * 2
        [] t.usednodes =< old \div 4 /\ old > MinPower2 -> old \div 2
        [] OTHER -> IF force THEN old ELSE 0

\* The new table u after the loop of Rehash has come to node n of the old one.
AddBack(t, u, n) ==
  LET r == NewSlotOnce(u, t.key[n], t.val[n])
  IN  IF t.key[n] = Null THEN u ELSE [r.tab EXCEPT !.spilled = @ \/ r.full]

Rehash(t, force) ==
  LET size == RehashSize(t, force)
      added[i \in 0 .. t.numofnodes] ==
        IF i = 0 THEN AllocNodes(size) ELSE AddBack(t, added[i - 1], i - 1)
  IN  IF size = 0 THEN t ELSE added[t.numofnodes]

\* NewSlot: with no free place left, the table is rehashed with the key
\* already in it and NewSlot starts again.
NewSlotResult(t, k, v) ==
  LET r == NewSlotOnce(t, k, v)
  IN  IF r.full THEN NewSlotOnce(Rehash(r.tab, TRUE), k, v) ELSE r

\* (wrong on purpose) Next skips the node at its index.
NextNodeSkips(t, idx) ==
  LET rest == {n \in Nodes(t) : n > idx /\ t.key[n] # Null}
  IN  IF rest = {} THEN NoNode ELSE Min(rest)

\* Next, from index idx: the node it reports, or NoNode at the end.
NextNode(t, idx) ==
  LET rest == {n \in Nodes(t) : n >= idx /\ t.key[n] # Null}
  IN  IF rest = {} THEN NoNode ELSE Min(rest)

\* Clone (without _FAST_CLONE): a table of the same size, filled in the
\* order of Next.
CloneOf(t) ==
  LET copied[i \in 0 .. t.numofnodes] ==
        IF i = 0 THEN AllocNodes(t.numofnodes)
        ELSE IF t.key[i - 1] = Null THEN copied[i - 1]
        ELSE NewSlotResult(copied[i - 1], t.key[i - 1], t.val[i - 1]).tab
  IN  copied[t.numofnodes]

-----------------------------------------------------------------------------
TInit == /\ \E size \in InitSizes : tbl = AllocNodes(size)
         /\ ret = FALSE

NewSlot(k, v) ==
  LET r == NewSlotResult(tbl, k, v)
  IN  /\ tbl' = r.tab
      /\ ret' = r.ret

\* Set does not exclude the null key: a null key matches an empty node.
Set(k, v) ==
  LET n == GetNode(tbl, k)
  IN  \/ /\ n # NoNode
         /\ tbl' = [tbl EXCEPT !.val[n] = v]
         /\ ret' = TRUE
      \/ /\ n = NoNode
         /\ ret' = FALSE
         /\ UNCHANGED tbl

\* Its callers (DeleteSlot, sq_rawdeleteslot) remove only what Get finds.
Remove(k) ==
  LET n == GetNode(tbl, k)
  IN  /\ n # NoNode
      /\ tbl' = Rehash([tbl EXCEPT !.key[n] = Null,
                                   !.val[n] = Null,
                                   !.usednodes = @ - 1], FALSE)
      /\ UNCHANGED ret

Clear ==
  /\ tbl' = Rehash([tbl EXCEPT !.key = [n \in Nodes(tbl) |-> Null],
                               !.val = [n \in Nodes(tbl) |-> Null],
                               !.usednodes = 0], TRUE)
  /\ UNCHANGED ret

\* The user goes on with a clone and drops the original.
Clone == /\ tbl' = CloneOf(tbl)
         /\ UNCHANGED ret

TNext == \/ \E k \in Keys, v \in Vals : NewSlot(k, v)
         \/ \E k \in Keys \cup {Null}, v \in Vals : Set(k, v)
         \/ \E k \in Keys : Remove(k)
         \/ Clear
         \/ Clone

TSpec == TInit /\ [][TNext]_tvars

-----------------------------------------------------------------------------
(***************************************************************************)
(* Properties                                                              *)
(***************************************************************************)

\* The keys stored in the node array, and the map that Get reads.
Stored == {tbl.key[n] : n \in Nodes(tbl)} \ {Null}
Map == [k \in {x \in Keys : GetNode(tbl, x) # NoNode} |-> tbl.val[GetNode(tbl, k)]]

\* Every stored key is found from its main position, is stored once, and
\* _usednodes counts the stored keys; so the search for the node before a
\* colliding one (the assert in NewSlot) always ends.  No node is linked from
\* two nodes.
EveryKeyFound ==
  /\ \A m, n \in Nodes(tbl) : tbl.next[m] = tbl.next[n] /\ tbl.next[m] # NoNode => m = n
  /\ \A n \in Nodes(tbl) : tbl.key[n] # Null => GetNode(tbl, tbl.key[n]) = n
  /\ tbl.usednodes = Cardinality(Stored)

\* A Rehash never needs another one: the recursion between NewSlot and
\* Rehash is one level deep.
RehashFits == ~tbl.spilled

AsMap == INSTANCE SqMap WITH map <- Map

\* The hash table implements a map.
ImplementsMap == AsMap!MSpec

=============================================================================
