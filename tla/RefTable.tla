------------------------------ MODULE RefTable ------------------------------
(***************************************************************************)
(* struct RefTable (sqstate.h, sqstate.cpp): the hash table in which the   *)
(* shared state keeps the objects the host application references through  *)
(* sq_addref.  The garbage collector marks every object stored here.       *)
(*                                                                         *)
(* A table is a record.  A node is named by its index in _nodes; a bucket  *)
(* chain and the free list are the sets of the nodes linked into them (no  *)
(* property depends on the order of a chain).  Resize keeps the index of a *)
(* node it moves.  Asserts are compiled out: their conditions are stated   *)
(* as properties.                                                          *)
(***************************************************************************)
EXTENDS Integers, FiniteSets

CONSTANTS Objs,     \* reference-counted objects the host has handles to
          Null,     \* OT_NULL, the content of an empty node
          Hash,     \* HashObj
          InitSlots,\* slots RefTable() allocates (4 in the code)
          MaxUInt,  \* the largest SQUnsignedInteger
          MaxRefs   \* bound on the references the host holds to one object

ASSUME NullAssumption == Null \notin Objs
ASSUME HashAssumption == Hash \in [Objs -> Nat]
ASSUME InitSlotsAssumption == InitSlots \in Nat \ {0}
ASSUME BoundAssumption == /\ MaxRefs \in Nat
                          /\ MaxUInt \in Nat
                          /\ MaxRefs =< MaxUInt

VARIABLES table,    \* SQSharedState::_refs_table
          held,     \* held[o]: sq_addref calls minus sq_release calls on o
          answer,   \* what the last Release or GetRefCount returned
          closed    \* ~SQSharedState has finalized the table

vars == <<table, held, answer, closed>>

SQTrue  == 1
SQFalse == 0
NoNode  == -1       \* a NULL RefNode*

Nodes(t) == 0 .. t.numofslots - 1

MainPos(o, slots) == Hash[o] % slots

InUse(t) == {n \in Nodes(t) : t.obj[n] # Null}

\* (wrong on purpose) a decrement that goes straight to zero.
DecToZero(r) == 0

\* The increment and decrement of an SQUnsignedInteger wrap around.
Inc(r) == IF r = MaxUInt THEN 0 ELSE r + 1
Dec(r) == IF r = 0 THEN MaxUInt ELSE r - 1

AllocNodes(size) ==
  [numofslots |-> size,
   slotused   |-> 0,
   obj        |-> [n \in 0 .. size - 1 |-> Null],
   refs       |-> [n \in 0 .. size - 1 |-> 0],
   buckets    |-> [m \in 0 .. size - 1 |-> {}],
   freelist   |-> 0 .. size - 1]

SetRefs(t, n, r) == [t EXCEPT !.refs = [t.refs EXCEPT ![n] = r]]

\* The chain search at the head of Get: the node of o in the chain of its
\* main position, or NoNode.
Lookup(t, o) ==
  LET hits == {n \in t.buckets[MainPos(o, t.numofslots)] : t.obj[n] = o}
  IN  IF hits = {} THEN NoNode ELSE CHOOSE n \in hits : TRUE

Add(t, n, o) ==
  [numofslots |-> t.numofslots,
   slotused   |-> t.slotused + 1,
   obj        |-> [t.obj EXCEPT ![n] = o],
   refs       |-> t.refs,
   buckets    |-> [t.buckets EXCEPT ![MainPos(o, t.numofslots)] = @ \cup {n}],
   freelist   |-> t.freelist \ {n}]

\* (wrong on purpose) Resize keeps the mask of the smaller table.
ResizeOldMask(t, size) ==
  LET moved == InUse(t)
      fresh == 0 .. size - 1
  IN  [numofslots |-> size,
       slotused   |-> Cardinality(moved),
       obj        |-> [n \in fresh |-> IF n \in moved THEN t.obj[n] ELSE Null],
       refs       |-> [n \in fresh |-> IF n \in moved THEN t.refs[n] ELSE 0],
       buckets    |-> [m \in fresh |->
                         {n \in moved : MainPos(t.obj[n], t.numofslots) = m}],
       freelist   |-> fresh \ moved]

\* (wrong on purpose) Resize moves only the nodes that have references.
ResizeDropsUnreferenced(t, size) ==
  LET moved == {n \in InUse(t) : t.refs[n] # 0}
      fresh == 0 .. size - 1
  IN  [numofslots |-> size,
       slotused   |-> Cardinality(moved),
       obj        |-> [n \in fresh |-> IF n \in moved THEN t.obj[n] ELSE Null],
       refs       |-> [n \in fresh |-> IF n \in moved THEN t.refs[n] ELSE 0],
       buckets    |-> [m \in fresh |->
                         {n \in moved : MainPos(t.obj[n], size) = m}],
       freelist   |-> fresh \ moved]

\* A table twice as large, with every occupied node of the old one linked
\* into the chain its object has under the new mask.
Resize(t, size) ==
  LET moved == InUse(t)
      fresh == 0 .. size - 1
  IN  [numofslots |-> size,
       slotused   |-> Cardinality(moved),
       obj        |-> [n \in fresh |-> IF n \in moved THEN t.obj[n] ELSE Null],
       refs       |-> [n \in fresh |-> IF n \in moved THEN t.refs[n] ELSE 0],
       buckets    |-> [m \in fresh |->
                         {n \in moved : MainPos(t.obj[n], size) = m}],
       freelist   |-> fresh \ moved]

\* The table Get(obj, mainpos, prev, true) adds to: grown when it is full.
Grown(t) ==
  IF t.numofslots = t.slotused THEN Resize(t, t.numofslots * 2) ELSE t

\* Get with add = true, as a table that holds a node for o.
GetAdd(t, o) ==
  IF Lookup(t, o) # NoNode THEN t
  ELSE LET g == Grown(t) IN Add(g, CHOOSE n \in g.freelist : TRUE, o)

\* (wrong on purpose) Release gives the node back and leaves it in its chain.
UnlinkKeepsChain(t, n, o) ==
  [t EXCEPT !.obj[n] = Null, !.refs[n] = 0,
            !.freelist = @ \cup {n}, !.slotused = @ - 1]

\* (wrong on purpose) Release takes the slot off the count twice.
UnlinkTwice(t, n, o) ==
  [t EXCEPT !.obj[n] = Null, !.refs[n] = 0,
            !.buckets[MainPos(o, t.numofslots)] = @ \ {n},
            !.freelist = @ \cup {n}, !.slotused = @ - 2]

\* Release: the node of the last reference goes back to the free list.
Unlink(t, n, o) ==
  [numofslots |-> t.numofslots,
   slotused   |-> t.slotused - 1,
   obj        |-> [t.obj EXCEPT ![n] = Null],
   refs       |-> [t.refs EXCEPT ![n] = 0],
   buckets    |-> [t.buckets EXCEPT ![MainPos(o, t.numofslots)] = @ \ {n}],
   freelist   |-> t.freelist \cup {n}]

-----------------------------------------------------------------------------
Init == /\ table = AllocNodes(InitSlots)
        /\ held = [o \in Objs |-> 0]
        /\ answer = SQFalse
        /\ closed = FALSE

AddRef(o) ==
  /\ ~closed
  /\ held[o] < MaxRefs
  /\ LET t == GetAdd(table, o) IN
       table' = SetRefs(t, Lookup(t, o), Inc(t.refs[Lookup(t, o)]))
  /\ held' = [held EXCEPT ![o] = @ + 1]
  /\ UNCHANGED <<answer, closed>>

\* GetRefCount also calls Get with add = true: asking about an object the
\* host does not hold leaves a node with no references behind.
GetRefCount(o) ==
  /\ ~closed
  /\ table' = GetAdd(table, o)
  /\ answer' = table'.refs[Lookup(table', o)]
  /\ UNCHANGED <<held, closed>>

\* The host releases only what it holds (the assert(0) of Release).
Release(o) ==
  /\ ~closed
  /\ held[o] > 0
  /\ LET n == Lookup(table, o) IN
       \/ /\ n # NoNode
          /\ Dec(table.refs[n]) = 0
          /\ table' = Unlink(table, n, o)
          /\ answer' = SQTrue
       \/ /\ n # NoNode
          /\ Dec(table.refs[n]) # 0
          /\ table' = SetRefs(table, n, Dec(table.refs[n]))
          /\ answer' = SQFalse
  /\ held' = [held EXCEPT ![o] = @ - 1]
  /\ UNCHANGED closed

\* Finalize empties the nodes and leaves the chains alone; the host's
\* references end with the shared state.
Finalize ==
  /\ ~closed
  /\ table' = [table EXCEPT !.obj = [n \in Nodes(table) |-> Null]]
  /\ held' = [o \in Objs |-> 0]
  /\ closed' = TRUE
  /\ UNCHANGED answer

Next == \/ \E o \in Objs : AddRef(o) \/ GetRefCount(o) \/ Release(o)
        \/ Finalize

Spec == Init /\ [][Next]_vars
-----------------------------------------------------------------------------
(***************************************************************************)
(* Properties                                                              *)
(***************************************************************************)

\* The roots RefTable::Mark hands to the garbage collector.
Mark == {table.obj[n] : n \in InUse(table)}

\* The references the table records for o; no node means none.
RefsIn(t, o) == LET n == Lookup(t, o) IN IF n = NoNode THEN 0 ELSE t.refs[n]
RefsOf(o) == RefsIn(table, o)

\* The shape of the data: one node array, one chain per slot, counters that
\* fit an SQUnsignedInteger.
TypeOK ==
  /\ table \in [numofslots : Nat \ {0},
                slotused   : Nat,
                obj        : [Nodes(table) -> Objs \cup {Null}],
                refs       : [Nodes(table) -> 0 .. MaxUInt],
                buckets    : [Nodes(table) -> SUBSET Nodes(table)],
                freelist   : SUBSET Nodes(table)]
  /\ held \in [Objs -> 0 .. MaxRefs]
  /\ answer \in 0 .. MaxUInt
  /\ closed \in BOOLEAN

\* Every occupied node is linked into the one chain its object hashes to
\* under the current mask, chains hold nothing else, and the free list holds
\* exactly the empty nodes, all with no references (the assert of Add).
ChainsSound ==
  ~closed =>
    /\ table.freelist = Nodes(table) \ InUse(table)
    /\ \A m, n \in Nodes(table) :
         n \in table.buckets[m] <=>
           n \in InUse(table) /\ m = MainPos(table.obj[n], table.numofslots)
    /\ \A n \in table.freelist : table.refs[n] = 0

\* No object has two nodes.
OneNodePerObject ==
  ~closed =>
    \A n, k \in InUse(table) : table.obj[n] = table.obj[k] => n = k

\* _slotused counts the occupied nodes, so that Get grows the table exactly
\* when the free list is empty (the asserts of Get and of Resize).
SlotsAccounted ==
  ~closed => /\ table.slotused = Cardinality(InUse(table))
             /\ (table.slotused = table.numofslots) <=> (table.freelist = {})

\* The count of every object is the number of references the host has taken
\* and not given back, whatever the growth and the sharing of chains, and
\* an object with a reference is a root of the collector.
CountsMatchHost ==
  ~closed => \A o \in Objs : /\ RefsOf(o) = held[o]
                             /\ held[o] > 0 => o \in Mark

\* Growing moves every node: what was a root before a step and is not
\* released or finalized by it is a root after it.
GrowthKeepsRoots ==
  [][\A o \in Mark : o \in Mark' \/ held'[o] < held[o] \/ closed']_vars

Host == INSTANCE HostRefs WITH count <- [o \in Objs |-> RefsOf(o)]

\* The table implements the reference counts of HostRefs.
ImplementsHostRefs == Host!HSpec
=============================================================================
