--------------------------- MODULE RefTableProofs ---------------------------
(***************************************************************************)
(* Proofs about RefTable, for every set of objects, every hash function    *)
(* and every initial size.                                                 *)
(***************************************************************************)
EXTENDS RefTable, FiniteSetTheorems, TLAPS

(***************************************************************************)
(* The inductive invariant, stated for a table rather than for the         *)
(* variable, so that it applies between the steps of one operation.        *)
(***************************************************************************)
TableType(t) ==
  t \in [numofslots : Nat \ {0},
         slotused   : Nat,
         obj        : [Nodes(t) -> Objs \cup {Null}],
         refs       : [Nodes(t) -> 0 .. MaxUInt],
         buckets    : [Nodes(t) -> SUBSET Nodes(t)],
         freelist   : SUBSET Nodes(t)]

Chained(t) ==
  /\ t.freelist = Nodes(t) \ InUse(t)
  /\ \A m, n \in Nodes(t) :
       n \in t.buckets[m] <=>
         n \in InUse(t) /\ m = MainPos(t.obj[n], t.numofslots)
  /\ \A n \in t.freelist : t.refs[n] = 0

Unique(t) == \A n, k \in InUse(t) : t.obj[n] = t.obj[k] => n = k

Counted(t) == t.slotused = Cardinality(InUse(t))

GoodTable(t) == TableType(t) /\ Chained(t) /\ Unique(t) /\ Counted(t)

\* The slot a hash selects lies in the table.
LEMMA MainPosInTable ==
  ASSUME NEW o \in Objs, NEW s \in Nat \ {0}
  PROVE  MainPos(o, s) \in 0 .. s - 1
<1>1. Hash[o] \in Nat
  BY HashAssumption
<1>2. \A a \in Nat : a % s \in 0 .. s - 1
  OBVIOUS
<1> QED
  BY <1>1, <1>2 DEF MainPos

\* The nodes of a table are finitely many, and as many as it has slots.
LEMMA NodesFinite ==
  ASSUME NEW t, t.numofslots \in Nat \ {0}
  PROVE  /\ IsFiniteSet(Nodes(t))
         /\ Cardinality(Nodes(t)) = t.numofslots
         /\ IsFiniteSet(InUse(t))
         /\ Cardinality(InUse(t)) \in Nat
<1>1. Nodes(t) = 0 .. t.numofslots - 1
  BY DEF Nodes
<1>2. IsFiniteSet(Nodes(t)) /\ Cardinality(Nodes(t)) = t.numofslots
  BY <1>1, FS_Interval
<1>3. InUse(t) \in SUBSET Nodes(t)
  BY DEF InUse
<1> QED
  BY <1>2, <1>3, FS_Subset, FS_CardinalityType

\* The chain search finds the node that holds the object, and finds nothing
\* only if no node holds it.
LEMMA LookupSound ==
  ASSUME NEW t, GoodTable(t), NEW o \in Objs
  PROVE  /\ \A n \in InUse(t) : t.obj[n] = o => Lookup(t, o) = n
         /\ Lookup(t, o) # NoNode =>
              Lookup(t, o) \in InUse(t) /\ t.obj[Lookup(t, o)] = o
<1> DEFINE m == MainPos(o, t.numofslots)
           hits == {n \in t.buckets[m] : t.obj[n] = o}
<1>1. t.numofslots \in Nat \ {0} /\ Nodes(t) = 0 .. t.numofslots - 1
  BY DEF GoodTable, TableType, Nodes
<1>2. m \in Nodes(t)
  BY <1>1, MainPosInTable
<1>3. t.buckets[m] \subseteq Nodes(t)
  BY <1>2 DEF GoodTable, TableType
<1>4. hits = {n \in InUse(t) : t.obj[n] = o}
  BY <1>2, <1>3 DEF GoodTable, Chained, InUse
<1>5. Lookup(t, o) = IF hits = {} THEN NoNode ELSE CHOOSE n \in hits : TRUE
  BY DEF Lookup
<1>6. hits # {} => (CHOOSE n \in hits : TRUE) \in hits
  OBVIOUS
<1>7. \A n \in hits : n # NoNode
  BY <1>1, <1>4 DEF InUse, NoNode
<1>8. \A n \in hits : hits = {n}
  BY <1>4 DEF GoodTable, Unique
<1> HIDE DEF hits
<1>9. ASSUME NEW n \in InUse(t), t.obj[n] = o PROVE Lookup(t, o) = n
  BY <1>4, <1>5, <1>6, <1>8, <1>9
<1>10. ASSUME Lookup(t, o) # NoNode
       PROVE  Lookup(t, o) \in InUse(t) /\ t.obj[Lookup(t, o)] = o
  BY <1>4, <1>5, <1>6, <1>10
<1> QED
  BY <1>9, <1>10

\* What a table records about a table's own fields after Add.
LEMMA AddSound ==
  ASSUME NEW t, GoodTable(t), NEW o \in Objs, NEW n \in t.freelist,
         \A k \in InUse(t) : t.obj[k] # o
  PROVE  /\ GoodTable(Add(t, n, o))
         /\ InUse(Add(t, n, o)) = InUse(t) \cup {n}
         /\ Add(t, n, o).obj[n] = o
         /\ \A k \in InUse(t) : Add(t, n, o).obj[k] = t.obj[k]
         /\ Add(t, n, o).refs = t.refs
         /\ t.refs[n] = 0
<1> DEFINE u == Add(t, n, o)
           m == MainPos(o, t.numofslots)
<1>1. /\ t.numofslots \in Nat \ {0}
      /\ t.slotused \in Nat
      /\ t.obj \in [Nodes(t) -> Objs \cup {Null}]
      /\ t.refs \in [Nodes(t) -> 0 .. MaxUInt]
      /\ t.buckets \in [Nodes(t) -> SUBSET Nodes(t)]
      /\ t.freelist \subseteq Nodes(t)
  BY DEF GoodTable, TableType
<1>2. m \in Nodes(t)
  BY <1>1, MainPosInTable DEF Nodes
<1>3. /\ u = [numofslots |-> t.numofslots,
              slotused   |-> t.slotused + 1,
              obj        |-> [t.obj EXCEPT ![n] = o],
              refs       |-> t.refs,
              buckets    |-> [t.buckets EXCEPT ![m] = @ \cup {n}],
              freelist   |-> t.freelist \ {n}]
  BY DEF Add, GoodTable, TableType
<1> HIDE DEF u
<1>4. /\ u.numofslots = t.numofslots
      /\ u.slotused = t.slotused + 1
      /\ u.obj = [t.obj EXCEPT ![n] = o]
      /\ u.refs = t.refs
      /\ u.buckets = [t.buckets EXCEPT ![m] = @ \cup {n}]
      /\ u.freelist = t.freelist \ {n}
  BY <1>3
<1>5. Nodes(u) = Nodes(t)
  BY <1>4 DEF Nodes
<1>6. n \in Nodes(t) /\ n \notin InUse(t) /\ t.refs[n] = 0
  BY DEF GoodTable, Chained
<1>7. InUse(u) = InUse(t) \cup {n}
  BY <1>1, <1>4, <1>5, <1>6, NullAssumption DEF InUse
<1>8. u.obj[n] = o /\ \A k \in InUse(t) : u.obj[k] = t.obj[k]
  BY <1>1, <1>4, <1>6 DEF InUse
<1>9. TableType(u)
  <2>1. u.obj \in [Nodes(t) -> Objs \cup {Null}]
    BY <1>1, <1>4
  <2>2. u.buckets \in [Nodes(t) -> SUBSET Nodes(t)]
    BY <1>1, <1>2, <1>4, <1>6
  <2>3. u.freelist \subseteq Nodes(t) /\ u.slotused \in Nat
    BY <1>1, <1>4
  <2> QED
    BY <1>1, <1>3, <1>4, <1>5, <2>1, <2>2, <2>3 DEF TableType
<1>10. Chained(u)
  <2>1. u.freelist = Nodes(u) \ InUse(u)
    BY <1>4, <1>5, <1>7 DEF GoodTable, Chained
  <2>2. ASSUME NEW p \in Nodes(t), NEW k \in Nodes(t)
        PROVE  k \in u.buckets[p] <=>
                 k \in InUse(u) /\ p = MainPos(u.obj[k], u.numofslots)
    <3>1. k \in t.buckets[p] <=>
            k \in InUse(t) /\ p = MainPos(t.obj[k], t.numofslots)
      BY DEF GoodTable, Chained
    <3>2. CASE k = n
      BY <1>1, <1>2, <1>4, <1>6, <1>7, <1>8, <3>1, <3>2
    <3>3. CASE k # n
      BY <1>1, <1>2, <1>4, <1>7, <1>8, <3>1, <3>3
    <3> QED
      BY <3>2, <3>3
  <2>3. \A k \in u.freelist : u.refs[k] = 0
    BY <1>4 DEF GoodTable, Chained
  <2> QED
    BY <1>5, <2>1, <2>2, <2>3 DEF Chained
<1>11. Unique(u)
  BY <1>7, <1>8 DEF GoodTable, Unique
<1>12. Counted(u)
  <2>1. IsFiniteSet(InUse(t))
    BY <1>1, NodesFinite
  <2>2. Cardinality(InUse(t) \cup {n}) = Cardinality(InUse(t)) + 1
    BY <1>6, <2>1, FS_AddElement
  <2> QED
    BY <1>4, <1>7, <2>2 DEF GoodTable, Counted
<1> QED
  BY <1>4, <1>6, <1>7, <1>8, <1>9, <1>10, <1>11, <1>12 DEF GoodTable, u

\* Growing a full table keeps every node with its object and its count and
\* leaves room for the node that Get adds.
LEMMA ResizeSound ==
  ASSUME NEW t, GoodTable(t)
  PROVE  LET u == Resize(t, t.numofslots * 2) IN
           /\ GoodTable(u)
           /\ InUse(u) = InUse(t)
           /\ \A k \in InUse(t) : u.obj[k] = t.obj[k] /\ u.refs[k] = t.refs[k]
           /\ u.freelist # {}
<1> DEFINE s == t.numofslots * 2
           u == Resize(t, s)
<1>1. /\ t.numofslots \in Nat \ {0}
      /\ t.obj \in [Nodes(t) -> Objs \cup {Null}]
      /\ t.refs \in [Nodes(t) -> 0 .. MaxUInt]
  BY DEF GoodTable, TableType
<1>2. /\ s \in Nat \ {0}
      /\ Nodes(t) \subseteq 0 .. s - 1
      /\ t.numofslots \in 0 .. s - 1
      /\ t.numofslots \notin Nodes(t)
  BY <1>1 DEF Nodes
<1> HIDE DEF s
<1>3. /\ u = [numofslots |-> s,
              slotused   |-> Cardinality(InUse(t)),
              obj        |-> [n \in 0 .. s - 1 |->
                                IF n \in InUse(t) THEN t.obj[n] ELSE Null],
              refs       |-> [n \in 0 .. s - 1 |->
                                IF n \in InUse(t) THEN t.refs[n] ELSE 0],
              buckets    |-> [m \in 0 .. s - 1 |->
                                {n \in InUse(t) : MainPos(t.obj[n], s) = m}],
              freelist   |-> (0 .. s - 1) \ InUse(t)]
  BY DEF Resize
<1> HIDE DEF u
<1>4. /\ u.numofslots = s
      /\ u.slotused = Cardinality(InUse(t))
      /\ u.obj = [n \in 0 .. s - 1 |-> IF n \in InUse(t) THEN t.obj[n] ELSE Null]
      /\ u.refs = [n \in 0 .. s - 1 |-> IF n \in InUse(t) THEN t.refs[n] ELSE 0]
      /\ u.buckets = [m \in 0 .. s - 1 |->
                        {n \in InUse(t) : MainPos(t.obj[n], s) = m}]
      /\ u.freelist = (0 .. s - 1) \ InUse(t)
  BY <1>3
<1>5. Nodes(u) = 0 .. s - 1
  BY <1>4 DEF Nodes
<1>6. InUse(t) \subseteq Nodes(t) /\ \A k \in InUse(t) : t.obj[k] \in Objs
  BY <1>1 DEF InUse
<1>7. \A k \in InUse(t) : u.obj[k] = t.obj[k] /\ u.refs[k] = t.refs[k]
  BY <1>2, <1>4, <1>6
<1>8. InUse(u) = InUse(t)
  <2>1. ASSUME NEW k \in Nodes(u) PROVE u.obj[k] # Null <=> k \in InUse(t)
    BY <1>4, <1>5, <1>6, NullAssumption
  <2> QED
    BY <1>2, <1>5, <1>6, <2>1 DEF InUse
<1>9. u.freelist # {}
  BY <1>2, <1>4, <1>6
<1>10. Counted(u)
  BY <1>4, <1>8 DEF Counted
<1>11. TableType(u)
  <2>1. u.slotused \in Nat
    BY <1>1, <1>4, NodesFinite
  <2>2. u.obj \in [Nodes(u) -> Objs \cup {Null}]
    BY <1>4, <1>5, <1>6
  <2>3. u.refs \in [Nodes(u) -> 0 .. MaxUInt]
    BY <1>1, <1>4, <1>5, <1>6, BoundAssumption
  <2>4. u.buckets \in [Nodes(u) -> SUBSET Nodes(u)]
    BY <1>2, <1>4, <1>5, <1>6
  <2>5. u.freelist \subseteq Nodes(u)
    BY <1>4, <1>5
  <2> QED
    BY <1>2, <1>3, <1>4, <2>1, <2>2, <2>3, <2>4, <2>5 DEF TableType
<1>12. Chained(u)
  <2>1. u.freelist = Nodes(u) \ InUse(u)
    BY <1>4, <1>5, <1>8
  <2>2. ASSUME NEW p \in Nodes(u), NEW k \in Nodes(u)
        PROVE  k \in u.buckets[p] <=>
                 k \in InUse(u) /\ p = MainPos(u.obj[k], u.numofslots)
    BY <1>4, <1>5, <1>7, <1>8
  <2>3. \A k \in u.freelist : u.refs[k] = 0
    BY <1>4
  <2> QED
    BY <2>1, <2>2, <2>3 DEF Chained
<1>13. Unique(u)
  BY <1>7, <1>8 DEF GoodTable, Unique
<1> QED
  BY <1>7, <1>8, <1>9, <1>10, <1>11, <1>12, <1>13 DEF GoodTable, u, s

\* Changing a count changes nothing else.
LEMMA SetRefsSound ==
  ASSUME NEW t, GoodTable(t), NEW n \in InUse(t), NEW r \in 0 .. MaxUInt
  PROVE  /\ GoodTable(SetRefs(t, n, r))
         /\ InUse(SetRefs(t, n, r)) = InUse(t)
         /\ SetRefs(t, n, r).obj = t.obj
         /\ SetRefs(t, n, r).refs = [t.refs EXCEPT ![n] = r]
<1> DEFINE u == SetRefs(t, n, r)
<1>1. /\ t.numofslots \in Nat \ {0}
      /\ t.refs \in [Nodes(t) -> 0 .. MaxUInt]
      /\ n \in Nodes(t)
  BY DEF GoodTable, TableType, InUse
<1>2. /\ u.numofslots = t.numofslots /\ u.slotused = t.slotused
      /\ u.obj = t.obj /\ u.buckets = t.buckets /\ u.freelist = t.freelist
      /\ u.refs = [t.refs EXCEPT ![n] = r]
  BY DEF SetRefs, GoodTable, TableType
<1>3. Nodes(u) = Nodes(t) /\ InUse(u) = InUse(t)
  BY <1>2 DEF Nodes, InUse
<1>4. TableType(u)
  <2>1. [t.refs EXCEPT ![n] = r] \in [Nodes(t) -> 0 .. MaxUInt]
    BY <1>1
  <2>2. u \in [numofslots : Nat \ {0},
               slotused   : Nat,
               obj        : [Nodes(t) -> Objs \cup {Null}],
               refs       : [Nodes(t) -> 0 .. MaxUInt],
               buckets    : [Nodes(t) -> SUBSET Nodes(t)],
               freelist   : SUBSET Nodes(t)]
    BY <2>1 DEF SetRefs, GoodTable, TableType
  <2> QED
    BY <1>3, <2>2 DEF TableType
<1> HIDE DEF u
<1>5. Chained(u)
  <2>1. \A k \in u.freelist : u.refs[k] = 0
    BY <1>1, <1>2 DEF GoodTable, Chained
  <2> QED
    BY <1>2, <1>3, <2>1 DEF GoodTable, Chained
<1>6. Unique(u) /\ Counted(u)
  BY <1>2, <1>3 DEF GoodTable, Unique, Counted
<1> QED
  BY <1>2, <1>3, <1>4, <1>5, <1>6 DEF GoodTable, u

\* Releasing the last reference takes the node out of its chain and of the
\* count.
LEMMA UnlinkSound ==
  ASSUME NEW t, GoodTable(t), NEW o \in Objs, NEW n \in InUse(t), t.obj[n] = o
  PROVE  /\ GoodTable(Unlink(t, n, o))
         /\ InUse(Unlink(t, n, o)) = InUse(t) \ {n}
         /\ \A k \in InUse(t) \ {n} :
              /\ Unlink(t, n, o).obj[k] = t.obj[k]
              /\ Unlink(t, n, o).refs[k] = t.refs[k]
<1> DEFINE u == Unlink(t, n, o)
           m == MainPos(o, t.numofslots)
<1>1. /\ t.numofslots \in Nat \ {0}
      /\ t.slotused \in Nat
      /\ t.obj \in [Nodes(t) -> Objs \cup {Null}]
      /\ t.refs \in [Nodes(t) -> 0 .. MaxUInt]
      /\ t.buckets \in [Nodes(t) -> SUBSET Nodes(t)]
      /\ t.freelist \subseteq Nodes(t)
  BY DEF GoodTable, TableType
<1>2. n \in Nodes(t)
  BY DEF InUse
<1>3. m \in Nodes(t)
  BY <1>1, <1>2, MainPosInTable DEF Nodes
<1>4. u = [numofslots |-> t.numofslots,
           slotused   |-> t.slotused - 1,
           obj        |-> [t.obj EXCEPT ![n] = Null],
           refs       |-> [t.refs EXCEPT ![n] = 0],
           buckets    |-> [t.buckets EXCEPT ![m] = t.buckets[m] \ {n}],
           freelist   |-> t.freelist \cup {n}]
  BY DEF Unlink
<1> HIDE DEF u
<1>5. /\ u.numofslots = t.numofslots
      /\ u.slotused = t.slotused - 1
      /\ u.obj = [t.obj EXCEPT ![n] = Null]
      /\ u.refs = [t.refs EXCEPT ![n] = 0]
      /\ u.buckets = [t.buckets EXCEPT ![m] = t.buckets[m] \ {n}]
      /\ u.freelist = t.freelist \cup {n}
  BY <1>4
<1>6. Nodes(u) = Nodes(t)
  BY <1>5 DEF Nodes
<1>7. InUse(u) = InUse(t) \ {n}
  BY <1>1, <1>2, <1>5, <1>6 DEF InUse
<1>8. \A k \in Nodes(t) \ {n} : u.obj[k] = t.obj[k] /\ u.refs[k] = t.refs[k]
  BY <1>1, <1>5
<1>9. /\ IsFiniteSet(InUse(t))
      /\ Cardinality(InUse(t) \ {n}) = Cardinality(InUse(t)) - 1
      /\ Cardinality(InUse(t) \ {n}) \in Nat
  <2>1. IsFiniteSet(InUse(t))
    BY <1>1, NodesFinite
  <2> QED
    BY <2>1, FS_RemoveElement, FS_CardinalityType
<1>10. Counted(u) /\ u.slotused \in Nat
  BY <1>5, <1>7, <1>9 DEF GoodTable, Counted
<1>11. TableType(u)
  <2>1. u.obj \in [Nodes(t) -> Objs \cup {Null}]
    BY <1>1, <1>5
  <2>2. u.refs \in [Nodes(t) -> 0 .. MaxUInt]
    <3>1. 0 \in 0 .. MaxUInt
      BY BoundAssumption
    <3>2. t.refs \in [Nodes(t) -> 0 .. MaxUInt] /\ u.refs = [t.refs EXCEPT ![n] = 0]
      BY <1>1, <1>5
    <3> QED
      BY <3>1, <3>2
  <2>3. u.buckets \in [Nodes(t) -> SUBSET Nodes(t)]
    BY <1>1, <1>3, <1>5
  <2>4. u.freelist \subseteq Nodes(t)
    BY <1>1, <1>2, <1>5
  <2> QED
    BY <1>1, <1>4, <1>5, <1>6, <1>10, <2>1, <2>2, <2>3, <2>4 DEF TableType
<1>12. Chained(u)
  <2>1. u.freelist = Nodes(u) \ InUse(u)
    BY <1>2, <1>5, <1>6, <1>7 DEF GoodTable, Chained, InUse
  <2>2. ASSUME NEW p \in Nodes(t), NEW k \in Nodes(t)
        PROVE  k \in u.buckets[p] <=>
                 k \in InUse(u) /\ p = MainPos(u.obj[k], u.numofslots)
    <3>1. k \in t.buckets[p] <=>
            k \in InUse(t) /\ p = MainPos(t.obj[k], t.numofslots)
      BY DEF GoodTable, Chained
    <3>2. CASE k = n
      BY <1>1, <1>3, <1>5, <1>7, <3>1, <3>2
    <3>3. CASE k # n
      BY <1>1, <1>3, <1>5, <1>7, <1>8, <3>1, <3>3
    <3> QED
      BY <3>2, <3>3
  <2>3. \A k \in u.freelist : u.refs[k] = 0
    BY <1>1, <1>2, <1>5 DEF GoodTable, Chained
  <2> QED
    BY <1>6, <2>1, <2>2, <2>3 DEF Chained
<1>13. Unique(u)
  BY <1>7, <1>8 DEF GoodTable, Unique, InUse
<1> QED
  BY <1>7, <1>8, <1>10, <1>11, <1>12, <1>13 DEF GoodTable, u, InUse

\* _slotused reaches _numofslots exactly when the free list is exhausted.
LEMMA FullMeansNoFreeNode ==
  ASSUME NEW t, GoodTable(t)
  PROVE  (t.slotused = t.numofslots) <=> (t.freelist = {})
<1>1. t.numofslots \in Nat \ {0}
  BY DEF GoodTable, TableType
<1>2. IsFiniteSet(Nodes(t)) /\ Cardinality(Nodes(t)) = t.numofslots
  BY <1>1, NodesFinite
<1>3. InUse(t) \in SUBSET Nodes(t)
  BY DEF InUse
<1>4. Cardinality(InUse(t)) = Cardinality(Nodes(t)) <=> InUse(t) = Nodes(t)
  BY <1>2, <1>3, FS_Subset
<1> QED
  BY <1>2, <1>3, <1>4 DEF GoodTable, Chained, Counted

\* Two tables that agree on the nodes holding p record the same count for p.
LEMMA SameRefs ==
  ASSUME NEW t, GoodTable(t), NEW u, GoodTable(u), NEW p \in Objs,
         \A k : k \in InUse(t) /\ t.obj[k] = p
                  => k \in InUse(u) /\ u.obj[k] = p /\ u.refs[k] = t.refs[k],
         \A k : k \in InUse(u) /\ u.obj[k] = p
                  => (k \in InUse(t) /\ t.obj[k] = p) \/ u.refs[k] = 0
  PROVE  RefsIn(u, p) = RefsIn(t, p)
<1>1. CASE \E k \in InUse(t) : t.obj[k] = p
  <2> PICK k \in InUse(t) : t.obj[k] = p
    BY <1>1
  <2>1. Lookup(t, p) = k /\ Lookup(u, p) = k /\ u.refs[k] = t.refs[k]
    BY LookupSound
  <2> QED
    BY <2>1 DEF RefsIn
<1>2. CASE ~ \E k \in InUse(t) : t.obj[k] = p
  <2>1. Lookup(t, p) = NoNode
    BY <1>2, LookupSound
  <2>2. Lookup(u, p) = NoNode \/ u.refs[Lookup(u, p)] = 0
    BY <1>2, LookupSound
  <2> QED
    BY <2>1, <2>2 DEF RefsIn
<1> QED
  BY <1>1, <1>2

\* Get with add = true returns a table that has a node for o and records the
\* same counts, whether it finds the node, takes a free one or grows first.
LEMMA GetAddSound ==
  ASSUME NEW t, GoodTable(t), NEW o \in Objs
  PROVE  LET u == GetAdd(t, o) IN
           /\ GoodTable(u)
           /\ Lookup(u, o) \in InUse(u)
           /\ u.obj[Lookup(u, o)] = o
           /\ \A p \in Objs : RefsIn(u, p) = RefsIn(t, p)
           /\ \A k \in InUse(t) : k \in InUse(u) /\ u.obj[k] = t.obj[k]
<1> DEFINE u == GetAdd(t, o)
<1>1. CASE Lookup(t, o) # NoNode
  <2>1. u = t
    BY <1>1 DEF GetAdd
  <2> QED
    BY <1>1, <2>1, LookupSound
<1>2. CASE Lookup(t, o) = NoNode
  <2> DEFINE g == Grown(t)
             n == CHOOSE n \in g.freelist : TRUE
  <2>1. /\ GoodTable(g)
        /\ InUse(g) = InUse(t)
        /\ \A k \in InUse(t) : g.obj[k] = t.obj[k] /\ g.refs[k] = t.refs[k]
        /\ g.freelist # {}
    <3>1. CASE t.numofslots = t.slotused
      BY <3>1, ResizeSound DEF Grown
    <3>2. CASE t.numofslots # t.slotused
      BY <3>2, FullMeansNoFreeNode DEF Grown
    <3> QED
      BY <3>1, <3>2
  <2>2. n \in g.freelist
    BY <2>1
  <2>3. \A k \in InUse(g) : g.obj[k] # o
    <3>1. \A k \in InUse(t) : k # NoNode
      BY DEF InUse, Nodes, NoNode
    <3>2. \A k \in InUse(t) : t.obj[k] # o
      BY <1>2, <3>1, LookupSound
    <3> QED
      BY <2>1, <3>2
  <2>4. u = Add(g, n, o)
    BY <1>2 DEF GetAdd
  <2> HIDE DEF g, n, u
  <2>5. /\ GoodTable(u)
        /\ InUse(u) = InUse(g) \cup {n}
        /\ u.obj[n] = o
        /\ \A k \in InUse(g) : u.obj[k] = g.obj[k]
        /\ u.refs = g.refs
        /\ g.refs[n] = 0
    BY <2>1, <2>2, <2>3, <2>4, AddSound
  <2>6. Lookup(u, o) = n
    BY <2>5, LookupSound
  <2>7. ASSUME NEW p \in Objs PROVE RefsIn(u, p) = RefsIn(t, p)
    <3>1. \A k : k \in InUse(t) /\ t.obj[k] = p
                   => k \in InUse(u) /\ u.obj[k] = p /\ u.refs[k] = t.refs[k]
      BY <2>1, <2>5
    <3>2. \A k : k \in InUse(u) /\ u.obj[k] = p
                   => (k \in InUse(t) /\ t.obj[k] = p) \/ u.refs[k] = 0
      BY <2>1, <2>5
    <3> QED
      BY <2>5, <3>1, <3>2, SameRefs
  <2>8. \A k \in InUse(t) : k \in InUse(u) /\ u.obj[k] = t.obj[k]
    BY <2>1, <2>5
  <2> QED
    BY <2>5, <2>6, <2>7, <2>8 DEF u
<1> QED
  BY <1>1, <1>2

(***************************************************************************)
(* The invariant: the table is well formed and every count it records is   *)
(* the number of references the host holds.  The second part needs the     *)
(* first: a count is only found through the chain its object hashes to.    *)
(***************************************************************************)
IInv ==
  /\ TableType(table)
  /\ held \in [Objs -> 0 .. MaxRefs]
  /\ answer \in 0 .. MaxUInt
  /\ closed \in BOOLEAN
  /\ ~closed => /\ GoodTable(table)
                /\ \A o \in Objs : RefsIn(table, o) = held[o]

\* The empty table satisfies the invariant.
LEMMA InitIInv == Init => IInv
<1> SUFFICES ASSUME Init PROVE IInv
  OBVIOUS
<1>1. table = [numofslots |-> InitSlots,
               slotused   |-> 0,
               obj        |-> [n \in 0 .. InitSlots - 1 |-> Null],
               refs       |-> [n \in 0 .. InitSlots - 1 |-> 0],
               buckets    |-> [m \in 0 .. InitSlots - 1 |-> {}],
               freelist   |-> 0 .. InitSlots - 1]
  BY DEF Init, AllocNodes
<1>2. Nodes(table) = 0 .. InitSlots - 1 /\ InUse(table) = {}
  BY <1>1 DEF Nodes, InUse
<1>3. TableType(table)
  <2>1. 0 \in 0 .. MaxUInt
    BY BoundAssumption
  <2>2. /\ [n \in 0 .. InitSlots - 1 |-> Null]
             \in [0 .. InitSlots - 1 -> Objs \cup {Null}]
        /\ [n \in 0 .. InitSlots - 1 |-> 0] \in [0 .. InitSlots - 1 -> 0 .. MaxUInt]
        /\ [m \in 0 .. InitSlots - 1 |-> {}]
             \in [0 .. InitSlots - 1 -> SUBSET (0 .. InitSlots - 1)]
    BY <2>1
  <2> QED
    BY <1>1, <1>2, <2>2, InitSlotsAssumption DEF TableType
<1>4. Chained(table) /\ Unique(table)
  BY <1>1, <1>2 DEF Chained, Unique
<1>5. Counted(table)
  BY <1>1, <1>2, FS_EmptySet DEF Counted
<1>6. GoodTable(table)
  BY <1>3, <1>4, <1>5 DEF GoodTable
<1>7. \A o \in Objs : RefsIn(table, o) = 0
  BY <1>2, <1>6, LookupSound DEF RefsIn
<1>8. held \in [Objs -> 0 .. MaxRefs] /\ \A o \in Objs : held[o] = 0
  <2>1. 0 \in 0 .. MaxRefs
    BY BoundAssumption
  <2> QED
    BY <2>1 DEF Init
<1>9. answer \in 0 .. MaxUInt /\ closed \in BOOLEAN
  <2>1. answer \in 0 .. MaxUInt
    BY BoundAssumption DEF Init, SQFalse
  <2>2. closed = FALSE
    BY DEF Init
  <2> QED
    BY <2>1, <2>2
<1> QED
  BY <1>3, <1>6, <1>7, <1>8, <1>9 DEF IInv

\* AddRef raises one count by one and leaves the others.
LEMMA AddRefIInv ==
  ASSUME IInv, NEW o \in Objs, AddRef(o)
  PROVE  IInv'
<1> DEFINE t == GetAdd(table, o)
           n == Lookup(t, o)
           u == SetRefs(t, n, Inc(t.refs[n]))
<1>1. /\ GoodTable(table) /\ ~closed /\ held[o] < MaxRefs
      /\ held \in [Objs -> 0 .. MaxRefs]
      /\ \A p \in Objs : RefsIn(table, p) = held[p]
  BY DEF IInv, AddRef
<1>2. table' = u /\ held' = [held EXCEPT ![o] = @ + 1] /\ UNCHANGED <<answer, closed>>
  BY DEF AddRef
<1>3. /\ GoodTable(t) /\ n \in InUse(t) /\ t.obj[n] = o
      /\ \A p \in Objs : RefsIn(t, p) = held[p]
  BY <1>1, GetAddSound
<1> HIDE DEF t
<1>4. n # NoNode
  BY <1>3 DEF InUse, Nodes, NoNode
<1>5. t.refs[n] = held[o]
  BY <1>3, <1>4 DEF RefsIn
<1>6. Inc(t.refs[n]) = held[o] + 1 /\ held[o] + 1 \in 0 .. MaxRefs
      /\ held[o] + 1 \in 0 .. MaxUInt
  BY <1>1, <1>5, BoundAssumption DEF Inc
<1>7. /\ GoodTable(u) /\ InUse(u) = InUse(t) /\ u.obj = t.obj
      /\ u.refs = [t.refs EXCEPT ![n] = held[o] + 1]
  BY <1>3, <1>6, SetRefsSound
<1> HIDE DEF n, u
<1>8. t.refs \in [Nodes(t) -> 0 .. MaxUInt] /\ n \in Nodes(t)
  BY <1>3 DEF GoodTable, TableType, InUse
<1>9. ASSUME NEW p \in Objs PROVE RefsIn(u, p) = held'[p]
  <2>1. CASE p = o
    <3>1. Lookup(u, o) = n
      BY <1>3, <1>7, LookupSound
    <3> QED
      BY <1>1, <1>2, <1>4, <1>7, <1>8, <2>1, <3>1 DEF RefsIn
  <2>2. CASE p # o
    <3>1. \A k : k \in InUse(t) /\ t.obj[k] = p
                   => k \in InUse(u) /\ u.obj[k] = p /\ u.refs[k] = t.refs[k]
      BY <1>3, <1>7, <1>8, <2>2
    <3>2. \A k : k \in InUse(u) /\ u.obj[k] = p
                   => (k \in InUse(t) /\ t.obj[k] = p) \/ u.refs[k] = 0
      BY <1>7
    <3>3. GoodTable(t) /\ GoodTable(u)
      BY <1>3, <1>7
    <3>4. RefsIn(u, p) = RefsIn(t, p)
      BY <3>1, <3>2, <3>3, SameRefs
    <3> QED
      BY <1>1, <1>2, <1>3, <2>2, <3>4
  <2> QED
    BY <2>1, <2>2
<1>10. held' \in [Objs -> 0 .. MaxRefs]
  BY <1>1, <1>2, <1>6
<1>11. GoodTable(table') /\ TableType(table')
  BY <1>2, <1>7 DEF GoodTable
<1>12. \A p \in Objs : RefsIn(table', p) = held'[p]
  BY <1>2, <1>9
<1> QED
  BY <1>2, <1>10, <1>11, <1>12 DEF IInv

\* GetRefCount answers the host's count and changes none, although it may
\* add a node and grow the table.
LEMMA GetRefCountIInv ==
  ASSUME IInv, NEW o \in Objs, GetRefCount(o)
  PROVE  IInv' /\ answer' = held[o]
<1> DEFINE t == GetAdd(table, o)
           n == Lookup(t, o)
<1>1. /\ GoodTable(table) /\ held \in [Objs -> 0 .. MaxRefs]
      /\ \A p \in Objs : RefsIn(table, p) = held[p]
  BY DEF IInv, GetRefCount
<1>2. table' = t /\ answer' = t.refs[n] /\ UNCHANGED <<held, closed>>
  BY DEF GetRefCount
<1>3. /\ GoodTable(t) /\ n \in InUse(t)
      /\ \A p \in Objs : RefsIn(t, p) = held[p]
  BY <1>1, GetAddSound
<1> HIDE DEF t
<1>4. n # NoNode
  BY <1>3 DEF InUse, Nodes, NoNode
<1>5. t.refs[n] = held[o]
  BY <1>3, <1>4 DEF RefsIn
<1>6. held[o] \in 0 .. MaxUInt
  BY <1>1, BoundAssumption
<1>7. TableType(t)
  BY <1>3 DEF GoodTable
<1> QED
  BY <1>2, <1>3, <1>5, <1>6, <1>7 DEF IInv

\* Release finds the node of what the host holds, lowers its count by one
\* and answers SQTrue exactly when that was the last reference.
LEMMA ReleaseIInv ==
  ASSUME IInv, NEW o \in Objs, Release(o)
  PROVE  /\ IInv'
         /\ answer' = IF held[o] = 1 THEN SQTrue ELSE SQFalse
<1> DEFINE n == Lookup(table, o)
<1>1. /\ GoodTable(table) /\ ~closed /\ held[o] > 0
      /\ held \in [Objs -> 0 .. MaxRefs]
      /\ \A p \in Objs : RefsIn(table, p) = held[p]
      /\ n # NoNode
      /\ held' = [held EXCEPT ![o] = @ - 1]
      /\ UNCHANGED closed
  BY DEF IInv, Release
<1>2. n \in InUse(table) /\ table.obj[n] = o
  BY <1>1, LookupSound
<1>3. table.refs[n] = held[o]
  BY <1>1 DEF RefsIn
<1>4. Dec(table.refs[n]) = held[o] - 1 /\ held[o] - 1 \in 0 .. MaxRefs
      /\ held[o] - 1 \in 0 .. MaxUInt
  BY <1>1, <1>3, BoundAssumption DEF Dec
<1>5. held' \in [Objs -> 0 .. MaxRefs]
  BY <1>1, <1>4
<1>6. table.refs \in [Nodes(table) -> 0 .. MaxUInt] /\ n \in Nodes(table)
  BY <1>1, <1>2 DEF GoodTable, TableType, InUse
<1>7. \/ /\ held[o] - 1 = 0
         /\ table' = Unlink(table, n, o)
         /\ answer' = SQTrue
      \/ /\ held[o] - 1 # 0
         /\ table' = SetRefs(table, n, held[o] - 1)
         /\ answer' = SQFalse
  BY <1>4 DEF Release
<1>8. answer' \in 0 .. MaxUInt /\ answer' = IF held[o] = 1 THEN SQTrue ELSE SQFalse
  BY <1>1, <1>7, BoundAssumption DEF SQTrue, SQFalse
<1> HIDE DEF n
<1>9. CASE held[o] - 1 = 0 /\ table' = Unlink(table, n, o)
  <2> DEFINE u == Unlink(table, n, o)
  <2>1. /\ GoodTable(u)
        /\ InUse(u) = InUse(table) \ {n}
        /\ \A k \in InUse(table) \ {n} :
              u.obj[k] = table.obj[k] /\ u.refs[k] = table.refs[k]
    BY <1>1, <1>2, UnlinkSound
  <2> HIDE DEF u
  <2>2. ASSUME NEW p \in Objs PROVE RefsIn(u, p) = held'[p]
    <3>1. CASE p = o
      <4>1. \A k \in InUse(u) : u.obj[k] # o
        BY <1>1, <1>2, <2>1 DEF GoodTable, Unique
      <4>2. Lookup(u, o) = NoNode
        BY <2>1, <4>1, LookupSound
      <4> QED
        BY <1>1, <1>9, <3>1, <4>2 DEF RefsIn
    <3>2. CASE p # o
      <4>1. \A k : k \in InUse(table) /\ table.obj[k] = p
              => k \in InUse(u) /\ u.obj[k] = p /\ u.refs[k] = table.refs[k]
        BY <1>2, <2>1, <3>2
      <4>2. \A k : k \in InUse(u) /\ u.obj[k] = p
              => (k \in InUse(table) /\ table.obj[k] = p) \/ u.refs[k] = 0
        BY <2>1
      <4>3. GoodTable(table) /\ GoodTable(u)
        BY <1>1, <2>1
      <4>4. RefsIn(u, p) = RefsIn(table, p)
        BY <4>1, <4>2, <4>3, SameRefs
      <4> QED
        BY <1>1, <3>2, <4>4
    <3> QED
      BY <3>1, <3>2
  <2>3. GoodTable(table') /\ TableType(table')
    BY <1>9, <2>1 DEF GoodTable, u
  <2>4. \A p \in Objs : RefsIn(table', p) = held'[p]
    BY <1>9, <2>2 DEF u
  <2> QED
    BY <1>1, <1>5, <1>8, <2>3, <2>4 DEF IInv
<1>10. CASE held[o] - 1 # 0 /\ table' = SetRefs(table, n, held[o] - 1)
  <2> DEFINE u == SetRefs(table, n, held[o] - 1)
  <2>1. /\ GoodTable(u) /\ InUse(u) = InUse(table) /\ u.obj = table.obj
        /\ u.refs = [table.refs EXCEPT ![n] = held[o] - 1]
    BY <1>1, <1>2, <1>4, SetRefsSound
  <2> HIDE DEF u
  <2>2. ASSUME NEW p \in Objs PROVE RefsIn(u, p) = held'[p]
    <3>1. CASE p = o
      <4>1. Lookup(u, o) = n
        BY <1>2, <2>1, LookupSound
      <4>2. u.refs[n] = held[o] - 1 /\ n # NoNode
        BY <1>1, <1>6, <2>1 DEF n
      <4> QED
        BY <1>1, <3>1, <4>1, <4>2 DEF RefsIn
    <3>2. CASE p # o
      <4>1. \A k : k \in InUse(table) /\ table.obj[k] = p
              => k \in InUse(u) /\ u.obj[k] = p /\ u.refs[k] = table.refs[k]
        BY <1>2, <1>6, <2>1, <3>2
      <4>2. \A k : k \in InUse(u) /\ u.obj[k] = p
              => (k \in InUse(table) /\ table.obj[k] = p) \/ u.refs[k] = 0
        BY <2>1
      <4>3. GoodTable(table) /\ GoodTable(u)
        BY <1>1, <2>1
      <4>4. RefsIn(u, p) = RefsIn(table, p)
        BY <4>1, <4>2, <4>3, SameRefs
      <4> QED
        BY <1>1, <3>2, <4>4
    <3> QED
      BY <3>1, <3>2
  <2>3. GoodTable(table') /\ TableType(table')
    BY <1>10, <2>1 DEF GoodTable, u
  <2>4. \A p \in Objs : RefsIn(table', p) = held'[p]
    BY <1>10, <2>2 DEF u
  <2> QED
    BY <1>1, <1>5, <1>8, <2>3, <2>4 DEF IInv
<1> QED
  BY <1>7, <1>8, <1>9, <1>10

\* Finalize leaves a table of the right shape and closes it.
LEMMA FinalizeIInv ==
  ASSUME IInv, Finalize
  PROVE  IInv' /\ \A o \in Objs : RefsIn(table', o) = 0 /\ held'[o] = 0
<1> DEFINE u == [table EXCEPT !.obj = [n \in Nodes(table) |-> Null]]
<1>1. TableType(table) /\ table' = u /\ held' = [o \in Objs |-> 0] /\ closed'
      /\ answer' = answer /\ answer \in 0 .. MaxUInt
  BY DEF IInv, Finalize
<1>2. [n \in Nodes(table) |-> Null] \in [Nodes(table) -> Objs \cup {Null}]
  OBVIOUS
<1>3. u \in [numofslots : Nat \ {0},
             slotused   : Nat,
             obj        : [Nodes(table) -> Objs \cup {Null}],
             refs       : [Nodes(table) -> 0 .. MaxUInt],
             buckets    : [Nodes(table) -> SUBSET Nodes(table)],
             freelist   : SUBSET Nodes(table)]
  BY <1>1, <1>2 DEF TableType
<1>4. /\ u.numofslots = table.numofslots
      /\ u.obj = [n \in Nodes(table) |-> Null]
  BY <1>1 DEF TableType
<1> HIDE DEF u
<1>5. Nodes(u) = Nodes(table)
  BY <1>4 DEF Nodes
<1>6. TableType(u)
  BY <1>3, <1>5 DEF TableType
<1>7. 0 \in 0 .. MaxRefs
  BY BoundAssumption
<1>8. held' \in [Objs -> 0 .. MaxRefs]
  BY <1>1, <1>7
<1>9. closed' = TRUE
  BY DEF Finalize
<1>10. ASSUME NEW o \in Objs PROVE RefsIn(u, o) = 0
  <2>1. MainPos(o, u.numofslots) \in Nodes(u)
    BY <1>6, MainPosInTable DEF TableType, Nodes
  <2>2. u.buckets[MainPos(o, u.numofslots)] \subseteq Nodes(u)
    BY <1>6, <2>1 DEF TableType
  <2>3. \A n \in u.buckets[MainPos(o, u.numofslots)] : u.obj[n] # o
    BY <1>4, <1>5, <2>2, NullAssumption
  <2>4. Lookup(u, o) = NoNode
    BY <2>3 DEF Lookup
  <2> QED
    BY <2>4 DEF RefsIn
<1> QED
  BY <1>1, <1>6, <1>8, <1>9, <1>10 DEF IInv

\* Every step of the table keeps the invariant.
LEMMA NextIInv == IInv /\ [Next]_vars => IInv'
<1> SUFFICES ASSUME IInv, [Next]_vars PROVE IInv'
  OBVIOUS
<1>1. CASE \E o \in Objs : AddRef(o)
  BY <1>1, AddRefIInv
<1>2. CASE \E o \in Objs : GetRefCount(o)
  BY <1>2, GetRefCountIInv
<1>3. CASE \E o \in Objs : Release(o)
  BY <1>3, ReleaseIInv
<1>4. CASE Finalize
  BY <1>4, FinalizeIInv
<1>5. CASE UNCHANGED vars
  BY <1>5 DEF vars, IInv
<1> QED
  BY <1>1, <1>2, <1>3, <1>4, <1>5 DEF Next

\* Every reachable table is well formed and counts what the host holds.
THEOREM InductiveInvariant == Spec => []IInv
BY InitIInv, NextIInv, PTL DEF Spec

\* The tables and counters of sqstate.cpp keep their shape; in particular no
\* count leaves the range of an SQUnsignedInteger.
THEOREM TypeCorrect == Spec => []TypeOK
<1>1. IInv => TypeOK
  BY DEF IInv, TypeOK, TableType
<1> QED
  BY <1>1, InductiveInvariant, PTL

\* The chains, the free list and the counters of the table agree with its
\* nodes: the asserts of Add, Get and (for nfound) Resize hold.
THEOREM TableWellFormed ==
  Spec => [](ChainsSound /\ OneNodePerObject /\ SlotsAccounted)
<1>1. IInv => ChainsSound
  BY DEF IInv, GoodTable, Chained, ChainsSound
<1>2. IInv => OneNodePerObject
  BY DEF IInv, GoodTable, Unique, OneNodePerObject
<1>3. IInv => SlotsAccounted
  BY FullMeansNoFreeNode DEF IInv, GoodTable, Counted, SlotsAccounted
<1> QED
  BY <1>1, <1>2, <1>3, InductiveInvariant, PTL

\* The count of every object is the number of references the host has taken
\* and not given back, and an object with a reference is a collector root.
THEOREM CountsCorrect == Spec => []CountsMatchHost
<1>1. IInv => CountsMatchHost
  <2> SUFFICES ASSUME IInv, ~closed, NEW o \in Objs
               PROVE  RefsOf(o) = held[o] /\ (held[o] > 0 => o \in Mark)
    BY DEF CountsMatchHost
  <2>1. RefsIn(table, o) = held[o] /\ GoodTable(table)
    BY DEF IInv
  <2>2. ASSUME held[o] > 0 PROVE o \in Mark
    <3>1. Lookup(table, o) # NoNode
      BY <2>1, <2>2 DEF RefsIn
    <3> QED
      BY <2>1, <3>1, LookupSound DEF Mark
  <2> QED
    BY <2>1, <2>2 DEF RefsOf
<1> QED
  BY <1>1, InductiveInvariant, PTL

\* Only a release or the shutdown takes a root away: growing the table and
\* asking for a count lose none.
THEOREM RootsKept == Spec => GrowthKeepsRoots
<1> DEFINE Kept == \A o \in Mark : o \in Mark' \/ held'[o] < held[o] \/ closed'
<1>1. ASSUME IInv, [Next]_vars PROVE [Kept]_vars
  <2>1. ASSUME NEW o \in Objs, GetRefCount(o) PROVE Kept
    <3>1. GoodTable(table) /\ table' = GetAdd(table, o)
      BY <1>1, <2>1 DEF IInv, GetRefCount
    <3>2. \A k \in InUse(table) : k \in InUse(table') /\ table'.obj[k] = table.obj[k]
      BY <3>1, GetAddSound
    <3> QED
      BY <3>2 DEF Mark
  <2>2. ASSUME NEW o \in Objs, AddRef(o) PROVE Kept
    <3> DEFINE t == GetAdd(table, o)
               n == Lookup(t, o)
    <3>1. /\ GoodTable(table) /\ held \in [Objs -> 0 .. MaxRefs] /\ held[o] < MaxRefs
          /\ \A p \in Objs : RefsIn(table, p) = held[p]
          /\ table' = SetRefs(t, n, Inc(t.refs[n]))
      BY <1>1, <2>2 DEF IInv, AddRef
    <3>2. /\ GoodTable(t) /\ n \in InUse(t)
          /\ \A k \in InUse(table) : k \in InUse(t) /\ t.obj[k] = table.obj[k]
      BY <3>1, GetAddSound
    <3> HIDE DEF t
    <3>3. Inc(t.refs[n]) \in 0 .. MaxUInt
      <4>1. t.refs[n] \in 0 .. MaxUInt
        BY <3>2 DEF GoodTable, TableType, InUse
      <4> QED
        BY <4>1, BoundAssumption DEF Inc
    <3>4. InUse(table') = InUse(t) /\ table'.obj = t.obj
      BY <3>1, <3>2, <3>3, SetRefsSound
    <3> QED
      BY <3>2, <3>4 DEF Mark
  <2>3. ASSUME NEW o \in Objs, Release(o) PROVE Kept
    <3> DEFINE n == Lookup(table, o)
    <3>1. /\ GoodTable(table) /\ held \in [Objs -> 0 .. MaxRefs]
          /\ held' = [held EXCEPT ![o] = @ - 1]
          /\ n # NoNode
          /\ table' = Unlink(table, n, o) \/ table' = SetRefs(table, n, Dec(table.refs[n]))
      BY <1>1, <2>3 DEF IInv, Release
    <3>2. n \in InUse(table) /\ table.obj[n] = o
      BY <3>1, LookupSound
    <3>3. held'[o] < held[o]
      BY <3>1
    <3> HIDE DEF n
    <3>4. CASE table' = Unlink(table, n, o)
      <4>1. /\ InUse(table') = InUse(table) \ {n}
            /\ \A k \in InUse(table) \ {n} : table'.obj[k] = table.obj[k]
        BY <3>1, <3>2, <3>4, UnlinkSound
      <4> QED
        BY <3>2, <3>3, <4>1 DEF Mark
    <3>5. CASE table' = SetRefs(table, n, Dec(table.refs[n]))
      <4>1. Dec(table.refs[n]) \in 0 .. MaxUInt
        <5>1. table.refs[n] \in 0 .. MaxUInt
          BY <3>1, <3>2 DEF GoodTable, TableType, InUse
        <5> QED
          BY <5>1, BoundAssumption DEF Dec
      <4>2. InUse(table') = InUse(table) /\ table'.obj = table.obj
        BY <3>1, <3>2, <3>5, <4>1, SetRefsSound
      <4> QED
        BY <4>2 DEF Mark
    <3> QED
      BY <3>1, <3>4, <3>5
  <2>4. CASE Finalize
    BY <2>4 DEF Finalize
  <2> QED
    BY <1>1, <2>1, <2>2, <2>3, <2>4 DEF Next
<1> QED
  BY <1>1, InductiveInvariant, PTL DEF Spec, GrowthKeepsRoots

\* The table implements the reference counts the host sees: every operation
\* is one step of HostRefs, with the same answer.
THEOREM RefTableImplementsHostRefs == Spec => ImplementsHostRefs
<1> DEFINE C == [o \in Objs |-> RefsOf(o)]
<1>1. Init => Host!HInit
  <2> SUFFICES ASSUME Init PROVE Host!HInit
    OBVIOUS
  <2>1. IInv /\ ~closed
    BY InitIInv DEF Init
  <2>2. \A o \in Objs : RefsOf(o) = 0
    BY <2>1 DEF IInv, Init, RefsOf
  <2> QED
    BY <2>2 DEF Init, Host!HInit, SQFalse, Host!SQFalse
<1>2. ASSUME IInv, IInv', [Next]_vars PROVE [Host!HNext]_(Host!hostVars)
  <2> USE DEF RefsOf
  <2>1. ~closed => \A o \in Objs : RefsOf(o) = held[o]
    BY <1>2 DEF IInv
  <2>2. ~closed' => \A o \in Objs : RefsOf(o)' = held'[o]
    BY <1>2 DEF IInv
  <2>3. held \in [Objs -> 0 .. MaxRefs]
    BY <1>2 DEF IInv
  <2>4. ASSUME NEW o \in Objs, AddRef(o) PROVE Host!HAddRef(o)
    <3>1. /\ ~closed /\ ~closed' /\ held[o] < MaxRefs /\ answer' = answer
          /\ held' = [held EXCEPT ![o] = held[o] + 1]
      BY <2>4 DEF AddRef
    <3>2. C = held /\ C' = held'
      BY <2>1, <2>2, <2>3, <3>1
    <3> QED
      BY <3>1, <3>2 DEF Host!HAddRef
  <2>5. ASSUME NEW o \in Objs, GetRefCount(o) PROVE Host!HGetRefCount(o)
    <3>1. ~closed /\ ~closed' /\ held' = held
      BY <2>5 DEF GetRefCount
    <3>2. answer' = held[o]
      BY <1>2, <2>5, GetRefCountIInv
    <3>3. C = held /\ C' = held'
      BY <2>1, <2>2, <2>3, <3>1
    <3> QED
      BY <3>1, <3>2, <3>3 DEF Host!HGetRefCount
  <2>6. ASSUME NEW o \in Objs, Release(o) PROVE Host!HRelease(o)
    <3>1. /\ ~closed /\ ~closed' /\ held[o] > 0
          /\ held' = [held EXCEPT ![o] = held[o] - 1]
      BY <2>6 DEF Release
    <3>2. answer' = IF held[o] = 1 THEN SQTrue ELSE SQFalse
      BY <1>2, <2>6, ReleaseIInv
    <3>3. C = held /\ C' = held'
      BY <2>1, <2>2, <2>3, <3>1
    <3> QED
      BY <3>1, <3>2, <3>3
      DEF Host!HRelease, SQTrue, SQFalse, Host!SQTrue, Host!SQFalse
  <2>7. CASE Finalize
    <3>1. \A o \in Objs : RefsOf(o)' = 0
      BY <1>2, <2>7, FinalizeIInv
    <3>2. answer' = answer
      BY <2>7 DEF Finalize
    <3> QED
      BY <3>1, <3>2 DEF Host!HFinalize, Host!HNext
  <2>8. CASE UNCHANGED vars
    BY <2>8 DEF vars, Host!hostVars
  <2> QED
    BY <1>2, <2>4, <2>5, <2>6, <2>7, <2>8 DEF Next, Host!HNext
<1> QED
  BY <1>1, <1>2, InductiveInvariant, PTL
  DEF Spec, ImplementsHostRefs, Host!HSpec
=============================================================================
