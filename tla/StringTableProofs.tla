------------------------- MODULE StringTableProofs --------------------------
(***************************************************************************)
(* Proofs about StringTable, for all texts, addresses and hash functions.  *)
(***************************************************************************)
EXTENDS StringTable, FiniteSetTheorems, TLAPS

\* What a string is, and that a table has at least one slot.
TypeOK ==
  /\ Live \subseteq Addresses
  /\ strings \in [Live -> [text : Texts, refs : Nat \ {0}]]
  /\ slots \in Seq(SUBSET Addresses)
  /\ slots # <<>>
  /\ slotused \in Nat

IInv == TypeOK /\ InternedOnce /\ IsFiniteSet(Live)

\* The slot of a text is one of the table's.
LEMMA SlotInTable ==
  ASSUME NEW t \in Texts, NEW n \in Nat \ {0}
  PROVE  SlotOf(t, n) \in 1 .. n
<1>1. Hash[t] \in Nat
  BY HashAssumption
<1>2. \A a \in Nat : a % n \in 0 .. n - 1
  OBVIOUS
<1> QED
  BY <1>1, <1>2 DEF SlotOf

\* A table written slot by slot is a sequence of that length.
LEMMA TableOfSlots ==
  ASSUME NEW n \in Nat \ {0}, NEW T \in [1 .. n -> SUBSET Addresses]
  PROVE  /\ T \in Seq(SUBSET Addresses)
         /\ Len(T) = n /\ DOMAIN T = 1 .. n /\ T # <<>>
  OBVIOUS

\* What the slots of a table are.
LEMMA SlotsType ==
  ASSUME TypeOK
  PROVE  /\ NumOfSlots \in Nat \ {0}
         /\ DOMAIN slots = 1 .. NumOfSlots
         /\ slots \in [1 .. NumOfSlots -> SUBSET Addresses]
  BY DEF TypeOK, NumOfSlots

\* Resize gathers the strings of every chain under the new mask and loses none.
LEMMA ResizeMovesAll ==
  ASSUME NEW A, NEW n \in Nat \ {0}, NEW m \in Nat \ {0},
         NEW texts \in [A -> Texts], A \subseteq Addresses,
         NEW table \in [1 .. m -> SUBSET Addresses],
         \A h \in 1 .. m : table[h] = {a \in A : SlotOf(texts[a], m) = h}
  PROVE  /\ Resize(texts, table, n) \in [1 .. n -> SUBSET Addresses]
         /\ \A h \in 1 .. n : Resize(texts, table, n)[h] = {a \in A : SlotOf(texts[a], n) = h}
<1>1. \A a \in A : SlotOf(texts[a], m) \in 1 .. m
  BY SlotInTable
<1>2. UNION {table[i] : i \in DOMAIN table} = A
  BY <1>1
<1> QED
  BY <1>2 DEF Resize

\* What is left to show of a new state: its strings and the chains that hold them.
LEMMA GoodTable ==
  ASSUME NEW A, A \subseteq Addresses, IsFiniteSet(A), NEW k \in Nat \ {0},
         Live' = A, strings' \in [A -> [text : Texts, refs : Nat \ {0}]],
         \A x, y \in A : strings'[x].text = strings'[y].text => x = y,
         slots' \in [1 .. k -> SUBSET Addresses],
         \A h \in 1 .. k : slots'[h] = {x \in A : SlotOf(strings'[x].text, k) = h},
         slotused' = Cardinality(A), slotused' <= k
  PROVE  IInv'
<1>1. slots' \in Seq(SUBSET Addresses) /\ Len(slots') = k /\ DOMAIN slots' = 1 .. k /\ slots' # <<>>
  BY TableOfSlots
<1>2. slotused' \in Nat
  BY FS_CardinalityType
<1>3. TypeOK'
  BY <1>1, <1>2 DEF TypeOK
<1>4. InternedOnce'
  BY <1>1 DEF InternedOnce, NumOfSlots, SlotOf
<1> QED
  BY <1>3, <1>4 DEF IInv

\* The four empty chains of a new table hold the strings that exist: none.
THEOREM Initially == Init => IInv
<1> SUFFICES ASSUME Init PROVE IInv
  OBVIOUS
<1>1. AllocNodes(4) \in [1 .. 4 -> SUBSET Addresses] /\ \A h \in 1 .. 4 : AllocNodes(4)[h] = {}
  BY DEF AllocNodes
<1>2. Live = {} /\ slotused = 0 /\ slots = AllocNodes(4)
  BY DEF Init, Live
<1>3. slots \in Seq(SUBSET Addresses) /\ Len(slots) = 4 /\ DOMAIN slots = 1 .. 4 /\ slots # <<>>
  <2>1. /\ AllocNodes(4) \in Seq(SUBSET Addresses)
        /\ Len(AllocNodes(4)) = 4 /\ DOMAIN AllocNodes(4) = 1 .. 4 /\ AllocNodes(4) # <<>>
    BY <1>1, TableOfSlots, 4 \in Nat \ {0}
  <2> QED
    BY <2>1, <1>2
<1>4. strings \in [Live -> [text : Texts, refs : Nat \ {0}]]
  BY <1>2 DEF Init, Live
<1>5. TypeOK
  BY <1>2, <1>3, <1>4 DEF TypeOK
<1>6. InternedOnce
  BY <1>1, <1>2, <1>3, FS_EmptySet DEF InternedOnce, NumOfSlots
<1> QED
  BY <1>2, <1>5, <1>6, FS_EmptySet DEF IInv

\* A step that only moves reference counts.
LEMMA CountsOnly ==
  ASSUME IInv, NEW a \in Live, NEW d \in {-1, 1}, strings[a].refs + d > 0,
         strings' = Referenced(a, d), UNCHANGED <<slots, slotused>>
  PROVE  IInv'
<1>1. Live' = Live
  BY DEF Referenced, Live, IInv, TypeOK
<1>2. /\ strings' \in [Live -> [text : Texts, refs : Nat \ {0}]]
      /\ \A x \in Live : strings'[x].text = strings[x].text
  BY DEF Referenced, Live, IInv, TypeOK
<1>3. TypeOK'
  BY <1>1, <1>2 DEF IInv, TypeOK
<1>4. InternedOnce'
  BY <1>1, <1>2 DEF IInv, InternedOnce, NumOfSlots, SlotOf
<1> QED
  BY <1>1, <1>3, <1>4 DEF IInv

LEMMA AddNewStep ==
  ASSUME IInv, NEW t \in Texts, AddNew(t)
  PROVE  IInv'
<1> PICK a \in Addresses \ Live :
       LET texts == [x \in Live \cup {a} |-> IF x = a THEN t ELSE strings[x].text]
           table == Link(slots, t, a)
       IN  /\ strings' = [x \in Live \cup {a} |-> IF x = a THEN [text |-> t, refs |-> 1] ELSE strings[x]]
           /\ slotused' = slotused + 1
           /\ slots' = IF slotused + 1 > NumOfSlots THEN Resize(texts, table, NumOfSlots * 2) ELSE table
  BY DEF AddNew
<1> DEFINE A     == Live \cup {a}
           texts == [x \in A |-> IF x = a THEN t ELSE strings[x].text]
           table == Link(slots, t, a)
           n     == NumOfSlots
<1>1. n \in Nat \ {0} /\ DOMAIN slots = 1 .. n /\ slots \in [1 .. n -> SUBSET Addresses]
  BY SlotsType DEF IInv
<1>2. /\ Live' = A
      /\ strings' \in [A -> [text : Texts, refs : Nat \ {0}]]
      /\ \A x \in A : strings'[x].text = texts[x]
      /\ texts \in [A -> Texts]
      /\ A \subseteq Addresses
  BY DEF IInv, TypeOK, Live
<1>3. /\ table \in [1 .. n -> SUBSET Addresses]
      /\ \A h \in 1 .. n : table[h] = {x \in A : SlotOf(texts[x], n) = h}
  <2>1. SlotOf(t, n) \in 1 .. n
    BY <1>1, SlotInTable
  <2>2. table = [slots EXCEPT ![SlotOf(t, n)] = @ \cup {a}]
    BY DEF Link, NumOfSlots
  <2>3. \A h \in 1 .. n : slots[h] = {x \in Live : SlotOf(strings[x].text, n) = h}
    BY <1>1 DEF IInv, InternedOnce
  <2>4. \A x \in Live : x # a /\ texts[x] = strings[x].text
    OBVIOUS
  <2>5. texts[a] = t
    OBVIOUS
  <2> HIDE DEF texts, table, n
  <2>6. table \in [1 .. n -> SUBSET Addresses]
    BY <1>1, <2>2
  <2>7. ASSUME NEW h \in 1 .. n
        PROVE  table[h] = {x \in A : SlotOf(texts[x], n) = h}
    <3>1. CASE h = SlotOf(t, n)
      <4>1. table[h] = slots[h] \cup {a}
        BY <3>1, <2>1, <2>2, <1>1
      <4> QED
        BY <4>1, <3>1, <2>3, <2>4, <2>5
    <3>2. CASE h # SlotOf(t, n)
      <4>1. table[h] = slots[h]
        BY <3>2, <2>1, <2>2, <1>1
      <4> QED
        BY <4>1, <3>2, <2>3, <2>4, <2>5
    <3> QED
      BY <3>1, <3>2
  <2> QED
    BY <2>6, <2>7
<1>4. IsFiniteSet(A) /\ slotused' = Cardinality(A) /\ slotused' \in Nat
  BY FS_AddElement, FS_CardinalityType DEF IInv, InternedOnce, TypeOK
<1>5. \A x, y \in A : texts[x] = texts[y] => x = y
  <2>1. \A x \in Live : strings[x].text # t
    <3> SUFFICES ASSUME NEW x \in Live, strings[x].text = t PROVE FALSE
      OBVIOUS
    <3>1. SlotOf(t, n) \in DOMAIN slots
      BY <1>1, SlotInTable
    <3>2. x \in slots[SlotOf(t, n)]
      BY <3>1 DEF IInv, InternedOnce
    <3> QED
      BY <3>2 DEF AddNew, Found
  <2> QED
    BY <2>1 DEF IInv, InternedOnce
<1>6. PICK k \in Nat \ {0} :
        /\ slots' \in [1 .. k -> SUBSET Addresses]
        /\ \A h \in 1 .. k : slots'[h] = {x \in A : SlotOf(texts[x], k) = h}
        /\ slotused' <= k
  <2>1. CASE slotused + 1 > n
    <3>1. slots' = Resize(texts, table, n * 2)
      BY <2>1
    <3>2. slotused' <= n * 2 /\ n * 2 \in Nat \ {0}
      BY <1>1, <2>1 DEF IInv, InternedOnce, TypeOK
    <3> HIDE DEF texts, table, n, A
    <3>3. ASSUME NEW j \in Nat \ {0}
          PROVE  /\ Resize(texts, table, j) \in [1 .. j -> SUBSET Addresses]
                 /\ \A h \in 1 .. j : Resize(texts, table, j)[h] = {x \in A : SlotOf(texts[x], j) = h}
      <4>1. A \subseteq Addresses /\ texts \in [A -> Texts] /\ n \in Nat \ {0}
        BY <1>1, <1>2
      <4>2. table \in [1 .. n -> SUBSET Addresses]
        BY <1>3
      <4>3. \A h \in 1 .. n : table[h] = {x \in A : SlotOf(texts[x], n) = h}
        BY <1>3
      <4> QED
        BY ONLY <4>1, <4>2, <4>3, <3>3, ResizeMovesAll
    <3> QED
      BY <3>1, <3>2, <3>3
  <2>2. CASE ~(slotused + 1 > n)
    <3>1. slots' = table /\ slotused' <= n
      BY <2>2, <1>1 DEF IInv, TypeOK
    <3> HIDE DEF texts, table, n, A
    <3> QED
      BY <3>1, <1>1, <1>3
  <2> QED
    BY <2>1, <2>2
<1>7. /\ \A x, y \in A : strings'[x].text = strings'[y].text => x = y
      /\ \A h \in 1 .. k : slots'[h] = {x \in A : SlotOf(strings'[x].text, k) = h}
  BY <1>2, <1>5, <1>6
<1> HIDE DEF texts, table, n, A
<1> QED
  BY <1>2, <1>4, <1>6, <1>7, GoodTable

LEMMA ReleaseLastStep ==
  ASSUME IInv, NEW a \in Live, Release(a), ~(strings[a].refs > 1)
  PROVE  IInv'
<1> DEFINE n == NumOfSlots
           h == SlotOf(strings[a].text, n)
<1>1. n \in Nat \ {0} /\ DOMAIN slots = 1 .. n /\ slots \in [1 .. n -> SUBSET Addresses]
  BY SlotsType DEF IInv
<1>2. h \in 1 .. n
  BY <1>1, SlotInTable DEF IInv, TypeOK
<1>3. a \in slots[h]
  BY <1>1, <1>2 DEF IInv, InternedOnce
<1>4. /\ strings' = [x \in Live \ {a} |-> strings[x]]
      /\ slots' = [slots EXCEPT ![h] = @ \ {a}] /\ slotused' = slotused - 1
  BY <1>3 DEF Release, Unlink
<1>5. /\ Live' = Live \ {a}
      /\ strings' \in [Live' -> [text : Texts, refs : Nat \ {0}]]
      /\ \A x \in Live' : strings'[x] = strings[x]
  BY <1>4 DEF Live, IInv, TypeOK
<1>6. IsFiniteSet(Live') /\ slotused' = Cardinality(Live') /\ slotused' \in Nat /\ slotused' <= n
  <2>1. Cardinality(Live') = Cardinality(Live) - 1 /\ IsFiniteSet(Live')
    BY <1>5, FS_RemoveElement DEF IInv
  <2> QED
    BY <2>1, <1>1, <1>4, FS_CardinalityType DEF IInv, InternedOnce, TypeOK
<1>7. slots' \in [1 .. n -> SUBSET Addresses]
  BY <1>1, <1>4
<1>9. \A i \in 1 .. n : slots'[i] = {x \in Live' : SlotOf(strings'[x].text, n) = i}
  <2> SUFFICES ASSUME NEW i \in 1 .. n
               PROVE  slots'[i] = {x \in Live' : SlotOf(strings'[x].text, n) = i}
    OBVIOUS
  <2>1. slots[i] = {x \in Live : SlotOf(strings[x].text, n) = i}
    BY <1>1 DEF IInv, InternedOnce
  <2>2. slots'[i] = slots[i] \ {a}
    <3>1. CASE i = h
      BY <3>1, <1>1, <1>2, <1>4
    <3>2. CASE i # h
      <4>1. slots'[i] = slots[i]
        BY <3>2, <1>1, <1>2, <1>4
      <4> QED
        BY <4>1, <3>2, <2>1
    <3> QED
      BY <3>1, <3>2
  <2> HIDE DEF n, h
  <2> QED
    BY <2>1, <2>2, <1>5
<1>10. \A x, y \in Live' : strings'[x].text = strings'[y].text => x = y
  BY <1>5 DEF IInv, InternedOnce
<1> HIDE DEF n, h
<1> QED
  BY <1>1, <1>5, <1>6, <1>7, <1>9, <1>10, GoodTable DEF IInv, TypeOK

\* Every operation of the table keeps the inductive invariant.
LEMMA Step == IInv /\ [Next]_vars => IInv'
<1> SUFFICES ASSUME IInv, [Next]_vars PROVE IInv'
  OBVIOUS
<1>1. ASSUME NEW t \in Texts, AddKnown(t) PROVE IInv'
  <2>1. PICK a \in Found(t) : /\ strings[a].refs < MaxRefs
                              /\ strings' = Referenced(a, 1)
                              /\ UNCHANGED <<slots, slotused>>
    BY <1>1 DEF AddKnown
  <2>2. a \in Live
    <3>1. SlotOf(t, NumOfSlots) \in DOMAIN slots
      BY SlotInTable, SlotsType DEF IInv
    <3> QED
      BY <3>1 DEF Found, IInv, InternedOnce
  <2>3. strings[a].refs + 1 > 0
    BY <2>2 DEF IInv, TypeOK
  <2> QED
    BY <2>1, <2>2, <2>3, CountsOnly
<1>2. ASSUME NEW t \in Texts, AddNew(t) PROVE IInv'
  BY <1>2, AddNewStep
<1>3. ASSUME NEW a \in Live, AddRef(a) PROVE IInv'
  <2>1. strings[a].refs + 1 > 0
    BY DEF IInv, TypeOK
  <2> QED
    BY <2>1, <1>3, CountsOnly DEF AddRef
<1>4. ASSUME NEW a \in Live, Release(a) PROVE IInv'
  <2>1. CASE strings[a].refs > 1
    <3>1. strings[a].refs + (-1) > 0
      BY <2>1 DEF IInv, TypeOK
    <3> QED
      BY <2>1, <3>1, <1>4, CountsOnly DEF Release
  <2> QED
    BY <1>4, <2>1, ReleaseLastStep
<1>5. CASE UNCHANGED vars
  <2>1. UNCHANGED <<strings, slots, slotused>>
    BY <1>5 DEF vars
  <2> QED
    BY <2>1 DEF IInv, TypeOK, InternedOnce, Live, NumOfSlots, SlotOf
<1> QED
  BY <1>1, <1>2, <1>3, <1>4, <1>5 DEF Next, Add

\* Interning works for every set of texts and every hash function: equal texts
\* have one string (SQStringTable::Add), which its slot's chain holds as long as
\* it lives, so that Remove always finds it (sqstate.cpp:659 is not reached).
THEOREM AlwaysInternedOnce == Spec => []InternedOnce
<1>1. Init => IInv
  BY Initially
<1>2. IInv /\ [Next]_vars => IInv'
  BY Step
<1>3. IInv => InternedOnce
  BY DEF IInv
<1> QED
  BY <1>1, <1>2, <1>3, PTL DEF Spec
=============================================================================
