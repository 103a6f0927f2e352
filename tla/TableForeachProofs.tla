------------------------- MODULE TableForeachProofs -------------------------
(***************************************************************************)
(* Theorems about TableForeach, for all keys, hash functions and uses: the *)
(* results about tables hold while loops run over them, and a loop whose   *)
(* body leaves the keys where they are visits each of them once.           *)
(***************************************************************************)
EXTENDS TableForeach, SqTableProofs

\* While the array is intact, the loop has seen the keys below its index.
LoopInv ==
  /\ intact \in BOOLEAN /\ twice \in BOOLEAN
  /\ cursor = NoLoop => seen = {} /\ twice = FALSE /\ intact = TRUE
  /\ cursor # NoLoop => cursor \in Nat
  /\ cursor # NoLoop /\ intact = TRUE =>
       twice = FALSE /\ \A n \in Occupied(tbl) : tbl.key[n] \in seen <=> n < cursor

FInv == IInv /\ use \in Uses /\ LoopInv

KeysOf(t) == {t.key[n] : n \in Occupied(t)}

\* _usednodes is the number of keys.
LEMMA KeysCounted ==
  ASSUME NEW t, Good(t)
  PROVE  IsFiniteSet(KeysOf(t)) /\ Cardinality(KeysOf(t)) = t.usednodes
<1> DEFINE O == Occupied(t)
           f == [n \in O |-> t.key[n]]
<1>1. IsFiniteSet(O) /\ Cardinality(O) = t.usednodes
  BY OccupiedFinite DEF Good, TableType, Counted
<1>2. \A m, n \in O : t.key[m] = t.key[n] => m = n
  BY DEF Good, Chained, StoredOnce
<1>3. KeysOf(t) = {t.key[n] : n \in O}
  BY DEF KeysOf
<1> HIDE DEF O
<1>4. f \in Bijection(O, KeysOf(t))
  BY <1>2, <1>3 DEF Bijection, Injection, Surjection, IsInjective
<1> HIDE DEF f
<1>5. ExistsBijection(O, KeysOf(t))
  BY <1>4 DEF ExistsBijection
<1> QED BY <1>1, <1>5, FS_Bijection

\* A new key is one key more.
LEMMA NewKeyCounted ==
  ASSUME NEW t, NEW s, Good(t), Good(s), NEW k, NEW v, ~Has(t, k), PutIn(t, s, k, v)
  PROVE  s.usednodes = t.usednodes + 1
<1>1. ASSUME NEW u, NEW x PROVE x \in KeysOf(u) <=> \E y : Holds(u, x, y)
  BY DEF KeysOf, Holds
<1>2. ASSUME NEW u, NEW x PROVE Has(u, x) <=> x \in KeysOf(u)
  BY DEF KeysOf, Has
<1>3. KeysOf(s) = KeysOf(t) \cup {k}
  <2>1. \A x : x \in KeysOf(s) <=> x \in KeysOf(t) \/ x = k
    BY <1>1 DEF PutIn
  <2> QED BY <2>1
<1>4. k \notin KeysOf(t)
  BY <1>2
<1> QED BY <1>3, <1>4, KeysCounted, FS_AddElement

\* What the body does in an array that stays intact leaves the keys in place.
LEMMA BodyInPlace ==
  ASSUME IInv, use \in Uses, Body, tbl'.numofnodes = tbl.numofnodes, tbl'.usednodes =< tbl.usednodes
  PROVE  InPlace(tbl, tbl')
<1>1. use.keys \subseteq Keys /\ use.vals \subseteq Vals /\ \A v \in use.vals : v \in Vals \cup {Null}
  BY UsesAssumption
<1>2. Sound(tbl)
  BY DEF IInv, Sound
<1>3. ASSUME NEW s, s.key = tbl.key, s.numofnodes = tbl.numofnodes PROVE InPlace(tbl, s)
  BY <1>3 DEF InPlace, Occupied, Nodes
<1>4. ASSUME NEW k \in use.keys, NEW v \in use.vals, NewSlot(k, v) PROVE InPlace(tbl, tbl')
  <2> DEFINE r == NewSlotResult(tbl, k, v)
  <2>1. tbl' = r.tab
    BY <1>4 DEF NewSlot
  <2>2. /\ Sound(r.tab) /\ PutIn(tbl, r.tab, k, v)
        /\ Has(tbl, k) => r.tab.key = tbl.key /\ r.tab.numofnodes = tbl.numofnodes
    BY <1>1, <1>2, NewSlotSound
  <2> HIDE DEF r
  <2>3. Has(tbl, k)
    <3> SUFFICES ASSUME ~Has(tbl, k) PROVE FALSE
      OBVIOUS
    <3>1. r.tab.usednodes = tbl.usednodes + 1
      BY <1>2, <2>2, NewKeyCounted DEF Sound
    <3>2. tbl.usednodes \in Nat
      BY <1>2 DEF Sound, Good, TableType
    <3> QED BY <2>1, <3>1, <3>2
  <2> QED BY <1>3, <2>1, <2>2, <2>3
<1>5. ASSUME NEW k \in use.keys \cup {Null}, NEW v \in use.vals, Set(k, v) PROVE InPlace(tbl, tbl')
  <2>1. CASE tbl' = tbl
    BY <1>3, <2>1
  <2>2. CASE GetNode(tbl, k) # NoNode /\ tbl' = [tbl EXCEPT !.val[GetNode(tbl, k)] = v]
    <3> DEFINE s == [tbl EXCEPT !.val[GetNode(tbl, k)] = v]
    <3>1. s.key = tbl.key /\ s.numofnodes = tbl.numofnodes
      BY <1>1, <1>2, <2>2, SetSound
    <3>2. tbl' = s
      BY <2>2
    <3> HIDE DEF s
    <3> QED BY <1>3, <3>1, <3>2
  <2> QED BY <1>5, <2>1, <2>2 DEF Set
<1>6. ASSUME NEW k \in use.keys, Remove(k) PROVE InPlace(tbl, tbl')
  <2> DEFINE s == Rehash([tbl EXCEPT !.key[GetNode(tbl, k)] = Null,
                                     !.val[GetNode(tbl, k)] = Null,
                                     !.usednodes = @ - 1], FALSE)
  <2>1. tbl' = s /\ GetNode(tbl, k) # NoNode
    BY <1>6 DEF Remove
  <2>2. s.numofnodes = tbl.numofnodes => InPlace(tbl, s)
    BY <1>1, <1>2, <2>1, RemoveSound
  <2> HIDE DEF s
  <2> QED BY <2>1, <2>2
<1> QED BY <1>4, <1>5, <1>6 DEF Body

\* A step of a loop, or of the code around it, is a step of the table or none.
LEMMA StepOfTable ==
  ASSUME use \in Uses, [FNext]_fvars
  PROVE  [TNext]_tvars
<1>1. use.keys \subseteq Keys /\ use.vals \subseteq Vals
  BY UsesAssumption
<1>2. ASSUME Body PROVE TNext
  <2>1. \/ \E k \in use.keys, v \in use.vals : NewSlot(k, v)
        \/ \E k \in use.keys \cup {Null}, v \in use.vals : Set(k, v)
        \/ \E k \in use.keys : Remove(k)
    BY <1>2 DEF Body
  <2> QED BY <1>1, <2>1 DEF TNext
<1>3. ASSUME ForeachBegin \/ ForeachStep \/ UNCHANGED fvars PROVE UNCHANGED tvars
  BY <1>3 DEF ForeachBegin, ForeachStep, fvars, tvars
<1>4. ASSUME ClearInBody \/ CloneOutside PROVE TNext
  BY <1>4 DEF ClearInBody, CloneOutside, TNext
<1> QED BY <1>2, <1>3, <1>4 DEF FNext

\* Next reports the first occupied node from its index on.
LEMMA NextFirst ==
  ASSUME NEW t, t.numofnodes \in Nat \ {0}, NEW idx \in Nat
  PROVE  LET n == NextNode(t, idx)
         IN  /\ n = NoNode => \A m \in Occupied(t) : m < idx
             /\ n # NoNode => n \in Occupied(t) /\ n >= idx /\ \A m \in Occupied(t) : m < n => m < idx
<1> DEFINE rest == {n \in Nodes(t) : n >= idx /\ t.key[n] # Null}
           n == NextNode(t, idx)
<1>1. \A m \in Nodes(t) : m \in Nat
  BY DEF Nodes
<1>2. CASE rest = {}
  <2>1. n = NoNode
    BY <1>2 DEF NextNode
  <2>2. ASSUME NEW m \in Occupied(t) PROVE m < idx
    BY <1>1, <1>2 DEF Occupied
  <2> QED BY <2>1, <2>2
<1>3. CASE rest # {}
  <2>1. n = Min(rest)
    BY <1>3 DEF NextNode
  <2>2. rest \subseteq Nat
    BY <1>1
  <2>3. \A m : m \in rest <=> m \in Occupied(t) /\ m >= idx
    BY DEF Occupied
  <2> HIDE DEF rest
  <2>4. \E m \in rest : \A y \in rest : m <= y
    BY <1>3, <2>2, LeastElement
  <2>5. Min(rest) \in rest /\ \A y \in rest : Min(rest) <= y
    BY <2>4 DEF Min
  <2> HIDE DEF n
  <2>6. n \in Nat /\ n # NoNode /\ n \in Occupied(t) /\ n >= idx
    <3>1. n \in rest
      BY <2>1, <2>5
    <3>2. n \in Nat /\ n \in Occupied(t) /\ n >= idx
      BY <2>2, <2>3, <3>1
    <3> QED BY <3>2 DEF NoNode
  <2>7. ASSUME NEW m \in Occupied(t), m < n PROVE m < idx
    <3>1. m \in Nat
      BY <1>1 DEF Occupied
    <3> QED BY <2>1, <2>3, <2>5, <2>6, <2>7, <3>1
  <2> QED BY <2>6, <2>7 DEF n
<1> QED BY <1>2, <1>3

\* Every step keeps the invariant of loops.
LEMMA LoopStep ==
  ASSUME FInv, [FNext]_fvars
  PROVE  FInv'
<1>1. IInv /\ use \in Uses /\ LoopInv
  BY DEF FInv
<1>2. [TNext]_tvars
  BY <1>1, StepOfTable
<1>3. IInv'
  BY <1>1, <1>2, StepSound
<1>4. use' \in Uses
  BY <1>1 DEF FNext, fvars, ForeachBegin, ForeachStep, Body, ClearInBody, CloneOutside
<1>5. tbl.numofnodes \in Nat \ {0} /\ StoredOnce(tbl) /\ \A n \in Occupied(tbl) : n \in Nat
  BY <1>1 DEF IInv, Good, Chained, TableType, Occupied, Nodes
<1>6. ASSUME ForeachBegin PROVE LoopInv'
  <2>1. /\ cursor = NoLoop /\ cursor' = 0 /\ tbl' = tbl /\ seen' = seen /\ twice' = twice /\ intact' = intact
    BY <1>6 DEF ForeachBegin, tvars
  <2> QED BY <1>1, <1>5, <2>1 DEF LoopInv, NoLoop
<1>7. ASSUME ForeachStep PROVE LoopInv'
  <2> DEFINE n == NextNode(tbl, cursor)
  <2>1. cursor \in Nat /\ tbl' = tbl /\ cursor # NoLoop
    BY <1>1, <1>7 DEF ForeachStep, LoopInv, tvars
  <2>2. /\ n = NoNode => \A m \in Occupied(tbl) : m < cursor
        /\ n # NoNode => n \in Occupied(tbl) /\ n >= cursor /\ \A m \in Occupied(tbl) : m < n => m < cursor
    BY <1>5, <2>1, NextFirst
  <2>3. CASE n = NoNode
    BY <1>7, <2>3 DEF ForeachStep, LoopInv
  <2>4. CASE n # NoNode
    <3>1. /\ cursor' = n + 1 /\ seen' = seen \cup {tbl.key[n]} /\ intact' = intact
          /\ twice' = (twice \/ tbl.key[n] \in seen)
      BY <1>7, <2>4 DEF ForeachStep
    <3> HIDE DEF n
    <3>2. n \in Occupied(tbl) /\ n \in Nat /\ cursor' \in Nat /\ cursor' # NoLoop
      BY <1>5, <2>2, <2>4, <3>1 DEF NoLoop
    <3>3. ASSUME intact = TRUE
          PROVE  twice' = FALSE /\ \A m \in Occupied(tbl) : tbl.key[m] \in seen' <=> m < cursor'
      <4>1. twice = FALSE /\ \A m \in Occupied(tbl) : tbl.key[m] \in seen <=> m < cursor
        BY <1>1, <2>1, <3>3 DEF LoopInv
      <4>2. tbl.key[n] \notin seen
        BY <2>1, <2>2, <2>4, <3>2, <4>1
      <4>3. ASSUME NEW m \in Occupied(tbl) PROVE tbl.key[m] \in seen' <=> m < cursor'
        <5>1. m < n + 1 <=> m < cursor \/ m = n
          BY <1>5, <2>1, <2>2, <2>4, <3>2
        <5>2. tbl.key[m] = tbl.key[n] <=> m = n
          BY <1>5, <3>2 DEF StoredOnce
        <5> QED BY <3>1, <4>1, <5>1, <5>2
      <4> QED BY <3>1, <4>1, <4>2, <4>3
    <3>4. intact' \in BOOLEAN /\ twice' \in BOOLEAN
      BY <1>1, <3>1 DEF LoopInv
    <3> QED BY <2>1, <3>1, <3>2, <3>3, <3>4 DEF LoopInv
  <2> QED BY <2>3, <2>4
<1>8. ASSUME Body PROVE LoopInv'
  <2>1. /\ cursor' = cursor /\ seen' = seen /\ twice' = twice
        /\ intact' = (\/ cursor = NoLoop
                      \/ /\ intact
                         /\ tbl'.numofnodes = tbl.numofnodes
                         /\ tbl'.usednodes =< tbl.usednodes)
    BY <1>8 DEF Body
  <2>2. intact' \in BOOLEAN /\ (cursor = NoLoop => intact' = TRUE)
    BY <2>1
  <2>3. ASSUME cursor # NoLoop, intact' = TRUE
        PROVE  intact = TRUE /\ InPlace(tbl, tbl')
    <3>1. intact /\ tbl'.numofnodes = tbl.numofnodes /\ tbl'.usednodes =< tbl.usednodes
      BY <2>1, <2>3
    <3>2. intact = TRUE
      BY <1>1, <3>1 DEF LoopInv
    <3> QED BY <1>1, <1>8, <3>1, <3>2, BodyInPlace
  <2>4. ASSUME cursor # NoLoop, intact' = TRUE
        PROVE  twice = FALSE /\ \A n \in Occupied(tbl') : tbl'.key[n] \in seen <=> n < cursor
    BY <1>1, <2>3, <2>4 DEF LoopInv, InPlace
  <2>5. Occupied(tbl)' = Occupied(tbl')
    BY DEF Occupied, Nodes
  <2> QED BY <1>1, <2>1, <2>2, <2>4, <2>5 DEF LoopInv
<1>9. ASSUME ClearInBody PROVE LoopInv'
  <2>1. cursor' = cursor /\ seen' = seen /\ twice' = twice /\ intact' = (cursor = NoLoop)
    BY <1>9 DEF ClearInBody
  <2> QED BY <1>1, <2>1 DEF LoopInv
<1>10. ASSUME CloneOutside PROVE LoopInv'
  BY <1>1, <1>10 DEF CloneOutside, loop, LoopInv
<1>11. ASSUME UNCHANGED fvars PROVE LoopInv'
  BY <1>1, <1>11 DEF fvars, loop, LoopInv
<1>12. LoopInv'
  BY <1>6, <1>7, <1>8, <1>9, <1>10, <1>11 DEF FNext
<1> QED BY <1>3, <1>4, <1>12 DEF FInv

\* The inductive invariant of tables with loops over them.
THEOREM AlwaysFInv == FSpec => []FInv
<1>1. FInit => FInv
  BY InitSound DEF FInit, FInv, LoopInv, NoLoop
<1>2. FInv /\ [FNext]_fvars => FInv'
  BY LoopStep
<1> QED BY <1>1, <1>2, PTL DEF FSpec

\* A table with loops over it is a table.
THEOREM LoopsUseTable == FSpec => TSpec
<1>1. FInit => TInit
  BY DEF FInit
<1>2. FInv /\ [FNext]_fvars => [TNext]_tvars
  BY StepOfTable DEF FInv
<1> QED BY <1>1, <1>2, AlwaysFInv, PTL DEF FSpec, TSpec

\* While loops run over the table, and change it, every stored key is found.
THEOREM LoopsFindEveryKey == FSpec => []EveryKeyFound
BY LoopsUseTable, AlwaysEveryKeyFound, PTL

\* Nor does a loop make a Rehash call another one.
THEOREM LoopsRehashFits == FSpec => []RehashFits
BY LoopsUseTable, AlwaysRehashFits, PTL

\* With the loops over it, too, the table implements a map.
THEOREM LoopsUseMap == FSpec => ImplementsMap
BY LoopsUseTable, TableImplementsMap, PTL

\* A foreach whose body only overwrites and removes slots, without a
\* reallocation, has run once for every key that is left when it ends.
THEOREM LoopsVisitEachSlot == FSpec => ForeachVisitsEachSlot
<1>1. FInv /\ [FNext]_fvars => [(cursor # NoLoop /\ cursor' = NoLoop /\ intact) =>
                                  Stored \subseteq seen /\ ~twice]_fvars
  <2> SUFFICES ASSUME FInv, FNext, cursor # NoLoop, cursor' = NoLoop, intact
               PROVE  Stored \subseteq seen /\ ~twice
    OBVIOUS
  <2>1. LoopInv /\ tbl.numofnodes \in Nat \ {0}
    BY DEF FInv, IInv, Good, TableType
  <2>2. ForeachStep
    BY DEF FNext, ForeachBegin, Body, ClearInBody, CloneOutside, NoLoop
  <2>3. cursor \in Nat /\ twice = FALSE /\ \A n \in Occupied(tbl) : tbl.key[n] \in seen <=> n < cursor
    BY <2>1 DEF LoopInv
  <2>4. NextNode(tbl, cursor) = NoNode
    <3> SUFFICES ASSUME NextNode(tbl, cursor) # NoNode PROVE FALSE
      OBVIOUS
    <3>1. cursor' = NextNode(tbl, cursor) + 1
      BY <2>2 DEF ForeachStep
    <3>2. NextNode(tbl, cursor) \in Occupied(tbl)
      BY <2>1, <2>3, NextFirst
    <3>3. NextNode(tbl, cursor) \in Nat
      BY <2>1, <3>2 DEF Occupied, Nodes
    <3> QED BY <3>1, <3>3 DEF NoLoop
  <2>5. \A n \in Occupied(tbl) : n < cursor
    BY <2>1, <2>3, <2>4, NextFirst
  <2>6. Stored \subseteq seen
    BY <2>3, <2>5 DEF Stored, Occupied
  <2> QED BY <2>3, <2>6
<1> QED BY <1>1, AlwaysFInv, PTL DEF FSpec, ForeachVisitsEachSlot
=============================================================================
