--------------------------- MODULE SqTableProofs ----------------------------
(***************************************************************************)
(* Theorems about SqTable, for all keys, hash functions and smallest       *)
(* sizes: every stored key is found, a rehash never needs another one, and *)
(* the table implements a map.                                             *)
(***************************************************************************)
EXTENDS SqTable, FiniteSetTheorems, WellFoundedInduction, TLAPS

Occupied(t) == {n \in Nodes(t) : t.key[n] # Null}

\* Sizes are MinPower2, doubled any number of times: what is in every set with
\* MinPower2 in it and, with a number, its double.
Closed(S) == MinPower2 \in S /\ \A n \in S : 2 * n \in S
SizeOK(n) == n \in Nat /\ \A S \in SUBSET Nat : Closed(S) => n \in S

TableType(t) ==
  /\ t.numofnodes \in Nat \ {0}
  /\ t = [numofnodes |-> t.numofnodes, usednodes |-> t.usednodes, firstfree |-> t.firstfree,
          key |-> t.key, val |-> t.val, next |-> t.next, spilled |-> t.spilled]
  /\ t.usednodes \in Nat
  /\ t.firstfree \in Nodes(t)
  /\ t.key \in [Nodes(t) -> Keys \cup {Null}]
  /\ t.val \in [Nodes(t) -> Vals \cup {Null}]
  /\ t.next \in [Nodes(t) -> Nodes(t) \cup {NoNode}]

\* A node is linked from one node at most, and following links comes to an end:
\* of any nodes, some are the last of their chain among them.
LinkedOnce(t) == \A m, n \in Nodes(t) : t.next[m] = t.next[n] /\ t.next[m] # NoNode => m = n
ChainsEnd(t) == \A S \in SUBSET Nodes(t) : S # {} => \E n \in S : t.next[n] \notin S

StoredOnce(t) == \A m, n \in Occupied(t) : t.key[m] = t.key[n] => m = n

\* The chain from h leads to n.
ClosedUnderNext(t, S) == \A n \in S : t.next[n] # NoNode => t.next[n] \in S
Leads(t, h, n) == \A S \in SUBSET Nodes(t) : h \in S /\ ClosedUnderNext(t, S) => n \in S

Reachable(t) == \A n \in Occupied(t) : Leads(t, MainPos(t, t.key[n]), n)

\* Nodes up to the free place have their own keys, if any, and nothing links to them.
OwnBelow(t, f) == \A n \in Occupied(t) : n <= f => MainPos(t, t.key[n]) = n
LinksAbove(t, f) == \A n \in Nodes(t) : t.next[n] # NoNode => t.next[n] > f

\* A node whose key belongs elsewhere is the main position of no stored key.
GuestsAlone(t) ==
  \A p, n \in Occupied(t) : MainPos(t, t.key[p]) # p => MainPos(t, t.key[n]) # p

Chained(t) == LinkedOnce(t) /\ ChainsEnd(t) /\ StoredOnce(t) /\ Reachable(t) /\ GuestsAlone(t)

Counted(t) == t.usednodes = Cardinality(Occupied(t))

FreeAt(t, f) == t.key[f] = Null /\ t.next[f] = NoNode

Good(t) ==
  /\ TableType(t) /\ Chained(t) /\ Counted(t) /\ t.spilled = FALSE
  /\ FreeAt(t, t.firstfree) /\ OwnBelow(t, t.firstfree) /\ LinksAbove(t, t.firstfree)

IInv == Good(tbl) /\ SizeOK(tbl.numofnodes)

----------------------------------------------------------------------------
(* Least elements, and functions that follow links.                        *)

\* Sets of naturals have least elements.
LEMMA LeastElement ==
  ASSUME NEW T, T \subseteq Nat, T # {}
  PROVE  \E x \in T : \A y \in T : x <= y
<1> DEFINE R == {ss \in Nat \X Nat : ss[1] < ss[2]}
<1>1. IsWellFoundedOn(R, Nat)
  BY NatLessThanWellFounded DEF OpToRel
<1>2. PICK x \in T : \A y \in T : ~ (<<y, x>> \in R)
  <2> HIDE DEF R
  <2> QED BY <1>1, WFMin
<1>3. ASSUME NEW y \in T PROVE x <= y
  <2>1. x \in Nat /\ y \in Nat
    OBVIOUS
  <2>2. <<y, x>> \in Nat \X Nat /\ ~ (<<y, x>> \in R)
    BY <1>2, <2>1
  <2>3. ~ (y < x)
    BY <2>2
  <2> QED BY <2>1, <2>3
<1> QED BY <1>3

\* From every element of D, the links next come to an end or to one where stop holds.
LinksEnd(D, next, stop) ==
  /\ \A S \in SUBSET D : S # {} => \E n \in S : next[n] \notin S
  /\ \A n \in D : ~stop[n] => next[n] \in D

\* A function gives every element of D what out gives the one where its walk stops.
Walks(D, next, stop, out) ==
  \E V : \E f \in [D -> V] : \A n \in D : f[n] = IF stop[n] THEN out[n] ELSE f[next[n]]

\* A function may be defined by following links that come to an end.
LEMMA LinkRecursion ==
  ASSUME NEW D, NEW next, NEW stop, NEW out, LinksEnd(D, next, stop)
  PROVE  Walks(D, next, stop, out)
<1> USE DEF LinksEnd
<1> DEFINE Solves(C, f) == /\ C \in SUBSET D
                           /\ \A n \in C : ~stop[n] => next[n] \in C
                           /\ \A n \in C : f[n] = IF stop[n] THEN out[n] ELSE f[next[n]]
           Known == UNION {C \in SUBSET D : \E f : Solves(C, f)}
           Value(n) == CHOOSE v : \E C, f : Solves(C, f) /\ n \in C /\ v = f[n]
           g == [n \in Known |-> Value(n)]
<1>1. ASSUME NEW B, NEW C, NEW e, NEW f, Solves(B, e), Solves(C, f), NEW n \in B \cap C
      PROVE  e[n] = f[n]
  <2> DEFINE T == {x \in B \cap C : e[x] # f[x]}
  <2>1. SUFFICES ASSUME T # {} PROVE FALSE
    OBVIOUS
  <2>2. PICK x \in T : next[x] \notin T
    <3>1. T \in SUBSET D
      BY <1>1
    <3> HIDE DEF T
    <3> QED BY <2>1, <3>1
  <2>3. ~stop[x]
    BY <1>1
  <2>4. next[x] \in B \cap C /\ e[x] = e[next[x]] /\ f[x] = f[next[x]]
    BY <1>1, <2>3
  <2> QED BY <2>2, <2>4
<1>2. ASSUME NEW C, NEW f, Solves(C, f), NEW n \in C
      PROVE  n \in Known /\ g[n] = f[n]
  <2>1. n \in Known
    BY <1>2
  <2>2. \E B, e : Solves(B, e) /\ n \in B /\ Value(n) = e[n]
    BY <1>2, Zenon
  <2>3. Value(n) = f[n]
    <3> HIDE DEF Solves, Value
    <3> QED BY <1>1, <1>2, <2>2
  <2> QED BY <2>1, <2>3
<1>3. ASSUME NEW n \in Known PROVE \E C, f : Solves(C, f) /\ n \in C
  <2>1. PICK C \in {C \in SUBSET D : \E f : Solves(C, f)} : n \in C
    OBVIOUS
  <2> HIDE DEF Solves
  <2> QED BY <2>1
<1>4. Solves(Known, g)
  <2>1. Known \in SUBSET D
    OBVIOUS
  <2>2. ASSUME NEW n \in Known
        PROVE  (~stop[n] => next[n] \in Known) /\ g[n] = IF stop[n] THEN out[n] ELSE g[next[n]]
    <3>1. PICK C, f : Solves(C, f) /\ n \in C
      BY <1>3
    <3>2. g[n] = f[n]
      <4> HIDE DEF g, Known, Solves
      <4> QED BY <1>2, <3>1
    <3>3. ~stop[n] => next[n] \in C
      BY <3>1
    <3>4. ~stop[n] => next[n] \in Known /\ g[next[n]] = f[next[n]]
      <4> HIDE DEF g, Known, Solves
      <4> QED BY <1>2, <3>1, <3>3
    <3>5. f[n] = IF stop[n] THEN out[n] ELSE f[next[n]]
      BY <3>1
    <3> HIDE DEF g, Known, Solves
    <3> QED BY <3>2, <3>4, <3>5
  <2> HIDE DEF g, Known
  <2> QED BY <2>1, <2>2
<1>5. Known = D
  <2> DEFINE T == D \ Known
  <2>1. SUFFICES ASSUME T # {} PROVE FALSE
    BY <1>4
  <2>2. PICK x \in T : next[x] \notin T
    <3>1. T \in SUBSET D
      OBVIOUS
    <3> HIDE DEF T
    <3> QED BY <2>1, <3>1
  <2> DEFINE C == Known \cup {x}
             f == [n \in C |-> IF n = x THEN IF stop[x] THEN out[x] ELSE g[next[x]] ELSE g[n]]
  <2>3. x \in D /\ x \notin Known /\ (~stop[x] => next[x] \in Known)
    BY <2>2
  <2>4. Solves(C, f)
    <3> HIDE DEF g, Known
    <3>1. C \in SUBSET D
      BY <1>4, <2>3
    <3>2. \A n \in C : ~stop[n] => next[n] \in C
      BY <1>4, <2>3
    <3>3. \A n \in Known : f[n] = g[n]
      BY <2>3
    <3>4. f[x] = IF stop[x] THEN out[x] ELSE f[next[x]]
      BY <2>3, <3>3
    <3>5. \A n \in Known : f[n] = IF stop[n] THEN out[n] ELSE f[next[n]]
      BY <1>4, <3>3
    <3> HIDE DEF f
    <3> QED BY <3>1, <3>2, <3>4, <3>5
  <2>5. x \in C
    OBVIOUS
  <2>6. x \in Known
    <3> HIDE DEF C, f, g, Known, Solves, T
    <3> QED BY <1>2, <2>4, <2>5
  <2> QED BY <2>3, <2>6
<1>6. \A n \in D : g[n] = IF stop[n] THEN out[n] ELSE g[next[n]]
  <2> HIDE DEF g, Known
  <2> QED BY <1>4, <1>5
<1> DEFINE V == {g[n] : n \in D}
<1>7. g \in [D -> V]
  <2> HIDE DEF Known, Value
  <2> QED BY <1>5
<1> HIDE DEF g, V, Known, Value, Solves
<1>8. \E f \in [D -> V] : \A n \in D : f[n] = IF stop[n] THEN out[n] ELSE f[next[n]]
  BY ONLY <1>6, <1>7
<1> QED BY ONLY <1>8 DEF Walks

----------------------------------------------------------------------------
(* Walks along chains.                                                     *)

\* The search for a key: what it finds from each node.
LEMMA SearchWalks ==
  ASSUME NEW t, NEW k, TableType(t), ChainsEnd(t)
  PROVE  \E find :
           /\ \A n \in Nodes(t) : find[n] = IF t.key[n] = k THEN n
                                            ELSE IF t.next[n] = NoNode THEN NoNode ELSE find[t.next[n]]
           /\ GetNode(t, k) = find[MainPos(t, k)]
<1> DEFINE D == Nodes(t)
           E(f) == [n \in D |-> IF t.key[n] = k THEN n ELSE IF t.next[n] = NoNode THEN NoNode ELSE f[t.next[n]]]
           stop == [n \in D |-> t.key[n] = k \/ t.next[n] = NoNode]
           out == [n \in D |-> IF t.key[n] = k THEN n ELSE NoNode]
           next == t.next
<1>1. \E V : \E f \in [D -> V] : \A n \in D : f[n] = IF stop[n] THEN out[n] ELSE f[next[n]]
  <2>1. \A S \in SUBSET D : S # {} => \E n \in S : next[n] \notin S
    BY DEF ChainsEnd
  <2>2. \A n \in D : ~stop[n] => next[n] \in D
    BY DEF TableType
  <2> HIDE DEF D, stop, out, next
  <2>3. LinksEnd(D, next, stop)
    BY <2>1, <2>2 DEF LinksEnd
  <2>4. Walks(D, next, stop, out)
    BY <2>3, LinkRecursion
  <2> QED BY <2>4 DEF Walks
<1>2. ASSUME NEW V, NEW f \in [D -> V], \A n \in D : f[n] = IF stop[n] THEN out[n] ELSE f[next[n]]
      PROVE  f = E(f)
  <2>1. \A n \in D : f[n] = E(f)[n]
    BY <1>2
  <2>2. E(f) = [n \in D |-> E(f)[n]]
    OBVIOUS
  <2> HIDE DEF D, E
  <2> QED BY <1>2, <2>1, <2>2
<1>3. \E f : f = E(f)
  <2> HIDE DEF D, E, stop, out, next
  <2> QED BY <1>1, <1>2
<1> DEFINE find == CHOOSE f : f = E(f)
<1>4. find = E(find)
  <2> HIDE DEF E
  <2> QED BY <1>3
<1>5. GetNode(t, k) = find[MainPos(t, k)]
  BY DEF GetNode
<1>6. \A n \in Nodes(t) : find[n] = IF t.key[n] = k THEN n
                                    ELSE IF t.next[n] = NoNode THEN NoNode ELSE find[t.next[n]]
  <2> HIDE DEF find
  <2> QED BY <1>4
<1> HIDE DEF find
<1> QED BY <1>5, <1>6

\* The search for the node before another.
LEMMA PreviousWalks ==
  ASSUME NEW t, NEW h, NEW mp, TableType(t), ChainsEnd(t)
  PROVE  \E prev :
           /\ \A n \in Nodes(t) : prev[n] = IF t.next[n] \in {mp, NoNode} THEN n ELSE prev[t.next[n]]
           /\ Previous(t, h, mp) = prev[h]
<1> DEFINE D == Nodes(t)
           E(f) == [n \in D |-> IF t.next[n] \in {mp, NoNode} THEN n ELSE f[t.next[n]]]
           stop == [n \in D |-> t.next[n] \in {mp, NoNode}]
           out == [n \in D |-> n]
           next == t.next
<1>1. \E V : \E f \in [D -> V] : \A n \in D : f[n] = IF stop[n] THEN out[n] ELSE f[next[n]]
  <2>1. \A S \in SUBSET D : S # {} => \E n \in S : next[n] \notin S
    BY DEF ChainsEnd
  <2>2. \A n \in D : ~stop[n] => next[n] \in D
    BY DEF TableType
  <2> HIDE DEF D, stop, out, next
  <2>3. LinksEnd(D, next, stop)
    BY <2>1, <2>2 DEF LinksEnd
  <2>4. Walks(D, next, stop, out)
    BY <2>3, LinkRecursion
  <2> QED BY <2>4 DEF Walks
<1>2. ASSUME NEW V, NEW f \in [D -> V], \A n \in D : f[n] = IF stop[n] THEN out[n] ELSE f[next[n]]
      PROVE  f = E(f)
  <2>1. \A n \in D : f[n] = E(f)[n]
    BY <1>2
  <2>2. E(f) = [n \in D |-> E(f)[n]]
    OBVIOUS
  <2> HIDE DEF D, E
  <2> QED BY <1>2, <2>1, <2>2
<1>3. \E f : f = E(f)
  <2> HIDE DEF D, E, stop, out, next
  <2> QED BY <1>1, <1>2
<1> DEFINE prev == CHOOSE f : f = E(f)
<1>4. prev = E(prev)
  <2> HIDE DEF E
  <2> QED BY <1>3
<1>5. Previous(t, h, mp) = prev[h]
  BY DEF Previous
<1>6. \A n \in Nodes(t) : prev[n] = IF t.next[n] \in {mp, NoNode} THEN n ELSE prev[t.next[n]]
  <2> HIDE DEF prev
  <2> QED BY <1>4
<1> HIDE DEF prev
<1> QED BY <1>5, <1>6

\* Main positions are nodes.
LEMMA MainPosType ==
  ASSUME NEW t, t.numofnodes \in Nat \ {0}, NEW k \in Keys \cup {Null}
  PROVE  MainPos(t, k) \in Nodes(t)
<1> DEFINE h == IF k = Null THEN 0 ELSE Hash[k]
<1>1. h \in Nat
  BY KeyHashAssumption
<1>2. h % t.numofnodes \in 0 .. t.numofnodes - 1
  <2> HIDE DEF h
  <2> QED BY <1>1
<1> QED BY <1>2 DEF MainPos, Nodes

\* A stored key is found at its node.
LEMMA StoredFound ==
  ASSUME NEW t, TableType(t), ChainsEnd(t), StoredOnce(t), Reachable(t), NEW m \in Occupied(t)
  PROVE  GetNode(t, t.key[m]) = m
<1> DEFINE k == t.key[m]
           h == MainPos(t, k)
<1>1. PICK find : /\ \A n \in Nodes(t) : find[n] = IF t.key[n] = k THEN n
                                                   ELSE IF t.next[n] = NoNode THEN NoNode ELSE find[t.next[n]]
                  /\ GetNode(t, k) = find[h]
  BY SearchWalks
<1> DEFINE S == {n \in Nodes(t) : find[n] = find[h]}
<1>2. k \in Keys /\ m \in Nodes(t) /\ k # Null
  BY DEF Occupied, TableType
<1>3. h \in Nodes(t)
  BY <1>2, MainPosType DEF TableType
<1>4. find[m] = m
  BY <1>1, <1>2
<1>5. ASSUME find[h] # m PROVE ClosedUnderNext(t, S)
  <2> SUFFICES ASSUME NEW n \in S, t.next[n] # NoNode PROVE t.next[n] \in S
    BY DEF ClosedUnderNext
  <2>1. t.key[n] # k
    <3>1. SUFFICES ASSUME t.key[n] = k PROVE FALSE
      OBVIOUS
    <3>2. n = m
      BY <3>1, <1>2 DEF StoredOnce, Occupied
    <3> QED BY <3>2, <1>4, <1>5
  <2>2. t.next[n] \in Nodes(t)
    BY DEF TableType
  <2> QED BY <1>1, <2>1, <2>2
<1>6. Leads(t, h, m)
  BY DEF Reachable
<1>7. find[h] = m
  <2> SUFFICES ASSUME find[h] # m PROVE FALSE
    OBVIOUS
  <2>1. S \in SUBSET Nodes(t) /\ h \in S
    BY <1>3
  <2>2. m \in S
    <3> HIDE DEF S, h
    <3> QED BY <1>5, <1>6, <2>1 DEF Leads
  <2> QED BY <2>2, <1>4
<1> QED BY <1>1, <1>7

\* What a search finds holds the key.
LEMMA FoundHolds ==
  ASSUME NEW t, TableType(t), ChainsEnd(t), NEW k \in Keys \cup {Null}, GetNode(t, k) # NoNode
  PROVE  GetNode(t, k) \in Nodes(t) /\ t.key[GetNode(t, k)] = k
<1>1. PICK find : /\ \A n \in Nodes(t) : find[n] = IF t.key[n] = k THEN n
                                                   ELSE IF t.next[n] = NoNode THEN NoNode ELSE find[t.next[n]]
                  /\ GetNode(t, k) = find[MainPos(t, k)]
  BY SearchWalks
<1> DEFINE Holds(x) == x \in Nodes(t) /\ t.key[x] = k
           S == {n \in Nodes(t) : find[n] # NoNode /\ ~Holds(find[n])}
<1>2. S = {}
  <2>1. SUFFICES ASSUME S # {} PROVE FALSE
    OBVIOUS
  <2>2. PICK n \in S : t.next[n] \notin S
    <3>1. S \in SUBSET Nodes(t)
      OBVIOUS
    <3> HIDE DEF S
    <3> QED BY <2>1, <3>1 DEF ChainsEnd
  <2>3. t.key[n] # k
    BY <1>1
  <2>4. t.next[n] # NoNode /\ find[n] = find[t.next[n]]
    BY <1>1, <2>3
  <2>5. t.next[n] \in Nodes(t)
    BY <2>4 DEF TableType
  <2> QED BY <2>2, <2>4, <2>5
<1>3. MainPos(t, k) \in Nodes(t)
  BY MainPosType DEF TableType
<1> QED BY <1>1, <1>2, <1>3

\* A key is found if and only if it is stored.
LEMMA FoundIffStored ==
  ASSUME NEW t, TableType(t), ChainsEnd(t), StoredOnce(t), Reachable(t), NEW k \in Keys
  PROVE  /\ GetNode(t, k) # NoNode <=> \E n \in Occupied(t) : t.key[n] = k
         /\ GetNode(t, k) # NoNode => GetNode(t, k) \in Occupied(t) /\ t.key[GetNode(t, k)] = k
<1>1. k # Null
  BY SlotAssumption
<1>2. ASSUME NEW n \in Occupied(t), t.key[n] = k PROVE GetNode(t, k) = n /\ n # NoNode
  BY <1>2, StoredFound DEF NoNode, Occupied, Nodes, TableType
<1>3. ASSUME GetNode(t, k) # NoNode PROVE GetNode(t, k) \in Occupied(t) /\ t.key[GetNode(t, k)] = k
  BY <1>1, <1>3, FoundHolds DEF Occupied
<1> QED BY <1>2, <1>3

----------------------------------------------------------------------------
(* Where NewSlot puts a key: at its main position, if that is empty (Home), *)
(* there after the node has moved away (Evict), or at the free place        *)
(* behind the main position (Chain).                                        *)

SameFrame(t, u) ==
  /\ TableType(t) /\ TableType(u)
  /\ u.numofnodes = t.numofnodes /\ u.usednodes = t.usednodes
  /\ u.firstfree = t.firstfree /\ u.spilled = t.spilled

Home(t, u, k, mp) ==
  /\ SameFrame(t, u) /\ u.next = t.next /\ u.val = t.val
  /\ t.key[mp] = Null /\ u.key[mp] = k
  /\ \A x \in Nodes(t) : x # mp => u.key[x] = t.key[x]

Evict(t, u, k, mp, n, pr) ==
  /\ SameFrame(t, u)
  /\ pr \in Nodes(t) /\ t.next[pr] = mp /\ pr # mp /\ pr # n /\ mp # n
  /\ t.key[mp] # Null /\ MainPos(t, t.key[mp]) # mp
  /\ u.key[n] = t.key[mp] /\ u.val[n] = t.val[mp] /\ u.next[n] = t.next[mp]
  /\ u.key[mp] = k /\ u.next[mp] = NoNode
  /\ u.next[pr] = n
  /\ \A x \in Nodes(t) : x # mp /\ x # n => u.key[x] = t.key[x] /\ u.val[x] = t.val[x]
  /\ \A x \in Nodes(t) : x # mp /\ x # n /\ x # pr => u.next[x] = t.next[x]

Chain(t, u, k, mp, n) ==
  /\ SameFrame(t, u) /\ u.val = t.val /\ mp # n
  /\ t.key[mp] # Null /\ MainPos(t, t.key[mp]) = mp
  /\ u.key[n] = k /\ u.next[n] = t.next[mp] /\ u.next[mp] = n
  /\ \A x \in Nodes(t) : x # n => u.key[x] = t.key[x]
  /\ \A x \in Nodes(t) : x # n /\ x # mp => u.next[x] = t.next[x]

\* The key k, which t does not hold, and its main position; n is the free place.
Placing(t, k, mp, n) ==
  /\ k \in Keys /\ mp = MainPos(t, k) /\ mp \in Nodes(t) /\ n \in Nodes(t)
  /\ \A x \in Occupied(t) : t.key[x] # k
  /\ Chained(t) /\ FreeAt(t, n) /\ OwnBelow(t, n) /\ LinksAbove(t, n)

\* Another table of the same size has the same main positions.
LEMMA SameMainPos ==
  ASSUME NEW t, NEW u, u.numofnodes = t.numofnodes
  PROVE  Nodes(u) = Nodes(t) /\ \A k : MainPos(u, k) = MainPos(t, k)
BY DEF Nodes, MainPos

\* No key has the free place as its main position.
LEMMA FreeUnclaimed ==
  ASSUME NEW t, NEW k, NEW mp, NEW n, TableType(t), Placing(t, k, mp, n), NEW x \in Occupied(t)
  PROVE  MainPos(t, t.key[x]) # n /\ ~ Leads(t, n, x)
<1>1. ~ Leads(t, n, x)
  <2>1. {n} \in SUBSET Nodes(t) /\ ClosedUnderNext(t, {n}) /\ x \notin {n}
    BY DEF Placing, FreeAt, ClosedUnderNext, Occupied
  <2> QED BY <2>1 DEF Leads
<1> QED BY <1>1 DEF Placing, Chained, Reachable

\* What holds of a table with a key at home.
LEMMA HomeChained ==
  ASSUME NEW t, NEW u, NEW k, NEW mp, NEW n, Placing(t, k, mp, n), Home(t, u, k, mp)
  PROVE  Chained(u) /\ OwnBelow(u, n) /\ LinksAbove(u, n)
<1>1. Nodes(u) = Nodes(t) /\ \A x : MainPos(u, x) = MainPos(t, x)
  BY SameMainPos DEF Home, SameFrame
<1>2. k # Null
  BY SlotAssumption DEF Placing
<1>3. Occupied(u) = Occupied(t) \cup {mp} /\ mp \notin Occupied(t)
  BY <1>1, <1>2 DEF Home, Placing, Occupied
<1>4. \A x \in Occupied(t) : u.key[x] = t.key[x]
  BY <1>3 DEF Home, Occupied
<1>5. u.next = t.next /\ u.key[mp] = k /\ MainPos(t, k) = mp
  BY DEF Home, Placing
<1>6. LinkedOnce(u) /\ ChainsEnd(u) /\ LinksAbove(u, n)
  BY <1>1, <1>5 DEF LinkedOnce, ChainsEnd, LinksAbove, Placing, Chained
<1>7. StoredOnce(u)
  BY <1>3, <1>4, <1>5 DEF StoredOnce, Placing, Chained
<1>8. Reachable(u)
  <2>1. \A h, x : Leads(t, h, x) => Leads(u, h, x)
    BY <1>1, <1>5 DEF Leads, ClosedUnderNext
  <2>2. Leads(u, mp, mp)
    BY DEF Leads
  <2> QED BY <1>1, <1>3, <1>4, <1>5, <2>1, <2>2 DEF Reachable, Placing, Chained
<1>9. GuestsAlone(u)
  <2> SUFFICES ASSUME NEW p \in Occupied(u), NEW x \in Occupied(u), MainPos(t, u.key[p]) # p
               PROVE  MainPos(t, u.key[x]) # p
    BY <1>1 DEF GuestsAlone
  <2>1. p \in Occupied(t)
    BY <1>3, <1>5
  <2>2. CASE x = mp
    BY <2>1, <2>2, <1>3, <1>5
  <2>3. CASE x \in Occupied(t)
    BY <2>1, <2>3, <1>4 DEF GuestsAlone, Placing, Chained
  <2> QED BY <1>3, <2>2, <2>3
<1>10. OwnBelow(u, n)
  BY <1>1, <1>3, <1>4, <1>5 DEF OwnBelow, Placing
<1> QED BY <1>6, <1>7, <1>8, <1>9, <1>10 DEF Chained

\* What holds of a table with a key chained behind its main position.
LEMMA ChainChained ==
  ASSUME NEW t, NEW u, NEW k, NEW mp, NEW n, Placing(t, k, mp, n), Chain(t, u, k, mp, n)
  PROVE  Chained(u) /\ \A f \in Int : f < n => OwnBelow(u, f) /\ LinksAbove(u, f)
<1>1. Nodes(u) = Nodes(t) /\ \A x : MainPos(u, x) = MainPos(t, x)
  BY SameMainPos DEF Chain, SameFrame
<1>2. k # Null
  BY SlotAssumption DEF Placing
<1>3. Occupied(u) = Occupied(t) \cup {n} /\ n \notin Occupied(t)
  BY <1>1, <1>2 DEF Chain, Placing, Occupied, FreeAt
<1>4. \A x \in Occupied(t) : u.key[x] = t.key[x]
  BY <1>3 DEF Chain, Occupied
<1>5. /\ u.key[n] = k /\ MainPos(t, k) = mp /\ mp # n /\ mp \in Nodes(t) /\ n \in Nodes(t)
      /\ u.next[n] = t.next[mp] /\ u.next[mp] = n
  BY DEF Chain, Placing
<1>6. \A x \in Nodes(t) : x # n /\ x # mp => u.next[x] = t.next[x]
  BY DEF Chain
<1>7. \A x \in Nodes(t) : t.next[x] # n
  <2>1. n \in Int /\ n # NoNode
    BY <1>5 DEF Nodes, NoNode, Chain, SameFrame, TableType
  <2>2. \A x \in Nodes(t) : t.next[x] # NoNode => t.next[x] > n
    BY DEF LinksAbove, Placing
  <2> QED BY ONLY <2>1, <2>2
<1>8. t.next[n] = NoNode
  BY DEF Placing, FreeAt
<1>9. LinkedOnce(u)
  <2> SUFFICES ASSUME NEW x \in Nodes(t), NEW y \in Nodes(t), u.next[x] = u.next[y], u.next[x] # NoNode
               PROVE  x = y
    BY <1>1 DEF LinkedOnce
  <2> DEFINE b(z) == IF z = n THEN mp ELSE z
  <2>1. LinkedOnce(t)
    BY DEF Placing, Chained
  <2>2. \A z \in Nodes(t) : z # mp => b(z) \in Nodes(t) /\ u.next[z] = t.next[b(z)]
    BY <1>5, <1>6
  <2>3. CASE x = mp \/ y = mp
    BY <1>5, <1>7, <2>2, <2>3
  <2>4. CASE x # mp /\ y # mp
    <3>1. b(x) = b(y)
      <4> HIDE DEF b
      <4> QED BY <2>1, <2>2, <2>4 DEF LinkedOnce
    <3> QED BY <3>1, <2>4
  <2> QED BY <2>3, <2>4
<1>10. ChainsEnd(u)
  <2> SUFFICES ASSUME NEW S \in SUBSET Nodes(t), S # {}, \A y \in S : u.next[y] \in S
               PROVE  FALSE
    BY <1>1 DEF ChainsEnd
  <2> DEFINE T == S \ {n}
  <2>1. ASSUME NEW y \in T PROVE t.next[y] \in T
    <3>1. CASE y = mp
      <4>1. u.next[n] \in S
        BY <3>1, <1>5
      <4> QED BY <4>1, <3>1, <1>5, <1>7
    <3>2. CASE y # mp
      BY <3>2, <1>6, <1>7
    <3> QED BY <3>1, <3>2
  <2>2. T # {}
    <3>1. SUFFICES ASSUME n \in S PROVE u.next[n] \in T
      OBVIOUS
    <3> QED BY <3>1, <1>5, <1>7
  <2>3. T \in SUBSET Nodes(t)
    OBVIOUS
  <2> HIDE DEF T
  <2> QED BY <2>1, <2>2, <2>3 DEF ChainsEnd, Placing, Chained
<1>11. StoredOnce(u)
  BY <1>3, <1>4, <1>5 DEF StoredOnce, Placing, Chained
<1>12. Reachable(u)
  <2>1. Leads(u, mp, n)
    BY <1>5, <1>1 DEF Leads, ClosedUnderNext, Chain, SameFrame, NoNode, Nodes, TableType
  <2>2. ASSUME NEW x \in Occupied(t) PROVE Leads(u, MainPos(t, t.key[x]), x)
    <3> DEFINE p == MainPos(t, t.key[x])
    <3>1. Leads(t, p, x) /\ p # n
      BY FreeUnclaimed DEF Placing, Chained, Reachable, Chain, SameFrame
    <3> SUFFICES ASSUME NEW S \in SUBSET Nodes(t), p \in S, ClosedUnderNext(u, S) PROVE x \in S
      BY <1>1 DEF Leads
    <3> HIDE DEF p
    <3> DEFINE T == S \ {n}
    <3>2. ASSUME NEW y \in T, t.next[y] # NoNode PROVE t.next[y] \in T
      <4>1. CASE y = mp
        <5>1. n \in S
          BY <4>1, <1>5, <1>1 DEF ClosedUnderNext, NoNode, Chain, SameFrame, Nodes, TableType
        <5>2. u.next[n] \in S
          BY <5>1, <1>5, <4>1, <3>2 DEF ClosedUnderNext
        <5> QED BY <5>2, <4>1, <1>5, <1>7
      <4>2. CASE y # mp
        BY <4>2, <3>2, <1>6, <1>7 DEF ClosedUnderNext
      <4> QED BY <4>1, <4>2
    <3>3. ClosedUnderNext(t, T) /\ p \in T /\ T \in SUBSET Nodes(t)
      BY <3>1, <3>2 DEF ClosedUnderNext
    <3> HIDE DEF T
    <3>4. x \in T
      BY <3>1, <3>3 DEF Leads
    <3> QED BY <3>4 DEF T
  <2> QED BY <1>1, <1>3, <1>4, <1>5, <2>1, <2>2 DEF Reachable
<1>13. GuestsAlone(u)
  <2> SUFFICES ASSUME NEW p \in Occupied(u), NEW x \in Occupied(u), MainPos(t, u.key[p]) # p
               PROVE  MainPos(t, u.key[x]) # p
    BY <1>1 DEF GuestsAlone
  <2>1. CASE p = n
    <3>1. \A y \in Occupied(t) : MainPos(t, t.key[y]) # n
      BY FreeUnclaimed DEF Chain, SameFrame
    <3> QED BY <2>1, <3>1, <1>3, <1>4, <1>5
  <2>2. CASE p \in Occupied(t)
    <3>1. CASE x = n
      BY <2>2, <3>1, <1>4, <1>5 DEF Chain
    <3>2. CASE x \in Occupied(t)
      BY <2>2, <3>2, <1>4 DEF GuestsAlone, Placing, Chained
    <3> QED BY <1>3, <3>1, <3>2
  <2> QED BY <1>3, <2>1, <2>2
<1>14. ASSUME NEW f \in Int, f < n PROVE OwnBelow(u, f) /\ LinksAbove(u, f)
  <2>1. n \in Int /\ Nodes(t) \subseteq Int
    BY <1>5 DEF Nodes, Chain, SameFrame, TableType
  <2>2. OwnBelow(u, f)
    <3> SUFFICES ASSUME NEW x \in Occupied(u), x <= f PROVE MainPos(t, u.key[x]) = x
      BY <1>1 DEF OwnBelow
    <3>1. x \in Occupied(t) /\ x <= n
      BY <1>3, <1>14, <2>1 DEF Occupied
    <3> QED BY <3>1, <1>4 DEF OwnBelow, Placing
  <2>3. LinksAbove(u, f)
    <3> SUFFICES ASSUME NEW x \in Nodes(t), u.next[x] # NoNode PROVE u.next[x] > f
      BY <1>1 DEF LinksAbove
    <3>1. \A y \in Nodes(t) : t.next[y] # NoNode => t.next[y] \in Int /\ t.next[y] > n
      BY <2>1 DEF LinksAbove, Placing, Chain, SameFrame, TableType
    <3>2. CASE x = mp
      BY <3>2, <1>5, <1>14, <2>1
    <3>3. CASE x # mp
      BY <3>1, <3>3, <1>5, <1>6, <1>14, <2>1
    <3> QED BY <3>2, <3>3
  <2> QED BY <2>2, <2>3
<1> QED BY <1>9, <1>10, <1>11, <1>12, <1>13, <1>14 DEF Chained

\* What holds of a table where a node made room for a key.
LEMMA EvictChained ==
  ASSUME NEW t, NEW u, NEW k, NEW mp, NEW n, NEW pr, Placing(t, k, mp, n), Evict(t, u, k, mp, n, pr)
  PROVE  Chained(u) /\ \A f \in Int : f < n => OwnBelow(u, f) /\ LinksAbove(u, f)
<1>1. Nodes(u) = Nodes(t) /\ \A x : MainPos(u, x) = MainPos(t, x)
  BY SameMainPos DEF Evict, SameFrame
<1>2. k # Null
  BY SlotAssumption DEF Placing
<1>3. Occupied(u) = Occupied(t) \cup {n} /\ n \notin Occupied(t) /\ mp \in Occupied(t)
  BY <1>1, <1>2 DEF Evict, Placing, Occupied, FreeAt
<1>4. \A x \in Occupied(t) : x # mp => x # n /\ u.key[x] = t.key[x]
  BY <1>3 DEF Evict, Occupied
<1>5. /\ u.key[mp] = k /\ MainPos(t, k) = mp /\ mp # n /\ pr # mp /\ pr # n
      /\ mp \in Nodes(t) /\ n \in Nodes(t) /\ pr \in Nodes(t)
      /\ u.key[n] = t.key[mp] /\ t.next[pr] = mp
      /\ u.next[n] = t.next[mp] /\ u.next[mp] = NoNode /\ u.next[pr] = n
      /\ MainPos(t, t.key[mp]) # mp
  BY DEF Evict, Placing
<1>6. \A x \in Nodes(t) : x # n /\ x # mp /\ x # pr => u.next[x] = t.next[x]
  BY DEF Evict
<1>7. \A x \in Nodes(t) : t.next[x] # n
  <2>1. n \in Int /\ n # NoNode
    BY <1>5 DEF Nodes, NoNode, Evict, SameFrame, TableType
  <2>2. \A x \in Nodes(t) : t.next[x] # NoNode => t.next[x] > n
    BY DEF LinksAbove, Placing
  <2> QED BY ONLY <2>1, <2>2
<1>8. t.next[n] = NoNode /\ NoNode \notin Nodes(t)
  BY DEF Placing, FreeAt, NoNode, Nodes, Evict, SameFrame, TableType
<1>9. \A x \in Nodes(t) : t.next[x] = mp => x = pr
  BY <1>5, <1>8 DEF Placing, Chained, LinkedOnce
\* The link of a node of u is that of another node of t.
<1> DEFINE b(z) == IF z = n THEN mp ELSE z
<1>10. ASSUME NEW z \in Nodes(t), z # mp
       PROVE  /\ b(z) \in Nodes(t)
              /\ z # pr => u.next[z] = t.next[b(z)] /\ u.next[z] # n /\ u.next[z] # mp
  <2>1. ASSUME z = n, t.next[mp] = mp PROVE FALSE
    BY <1>5, <1>9, <2>1
  <2> QED BY <1>5, <1>6, <1>7, <1>9, <1>10, <2>1
<1>11. LinkedOnce(u)
  <2> SUFFICES ASSUME NEW x \in Nodes(t), NEW y \in Nodes(t), u.next[x] = u.next[y], u.next[x] # NoNode
               PROVE  x = y
    BY <1>1 DEF LinkedOnce
  <2>1. x # mp /\ y # mp
    BY <1>5
  <2>2. CASE x = pr \/ y = pr
    BY <2>1, <2>2, <1>5, <1>10
  <2>3. CASE x # pr /\ y # pr
    <3>1. b(x) = b(y)
      <4> HIDE DEF b
      <4> QED BY <1>10, <2>1, <2>3 DEF LinkedOnce, Placing, Chained
    <3> QED BY <3>1, <2>1
  <2> QED BY <2>2, <2>3
<1>12. ChainsEnd(u)
  <2> SUFFICES ASSUME NEW S \in SUBSET Nodes(t), S # {}, \A y \in S : u.next[y] \in S
               PROVE  FALSE
    BY <1>1 DEF ChainsEnd
  <2> DEFINE T == {b(y) : y \in S}
  <2>1. mp \notin S
    BY <1>5, <1>8
  <2>2. ASSUME NEW y \in S PROVE t.next[b(y)] \in T
    <3>1. CASE y = pr
      <4>1. n \in S
        BY <3>1, <1>5
      <4>2. b(n) \in T
        BY <4>1
      <4> QED BY <3>1, <4>2, <1>5
    <3>2. CASE y # pr
      <4>1. u.next[y] \in S /\ u.next[y] # n /\ u.next[y] = t.next[b(y)]
        BY <2>1, <3>2, <1>10
      <4>2. b(u.next[y]) = u.next[y] /\ b(u.next[y]) \in T
        BY <4>1
      <4> QED BY <4>1, <4>2
    <3> QED BY <3>1, <3>2
  <2>3. T # {} /\ T \in SUBSET Nodes(t) /\ \A z \in T : t.next[z] \in T
    BY <1>5, <2>2
  <2> HIDE DEF T
  <2> QED BY <2>3 DEF ChainsEnd, Placing, Chained
<1>13. StoredOnce(u)
  <2> SUFFICES ASSUME NEW x \in Occupied(u), NEW y \in Occupied(u), u.key[x] = u.key[y] PROVE x = y
    BY DEF StoredOnce
  <2>1. \A z \in Occupied(u) : z # mp => b(z) \in Occupied(t) /\ u.key[z] = t.key[b(z)]
    BY <1>3, <1>4, <1>5
  <2>2. \A z \in Occupied(t) : t.key[z] # k
    BY DEF Placing
  <2>3. CASE x = mp \/ y = mp
    <3> HIDE DEF b
    <3> QED BY <2>1, <2>2, <2>3, <1>5
  <2>4. CASE x # mp /\ y # mp
    <3>1. b(x) = b(y)
      <4> HIDE DEF b
      <4> QED BY <2>1, <2>4 DEF StoredOnce, Placing, Chained
    <3> QED BY <3>1, <2>4
  <2> QED BY <2>3, <2>4
<1>14. ASSUME NEW x \in Occupied(t)
       PROVE  /\ MainPos(t, t.key[x]) \notin {mp, n}
              /\ Leads(u, MainPos(t, t.key[x]), IF x = mp THEN n ELSE x)
  <2> DEFINE p == MainPos(t, t.key[x])
             w == IF x = mp THEN n ELSE x
  <2>1. Leads(t, p, x) /\ p # n
    BY FreeUnclaimed DEF Placing, Chained, Reachable, Evict, SameFrame
  <2>2. p # mp
    BY <1>3, <1>5 DEF Placing, Chained, GuestsAlone
  <2> SUFFICES ASSUME NEW S \in SUBSET Nodes(t), p \in S, ClosedUnderNext(u, S) PROVE w \in S
    BY <1>1, <2>1, <2>2 DEF Leads
  <2> HIDE DEF p
  <2> DEFINE T == (S \ {mp, n}) \cup (IF n \in S THEN {mp} ELSE {})
  <2>3. ASSUME NEW y \in T, t.next[y] # NoNode PROVE t.next[y] \in T
    <3>1. CASE y = mp
      <4>1. n \in S /\ u.next[n] = t.next[mp]
        BY <3>1, <1>5
      <4>2. t.next[mp] \in S
        BY <4>1, <3>1, <2>3 DEF ClosedUnderNext
      <4> QED BY <4>2, <3>1, <1>5, <1>7, <1>9
    <3>2. CASE y = pr
      <4>1. n \in S
        BY <3>2, <1>5, <1>8 DEF ClosedUnderNext
      <4> QED BY <4>1, <3>2, <1>5
    <3>3. CASE y # mp /\ y # pr
      <4>1. y \in S /\ y # n
        BY <3>3
      <4>2. u.next[y] = t.next[y] /\ t.next[y] # n /\ t.next[y] # mp
        BY <4>1, <3>3, <1>6, <1>7, <1>9
      <4> QED BY <4>1, <4>2, <2>3 DEF ClosedUnderNext
    <3> QED BY <3>1, <3>2, <3>3
  <2>4. ClosedUnderNext(t, T) /\ p \in T /\ T \in SUBSET Nodes(t)
    BY <1>5, <2>1, <2>2, <2>3 DEF ClosedUnderNext
  <2>5. x \in T
    <3> HIDE DEF T
    <3> QED BY <2>1, <2>4 DEF Leads
  <2> QED BY <2>5, <1>3, <1>5
<1>15. Reachable(u)
  <2>1. Leads(u, mp, mp)
    BY DEF Leads
  <2> SUFFICES ASSUME NEW y \in Occupied(u) PROVE Leads(u, MainPos(t, u.key[y]), y)
    BY <1>1 DEF Reachable
  <2>2. CASE y = mp
    BY <2>1, <2>2, <1>5
  <2>3. CASE y = n
    BY <2>3, <1>3, <1>5, <1>14
  <2>4. CASE y # mp /\ y # n
    BY <2>4, <1>3, <1>4, <1>14
  <2> QED BY <2>2, <2>3, <2>4
<1>16. GuestsAlone(u)
  <2> SUFFICES ASSUME NEW p \in Occupied(u), NEW x \in Occupied(u), MainPos(t, u.key[p]) # p
               PROVE  MainPos(t, u.key[x]) # p
    BY <1>1 DEF GuestsAlone
  <2>1. p # mp
    BY <1>5
  <2>2. CASE x = mp
    BY <2>1, <2>2, <1>5
  <2>3. CASE x # mp
    <3>1. PICK z \in Occupied(t) : u.key[x] = t.key[z]
      BY <2>3, <1>3, <1>4, <1>5
    <3>2. CASE p = n
      BY <3>1, <3>2, <1>14
    <3>3. CASE p # n
      BY <3>1, <3>3, <2>1, <1>3, <1>4 DEF GuestsAlone, Placing, Chained
    <3> QED BY <3>2, <3>3
  <2> QED BY <2>2, <2>3
<1>17. ASSUME NEW f \in Int, f < n PROVE OwnBelow(u, f) /\ LinksAbove(u, f)
  <2>1. n \in Int /\ Nodes(t) \subseteq Int
    BY <1>5 DEF Nodes, Evict, SameFrame, TableType
  <2>2. OwnBelow(u, f)
    <3> SUFFICES ASSUME NEW x \in Occupied(u), x <= f PROVE MainPos(t, u.key[x]) = x
      BY <1>1 DEF OwnBelow
    <3>1. x \in Occupied(t) /\ x <= n
      BY <1>3, <1>17, <2>1 DEF Occupied
    <3> QED BY <3>1, <1>4, <1>5 DEF OwnBelow, Placing
  <2>3. LinksAbove(u, f)
    <3> SUFFICES ASSUME NEW x \in Nodes(t), u.next[x] # NoNode PROVE u.next[x] > f
      BY <1>1 DEF LinksAbove
    <3>1. \A y \in Nodes(t) : t.next[y] # NoNode => t.next[y] \in Int /\ t.next[y] > n
      BY <2>1 DEF LinksAbove, Placing, Evict, SameFrame, TableType
    <3>2. CASE x = pr
      BY <3>2, <1>5, <1>17, <2>1
    <3>3. CASE x # pr
      <4>1. x # mp
        BY <1>5
      <4>2. b(x) \in Nodes(t) /\ u.next[x] = t.next[b(x)]
        BY <4>1, <3>3, <1>10
      <4> HIDE DEF b
      <4> QED BY <3>1, <4>2, <1>17, <2>1
    <3> QED BY <3>2, <3>3
  <2> QED BY <2>2, <2>3
<1> QED BY <1>11, <1>12, <1>13, <1>15, <1>16, <1>17 DEF Chained

\* The search for the node before mp finds it.
LEMMA PreviousFound ==
  ASSUME NEW t, NEW h, NEW mp, TableType(t), ChainsEnd(t),
         h \in Nodes(t), mp \in Nodes(t), h # mp, Leads(t, h, mp)
  PROVE  /\ Previous(t, h, mp) \in Nodes(t) /\ t.next[Previous(t, h, mp)] = mp
         /\ Previous(t, h, mp) # mp
<1>1. PICK prev : /\ \A n \in Nodes(t) : prev[n] = IF t.next[n] \in {mp, NoNode} THEN n ELSE prev[t.next[n]]
                  /\ Previous(t, h, mp) = prev[h]
  BY PreviousWalks
<1>2. \A n \in Nodes(t) : t.next[n] # NoNode => t.next[n] \in Nodes(t)
  BY DEF TableType
<1>3. prev[h] \in Nodes(t)
  <2> DEFINE S == {n \in Nodes(t) : prev[n] \notin Nodes(t)}
  <2>1. SUFFICES ASSUME S # {} PROVE FALSE
    OBVIOUS
  <2>2. PICK n \in S : t.next[n] \notin S
    <3>1. S \in SUBSET Nodes(t)
      OBVIOUS
    <3> HIDE DEF S
    <3> QED BY <2>1, <3>1 DEF ChainsEnd
  <2> QED BY <1>1, <1>2, <2>2
<1>4. t.next[prev[h]] = mp
  <2> SUFFICES ASSUME t.next[prev[h]] # mp PROVE FALSE
    OBVIOUS
  <2> DEFINE S == {n \in Nodes(t) : n # mp /\ prev[n] = prev[h]}
  <2>1. ASSUME NEW n \in S, t.next[n] # NoNode PROVE t.next[n] \in S
    <3>1. t.next[n] # mp
      <4>1. SUFFICES ASSUME t.next[n] = mp PROVE FALSE
        OBVIOUS
      <4>2. prev[n] = n
        BY <1>1, <4>1
      <4> QED BY <4>1, <4>2
    <3> QED BY <1>1, <1>2, <2>1, <3>1
  <2>2. ClosedUnderNext(t, S) /\ S \in SUBSET Nodes(t) /\ h \in S
    BY <2>1 DEF ClosedUnderNext
  <2>3. mp \in S
    <3> HIDE DEF S
    <3> QED BY <2>2 DEF Leads
  <2> QED BY <2>3
<1>5. prev[h] # mp
  <2>1. {mp} \in SUBSET Nodes(t) /\ {mp} # {}
    OBVIOUS
  <2>2. t.next[mp] # mp
    BY <2>1 DEF ChainsEnd
  <2> QED BY <1>4, <2>2
<1> QED BY <1>1, <1>3, <1>4, <1>5

\* Place does one of the three.
LEMMA PlaceCases ==
  ASSUME NEW t, NEW k, TableType(t), Placing(t, k, MainPos(t, k), t.firstfree)
  PROVE  \/ Home(t, Place(t, k).tab, k, MainPos(t, k)) /\ Place(t, k).at = MainPos(t, k)
         \/ /\ \E pr : Evict(t, Place(t, k).tab, k, MainPos(t, k), t.firstfree, pr)
            /\ Place(t, k).at = MainPos(t, k)
         \/ Chain(t, Place(t, k).tab, k, MainPos(t, k), t.firstfree) /\ Place(t, k).at = t.firstfree
<1> DEFINE mp == MainPos(t, k)
           n == t.firstfree
           h == MainPos(t, t.key[mp])
           u == Place(t, k).tab
<1>1. mp \in Nodes(t) /\ n \in Nodes(t) /\ k \in Keys /\ n \in Int /\ mp \in Int
  BY DEF Placing, Nodes, TableType
<1>2. t.key[n] = Null /\ t.next[n] = NoNode
  BY DEF Placing, FreeAt
<1>3. CASE t.key[mp] = Null
  <2>1. Place(t, k) = [at |-> mp, tab |-> [t EXCEPT !.key[mp] = k]]
    BY <1>3 DEF Place
  <2>2. u = [t EXCEPT !.key[mp] = k] /\ Place(t, k).at = mp
    BY <2>1
  <2>3. Home(t, u, k, mp)
    <3> HIDE DEF u, mp, n
    <3>1. u = [numofnodes |-> t.numofnodes, usednodes |-> t.usednodes, firstfree |-> t.firstfree,
               key |-> [t.key EXCEPT ![mp] = k], val |-> t.val, next |-> t.next, spilled |-> t.spilled]
      BY <2>2 DEF TableType
    <3> QED BY <3>1, <1>1, <1>3 DEF Home, SameFrame, TableType, Nodes
  <2> QED BY <2>2, <2>3
<1>4. CASE t.key[mp] # Null /\ mp > n /\ h # mp
  <2> DEFINE pr == Previous(t, h, mp)
  <2>1. Place(t, k) = [at |-> mp, tab |-> MoveColliding(t, h, mp, n, k)]
    BY <1>4 DEF Place
  <2>2. u = MoveColliding(t, h, mp, n, k) /\ Place(t, k).at = mp
    BY <2>1
  <2>3. mp \in Occupied(t) /\ t.key[mp] \in Keys
    BY <1>1, <1>4 DEF Occupied, TableType
  <2>4. Leads(t, h, mp) /\ h \in Nodes(t)
    BY <2>3, MainPosType DEF Placing, Chained, Reachable, TableType
  <2>5. pr \in Nodes(t) /\ t.next[pr] = mp /\ pr # mp
    <3> HIDE DEF h, mp
    <3> QED BY <1>1, <1>4, <2>4, PreviousFound DEF Placing, Chained
  <2>6. pr # n /\ mp # n
    BY <1>1, <1>2, <1>4, <2>5 DEF NoNode, Nodes, TableType
  <2>7. Evict(t, u, k, mp, n, pr)
    <3>1. u = [numofnodes |-> t.numofnodes, usednodes |-> t.usednodes, firstfree |-> t.firstfree,
               key |-> [t.key EXCEPT ![n] = t.key[mp], ![mp] = k],
               val |-> [t.val EXCEPT ![n] = t.val[mp], ![mp] = Null],
               next |-> [t.next EXCEPT ![pr] = n, ![n] = t.next[mp], ![mp] = NoNode], spilled |-> t.spilled]
      <4> HIDE DEF u, mp, n, h
      <4> QED BY <2>2 DEF TableType, MoveColliding
    <3>2. h # mp /\ t.key[mp] # Null
      BY <1>4
    <3> HIDE DEF u, mp, n, h, pr
    <3>3. SameFrame(t, u)
      BY <3>1, <1>1, <2>5 DEF SameFrame, TableType, Nodes
    <3> DEFINE K == [t.key EXCEPT ![n] = t.key[mp], ![mp] = k]
               V == [t.val EXCEPT ![n] = t.val[mp], ![mp] = Null]
               X == [t.next EXCEPT ![pr] = n, ![n] = t.next[mp], ![mp] = NoNode]
    <3>4. /\ K[n] = t.key[mp] /\ K[mp] = k /\ V[n] = t.val[mp]
          /\ X[n] = t.next[mp] /\ X[mp] = NoNode /\ X[pr] = n
          /\ \A x \in Nodes(t) : x # mp /\ x # n => K[x] = t.key[x] /\ V[x] = t.val[x]
          /\ \A x \in Nodes(t) : x # mp /\ x # n /\ x # pr => X[x] = t.next[x]
      BY <1>1, <2>5, <2>6 DEF TableType
    <3>5. u.key = K /\ u.val = V /\ u.next = X
      BY <3>1
    <3> HIDE DEF K, V, X
    <3>6. MainPos(t, t.key[mp]) # mp
      BY <3>2 DEF h
    <3> QED BY <3>2, <3>3, <3>4, <3>5, <3>6, <2>5, <2>6 DEF Evict
  <2> QED BY <2>2, <2>7
<1>5. CASE t.key[mp] # Null /\ ~(mp > n /\ h # mp)
  <2>1. Place(t, k) = [at |-> n, tab |-> [t EXCEPT !.next[n] = t.next[mp], !.next[mp] = n, !.key[n] = k]]
    BY <1>5 DEF Place
  <2>2. u = [t EXCEPT !.next[n] = t.next[mp], !.next[mp] = n, !.key[n] = k] /\ Place(t, k).at = n
    BY <2>1
  <2>3. h = mp
    <3>1. mp \in Occupied(t)
      BY <1>1, <1>5 DEF Occupied
    <3>2. CASE mp <= n
      BY <3>1, <3>2 DEF OwnBelow, Placing
    <3>3. CASE ~(mp <= n)
      BY <3>3, <1>1, <1>5
    <3> QED BY <3>2, <3>3
  <2>4. mp # n
    BY <1>2, <1>5
  <2>5. Chain(t, u, k, mp, n)
    <3>1. u = [numofnodes |-> t.numofnodes, usednodes |-> t.usednodes, firstfree |-> t.firstfree,
               key |-> [t.key EXCEPT ![n] = k], val |-> t.val,
               next |-> [t.next EXCEPT ![n] = t.next[mp], ![mp] = n], spilled |-> t.spilled]
      <4> HIDE DEF u, mp, n, h
      <4> QED BY <2>2 DEF TableType
    <3>2. MainPos(t, t.key[mp]) = mp /\ t.key[mp] # Null
      BY <1>5, <2>3
    <3> HIDE DEF u, mp, n, h
    <3> QED BY <3>1, <3>2, <1>1, <2>4 DEF Chain, SameFrame, TableType, Nodes
  <2> QED BY <2>2, <2>5
<1> QED BY <1>3, <1>4, <1>5

----------------------------------------------------------------------------
(* What NewSlot makes of a table, up to the point where it calls Rehash.   *)

\* The table maps k to v; it has k.
Holds(t, k, v) == \E n \in Occupied(t) : t.key[n] = k /\ t.val[n] = v
Has(t, k) == \E n \in Occupied(t) : t.key[n] = k

\* Empty nodes have no links, and there are none above the free place: nothing
\* has been removed.
Compact(t) ==
  /\ \A n \in Nodes(t) : t.key[n] = Null => t.next[n] = NoNode
  /\ \A n \in Nodes(t) : n > t.firstfree => t.key[n] # Null

\* The table u is t with the key k added at the node at, its value not yet set.
Added(t, u, k, at) ==
  /\ SameFrame(t, u) /\ Chained(u)
  /\ at \in Nodes(t) /\ u.key[at] = k
  /\ \E m \in Nodes(t) \ Occupied(t) : Occupied(u) = Occupied(t) \cup {m}
  /\ \A x, y : x # k => (Holds(u, x, y) <=> Holds(t, x, y))
  /\ \A f \in Int : f < t.firstfree \/ (f = t.firstfree /\ u.key[f] = Null) =>
       OwnBelow(u, f) /\ LinksAbove(u, f)
  /\ Compact(t) => \A n \in Nodes(t) : u.key[n] = Null => u.next[n] = NoNode

\* Place adds the key.
LEMMA PlaceAdds ==
  ASSUME NEW t, NEW k, TableType(t), Placing(t, k, MainPos(t, k), t.firstfree)
  PROVE  Added(t, Place(t, k).tab, k, Place(t, k).at)
<1> DEFINE mp == MainPos(t, k)
           n == t.firstfree
           u == Place(t, k).tab
<1>1. mp \in Nodes(t) /\ n \in Nodes(t) /\ k \in Keys /\ k # Null /\ n \in Int
  BY SlotAssumption DEF Placing, Nodes, TableType
<1>2. t.key[n] = Null /\ t.next[n] = NoNode /\ n \notin Occupied(t)
  BY DEF Placing, FreeAt, Occupied
<1>3. ASSUME NEW x \in Nodes(t), t.key[x] # Null PROVE x \in Occupied(t)
  BY <1>3 DEF Occupied
<1>4. ASSUME Home(t, u, k, mp), Place(t, k).at = mp PROVE Added(t, u, k, mp)
  <2> HIDE DEF u, mp, n
  <2>1. Nodes(u) = Nodes(t)
    BY <1>4, SameMainPos DEF Home, SameFrame
  <2>2. Occupied(u) = Occupied(t) \cup {mp} /\ mp \notin Occupied(t)
    <3>1. t.key[mp] = Null /\ u.key[mp] # Null /\ \A x \in Nodes(t) : x # mp => u.key[x] = t.key[x]
      BY <1>1, <1>4 DEF Home
    <3> QED BY ONLY <1>1, <2>1, <3>1 DEF Occupied
  <2>3. Chained(u) /\ OwnBelow(u, n) /\ LinksAbove(u, n)
    BY <1>4, HomeChained DEF mp, n
  <2>4. \A x, y : x # k => (Holds(u, x, y) <=> Holds(t, x, y))
    BY <1>1, <1>4, <2>1, <2>2 DEF Home, Holds, Occupied
  <2>5. \A f \in Int : f <= n => OwnBelow(u, f) /\ LinksAbove(u, f)
    <3>1. Nodes(u) \subseteq Int /\ \A x \in Nodes(u) : u.next[x] \in Int
      BY <1>4 DEF Home, SameFrame, TableType, Nodes, NoNode
    <3> QED BY <1>1, <2>3, <3>1 DEF OwnBelow, LinksAbove, Occupied
  <2>6. Compact(t) => \A x \in Nodes(t) : u.key[x] = Null => u.next[x] = NoNode
    BY <1>1, <1>4 DEF Home, Compact
  <2> QED BY <1>1, <1>4, <2>2, <2>3, <2>4, <2>5, <2>6 DEF Added, Home, n
<1>5. ASSUME NEW pr, Evict(t, u, k, mp, n, pr) PROVE Added(t, u, k, mp)
  <2> HIDE DEF u, mp, n
  <2>1. Nodes(u) = Nodes(t)
    BY <1>5, SameMainPos DEF Evict, SameFrame
  <2>2. Occupied(u) = Occupied(t) \cup {n}
    BY <1>1, <1>2, <1>5, <2>1 DEF Evict, Occupied
  <2>3. Chained(u) /\ \A f \in Int : f < n => OwnBelow(u, f) /\ LinksAbove(u, f)
    BY <1>5, EvictChained DEF mp, n
  <2>4. ASSUME NEW x, NEW y, x # k PROVE Holds(u, x, y) <=> Holds(t, x, y)
    <3>1. ASSUME NEW z \in Occupied(u), u.key[z] = x, u.val[z] = y PROVE Holds(t, x, y)
      <4>1. CASE z = n
        BY <3>1, <4>1, <1>1, <1>5 DEF Evict, Holds, Occupied
      <4>2. CASE z # n
        BY <3>1, <4>2, <2>2, <2>4, <1>5 DEF Evict, Holds, Occupied
      <4> QED BY <4>1, <4>2
    <3>2. ASSUME NEW z \in Occupied(t), t.key[z] = x, t.val[z] = y PROVE Holds(u, x, y)
      <4>1. CASE z = mp
        BY <3>2, <4>1, <2>2, <1>5 DEF Evict, Holds
      <4>2. CASE z # mp
        BY <3>2, <4>2, <2>2, <1>2, <1>5 DEF Evict, Holds, Occupied
      <4> QED BY <4>1, <4>2
    <3> QED BY <3>1, <3>2 DEF Holds
  <2>5. u.key[n] # Null
    BY <1>5 DEF Evict
  <2>6. Compact(t) => \A x \in Nodes(t) : u.key[x] = Null => u.next[x] = NoNode
    <3> SUFFICES ASSUME Compact(t), NEW x \in Nodes(t), u.key[x] = Null PROVE u.next[x] = NoNode
      OBVIOUS
    <3>1. x # mp /\ x # n
      BY <1>1, <1>5, <2>5 DEF Evict
    <3>2. t.key[x] = Null /\ t.next[x] = NoNode
      BY <1>5, <3>1 DEF Evict, Compact
    <3>3. x # pr
      BY <1>1, <1>5, <3>2 DEF Evict, Nodes, NoNode, SameFrame, TableType
    <3> QED BY <1>5, <3>1, <3>2, <3>3 DEF Evict
  <2>7. SameFrame(t, u) /\ u.key[mp] = k /\ mp \in Nodes(t) /\ n \in Nodes(t) \ Occupied(t)
    BY <1>1, <1>2, <1>5 DEF Evict
  <2> QED BY <2>2, <2>3, <2>4, <2>5, <2>6, <2>7 DEF Added, n
<1>6. ASSUME Chain(t, u, k, mp, n) PROVE Added(t, u, k, n)
  <2> HIDE DEF u, mp, n
  <2>1. Nodes(u) = Nodes(t)
    BY <1>6, SameMainPos DEF Chain, SameFrame
  <2>2. Occupied(u) = Occupied(t) \cup {n}
    BY <1>1, <1>2, <1>6, <2>1 DEF Chain, Occupied
  <2>3. Chained(u) /\ \A f \in Int : f < n => OwnBelow(u, f) /\ LinksAbove(u, f)
    BY <1>6, ChainChained DEF mp, n
  <2>4. \A x, y : x # k => (Holds(u, x, y) <=> Holds(t, x, y))
    BY <1>1, <1>2, <1>6, <2>1, <2>2 DEF Chain, Holds, Occupied
  <2>5. u.key[n] # Null
    BY <1>1, <1>6 DEF Chain
  <2>6. Compact(t) => \A x \in Nodes(t) : u.key[x] = Null => u.next[x] = NoNode
    BY <1>1, <1>6, <2>5 DEF Chain, Compact
  <2>7. SameFrame(t, u) /\ u.key[n] = k /\ n \in Nodes(t) \ Occupied(t)
    BY <1>1, <1>2, <1>6 DEF Chain
  <2> QED BY <2>2, <2>3, <2>4, <2>5, <2>6, <2>7 DEF Added, n
<1>7. \/ Home(t, u, k, mp) /\ Place(t, k).at = mp
      \/ (\E pr : Evict(t, u, k, mp, n, pr)) /\ Place(t, k).at = mp
      \/ Chain(t, u, k, mp, n) /\ Place(t, k).at = n
  BY PlaceCases
<1> HIDE DEF u, mp, n
<1> QED BY <1>4, <1>5, <1>6, <1>7 DEF u, mp, n

\* The greatest of some numbers up to f.
LEMMA GreatestElement ==
  ASSUME NEW f \in Nat, NEW S \in SUBSET (0 .. f), S # {}
  PROVE  Max(S) \in S /\ \A y \in S : y <= Max(S)
<1> DEFINE T == {f - x : x \in S}
<1>1. T \subseteq Nat /\ T # {}
  <2>1. \A x \in S : f - x \in Nat
    OBVIOUS
  <2> QED BY <2>1
<1>2. PICK z \in T : \A y \in T : z <= y
  <2> HIDE DEF T
  <2> QED BY <1>1, LeastElement
<1>3. PICK m \in S : z = f - m
  OBVIOUS
<1>4. \A y \in S : m >= y
  <2> SUFFICES ASSUME NEW y \in S PROVE m >= y
    OBVIOUS
  <2>1. f - y \in T
    OBVIOUS
  <2>2. z <= f - y
    <3> HIDE DEF T
    <3> QED BY <1>2, <2>1
  <2> QED BY <1>3, <2>2
<1>5. Max(S) \in S /\ \A y \in S : Max(S) >= y
  BY <1>4 DEF Max
<1> QED BY <1>5

\* Nodes are finitely many.
LEMMA OccupiedFinite ==
  ASSUME NEW t, t.numofnodes \in Nat \ {0}
  PROVE  /\ IsFiniteSet(Occupied(t)) /\ Cardinality(Occupied(t)) \in Nat
         /\ IsFiniteSet(Nodes(t)) /\ Cardinality(Nodes(t)) = t.numofnodes
<1>1. PICK z \in Int, m \in Int : z = 0 /\ m = t.numofnodes - 1
  OBVIOUS
<1>2. IsFiniteSet(Nodes(t)) /\ Cardinality(Nodes(t)) = t.numofnodes
  <2>1. Nodes(t) = z .. m
    BY <1>1 DEF Nodes
  <2>2. IsFiniteSet(z .. m) /\ Cardinality(z .. m) = IF z > m THEN 0 ELSE m - z + 1
    BY FS_Interval
  <2> QED BY <1>1, <2>1, <2>2
<1>3. Occupied(t) \in SUBSET Nodes(t)
  BY DEF Occupied
<1> QED BY <1>2, <1>3, FS_Subset, FS_CardinalityType

\* The tables s and t have the same size, and s maps as t does, but k to v.
Updated(t, s, k, v) ==
  /\ s.numofnodes = t.numofnodes
  /\ \A x, y : Holds(s, x, y) <=> IF x = k THEN y = v ELSE Holds(t, x, y)

\* A value may change at any node.
LEMMA OverwriteGood ==
  ASSUME NEW t, Good(t), NEW n \in Nodes(t), NEW v \in Vals \cup {Null}
  PROVE  LET s == [t EXCEPT !.val[n] = v]
         IN  /\ Good(s) /\ s.usednodes = t.usednodes /\ s.numofnodes = t.numofnodes
             /\ Occupied(s) = Occupied(t) /\ s.key = t.key
             /\ s.val = [t.val EXCEPT ![n] = v]
             /\ Compact(t) => Compact(s)
<1> DEFINE s == [t EXCEPT !.val[n] = v]
<1>1. s = [numofnodes |-> t.numofnodes, usednodes |-> t.usednodes, firstfree |-> t.firstfree,
           key |-> t.key, val |-> [t.val EXCEPT ![n] = v], next |-> t.next, spilled |-> t.spilled]
  BY DEF Good, TableType
<1>2. /\ s.numofnodes = t.numofnodes /\ s.usednodes = t.usednodes /\ s.firstfree = t.firstfree
      /\ s.key = t.key /\ s.next = t.next /\ s.spilled = t.spilled /\ s.val = [t.val EXCEPT ![n] = v]
  BY <1>1
<1>3. TableType(s)
  BY <1>1 DEF Good, TableType, Nodes
<1> HIDE DEF s
<1>4. Nodes(s) = Nodes(t) /\ \A k : MainPos(s, k) = MainPos(t, k)
  BY <1>2, SameMainPos
<1>5. Occupied(s) = Occupied(t)
  BY <1>2, <1>4 DEF Occupied
<1>6. Chained(s)
  BY <1>2, <1>4, <1>5 DEF Good, Chained, LinkedOnce, ChainsEnd, StoredOnce, Reachable, GuestsAlone, Leads, ClosedUnderNext
<1>7. OwnBelow(s, s.firstfree) /\ LinksAbove(s, s.firstfree) /\ FreeAt(s, s.firstfree)
  BY <1>2, <1>4, <1>5 DEF Good, OwnBelow, LinksAbove, FreeAt
<1>8. Counted(s)
  BY <1>2, <1>5 DEF Good, Counted
<1>9. Good(s)
  BY <1>2, <1>3, <1>6, <1>7, <1>8 DEF Good
<1>10. Compact(t) => Compact(s)
  BY <1>2, <1>4 DEF Compact
<1> QED BY <1>2, <1>5, <1>9, <1>10 DEF s

\* NewSlot of a key that is there.
LEMMA SlotOverwritten ==
  ASSUME NEW t, Good(t), NEW k \in Keys, Has(t, k), NEW v \in Vals \cup {Null}
  PROVE  LET r == NewSlotOnce(t, k, v)
         IN  /\ ~r.full /\ r.ret = FALSE /\ Good(r.tab) /\ Updated(t, r.tab, k, v)
             /\ r.tab.key = t.key
<1> DEFINE n == GetNode(t, k)
           s == [t EXCEPT !.val[n] = v]
<1>1. n # NoNode /\ n \in Occupied(t) /\ t.key[n] = k
  BY FoundIffStored DEF Good, Chained, Has
<1>2. NewSlotOnce(t, k, v) = [tab |-> s, ret |-> FALSE, full |-> FALSE]
  BY <1>1 DEF NewSlotOnce
<1>3. n \in Nodes(t)
  BY <1>1 DEF Occupied
<1>4. /\ Good(s) /\ s.numofnodes = t.numofnodes /\ s.key = t.key /\ Occupied(s) = Occupied(t)
      /\ s.val = [t.val EXCEPT ![n] = v]
  <2> HIDE DEF n
  <2> QED BY <1>3, OverwriteGood
<1>5. Updated(t, s, k, v)
  <2>1. \A x \in Occupied(t) : t.key[x] = k => x = n
    BY <1>1 DEF Good, Chained, StoredOnce
  <2>2. \A x \in Occupied(t) : s.val[x] = IF x = n THEN v ELSE t.val[x]
    BY <1>4 DEF Good, TableType, Occupied
  <2> HIDE DEF n, s
  <2> QED BY <1>1, <1>4, <2>1, <2>2 DEF Updated, Holds
<1> HIDE DEF s
<1> QED BY <1>2, <1>4, <1>5

\* A table with a key too many, as Rehash finds it.
Overfull(t, k) ==
  /\ TableType(t) /\ StoredOnce(t) /\ t.spilled = FALSE
  /\ Cardinality(Occupied(t)) = t.usednodes + 1
  /\ Has(t, k)

\* NewSlot of a key that is not there.
LEMMA SlotAdded ==
  ASSUME NEW t, Good(t), NEW k \in Keys, ~Has(t, k), NEW v \in Vals \cup {Null}
  PROVE  LET r == NewSlotOnce(t, k, v)
         IN  /\ r.full \in BOOLEAN
             /\ ~r.full => /\ r.ret = TRUE /\ Good(r.tab) /\ Updated(t, r.tab, k, v)
                           /\ r.tab.usednodes = t.usednodes + 1
                           /\ Compact(t) => Compact(r.tab)
             /\ r.full => /\ r.ret = FALSE /\ Overfull(r.tab, k) /\ r.tab.numofnodes = t.numofnodes
                          /\ r.tab.usednodes = t.usednodes
                          /\ \A x, y : x # k => (Holds(r.tab, x, y) <=> Holds(t, x, y))
             /\ Compact(t) /\ t.usednodes + 1 < t.numofnodes => ~r.full
<1> DEFINE p == Place(t, k)
           u == p.tab
           free == FreePlaces(u)
           f == Max(free)
           r == NewSlotOnce(t, k, v)
<1>1. GetNode(t, k) = NoNode
  BY FoundIffStored DEF Good, Chained, Has
<1>2. Placing(t, k, MainPos(t, k), t.firstfree) /\ TableType(t)
  <2>1. \A x \in Occupied(t) : t.key[x] # k
    BY DEF Has
  <2>2. MainPos(t, k) \in Nodes(t) /\ t.firstfree \in Nodes(t)
    BY MainPosType DEF Good, TableType
  <2> QED BY <2>1, <2>2 DEF Placing, Good
<1>3. Added(t, u, k, p.at)
  BY <1>2, PlaceAdds
<1>4. k # Null
  BY SlotAssumption
<1>5. Nodes(u) = Nodes(t) /\ TableType(u) /\ u.numofnodes = t.numofnodes /\ u.usednodes = t.usednodes
      /\ u.firstfree = t.firstfree /\ u.spilled = FALSE
  BY <1>3, SameMainPos DEF Added, SameFrame, Good
<1>6. p.at \in Nodes(u) /\ p.at \in Occupied(u) /\ u.key[p.at] = k
  <2> HIDE DEF p
  <2> QED BY <1>3, <1>4, <1>5 DEF Added, Occupied
<1>7. Cardinality(Occupied(u)) = t.usednodes + 1
  <2>1. PICK m \in Nodes(t) \ Occupied(t) : Occupied(u) = Occupied(t) \cup {m}
    BY <1>3 DEF Added
  <2>2. IsFiniteSet(Occupied(t)) /\ Cardinality(Occupied(t)) = t.usednodes
    BY <1>2, OccupiedFinite DEF Good, Counted, TableType
  <2> QED BY <2>1, <2>2, FS_AddElement
<1>8. t.firstfree \in Nat /\ t.usednodes \in Nat /\ t.numofnodes \in Nat \ {0}
  BY <1>2 DEF TableType, Nodes
<1>9. StoredOnce(u)
  BY <1>3 DEF Added, Chained
<1>10. CASE free = {}
  <2> DEFINE s == [u EXCEPT !.firstfree = 0]
  <2>1. r = [tab |-> s, ret |-> FALSE, full |-> TRUE]
    BY <1>1, <1>10 DEF NewSlotOnce
  <2> HIDE DEF p, free, f, r
  <2>2. s = [numofnodes |-> u.numofnodes, usednodes |-> u.usednodes, firstfree |-> 0,
             key |-> u.key, val |-> u.val, next |-> u.next, spilled |-> u.spilled]
    BY <1>5 DEF TableType
  <2>3. 0 \in Nodes(u)
    BY <1>5, <1>8 DEF Nodes
  <2>4. TableType(s)
    BY <2>2, <2>3, <1>5 DEF TableType, Nodes
  <2>5. s.numofnodes = t.numofnodes /\ s.usednodes = t.usednodes /\ s.key = u.key /\ s.val = u.val
        /\ s.spilled = FALSE
    BY <2>2, <1>5
  <2> HIDE DEF s, u
  <2>6. Occupied(s) = Occupied(u)
    BY <2>5, <1>5 DEF Occupied, Nodes
  <2>7. \A x, y : Holds(s, x, y) <=> Holds(u, x, y)
    BY <2>5, <2>6 DEF Holds
  <2>8. Overfull(s, k)
    BY <2>4, <2>5, <2>6, <1>6, <1>7, <1>9 DEF Overfull, StoredOnce, Has
  <2>9. \A x, y : x # k => (Holds(s, x, y) <=> Holds(t, x, y))
    BY <2>7, <1>3 DEF Added
  <2>10. ~ (Compact(t) /\ t.usednodes + 1 < t.numofnodes)
    <3> SUFFICES ASSUME Compact(t) PROVE t.usednodes + 1 = t.numofnodes
      BY <1>8
    <3>1. \A x \in Nodes(u) : u.key[x] = Null => u.next[x] = NoNode
      BY <1>3, <1>5 DEF Added
    <3>2. Nodes(u) \subseteq Occupied(u)
      <4> SUFFICES ASSUME NEW x \in Nodes(u), u.key[x] = Null PROVE FALSE
        BY DEF Occupied
      <4>1. t.key[x] = Null
        <5>1. x \notin Occupied(t)
          BY <1>3 DEF Added, Occupied
        <5> QED BY <5>1, <1>5 DEF Occupied
      <4>2. x <= t.firstfree /\ 0 <= x /\ x \in Int
        BY <4>1, <1>5, <1>8 DEF Compact, Nodes
      <4>3. x \in FreePlaces(u)
        BY <4>2, <3>1, <1>5, <1>8 DEF FreePlaces
      <4> QED BY <4>3, <1>10 DEF free, u
    <3>3. Nodes(u) = Occupied(u)
      BY <3>2 DEF Occupied
    <3>4. Cardinality(Nodes(u)) = u.numofnodes
      BY <1>5, <1>8, OccupiedFinite
    <3> QED BY <3>3, <3>4, <1>5, <1>7
  <2> QED BY <2>1, <2>5, <2>8, <2>9, <2>10 DEF r
<1>11. CASE free # {}
  <2> DEFINE at == p.at
             s == [u EXCEPT !.val[at] = v, !.usednodes = @ + 1, !.firstfree = f]
  <2>1. r = [tab |-> s, ret |-> TRUE, full |-> FALSE]
    BY <1>1, <1>11 DEF NewSlotOnce
  <2>2. f \in free /\ \A y \in free : y <= f
    <3>1. free \in SUBSET (0 .. t.firstfree)
      BY <1>5 DEF FreePlaces
    <3> HIDE DEF free
    <3> QED BY <3>1, <1>8, <1>11, GreatestElement
  <2>3. f \in 0 .. t.firstfree /\ u.key[f] = Null /\ u.next[f] = NoNode
    <3> HIDE DEF f
    <3> QED BY <2>2, <1>5 DEF FreePlaces
  <2>4. f \in Int /\ f <= t.firstfree /\ f \in Nodes(u)
    <3>1. t.firstfree \in Nodes(u)
      BY <1>5 DEF TableType
    <3> HIDE DEF f
    <3> QED BY <2>3, <1>8, <1>5, <3>1 DEF Nodes
  <2>5. s = [numofnodes |-> u.numofnodes, usednodes |-> u.usednodes + 1, firstfree |-> f,
             key |-> u.key, val |-> [u.val EXCEPT ![at] = v], next |-> u.next, spilled |-> u.spilled]
    <3> DEFINE R == [numofnodes : {u.numofnodes}, usednodes : {u.usednodes, u.usednodes + 1},
                     firstfree : {u.firstfree, f}, key : {u.key}, val : {u.val, [u.val EXCEPT ![at] = v]},
                     next : {u.next}, spilled : {u.spilled}]
    <3>1. u \in R
      BY <1>5 DEF TableType
    <3> HIDE DEF p, f, free, u, at
    <3>2. s \in R
      BY <3>1
    <3>3. /\ s.numofnodes = u.numofnodes /\ s.usednodes = u.usednodes + 1 /\ s.firstfree = f
          /\ s.key = u.key /\ s.val = [u.val EXCEPT ![at] = v] /\ s.next = u.next /\ s.spilled = u.spilled
      BY <3>1
    <3> HIDE DEF s
    <3>4. s = [numofnodes |-> s.numofnodes, usednodes |-> s.usednodes, firstfree |-> s.firstfree,
               key |-> s.key, val |-> s.val, next |-> s.next, spilled |-> s.spilled]
      BY <3>2
    <3> QED BY <3>3, <3>4
  <2> HIDE DEF p, free, f, r
  <2>6. TableType(s)
    <3> HIDE DEF u, s, at
    <3>1. Nodes(s) = Nodes(u)
      BY <2>5 DEF Nodes
    <3>2. u.usednodes + 1 \in Nat /\ u.numofnodes \in Nat \ {0}
      BY <1>5, <1>8
    <3>3. /\ s.numofnodes = u.numofnodes /\ s.usednodes = u.usednodes + 1 /\ s.firstfree = f
          /\ s.key = u.key /\ s.val = [u.val EXCEPT ![at] = v] /\ s.next = u.next /\ s.spilled = u.spilled
      BY <2>5
    <3>4. s.val \in [Nodes(u) -> Vals \cup {Null}]
      BY <3>3, <1>5 DEF TableType
    <3>5. s.key \in [Nodes(u) -> Keys \cup {Null}] /\ s.next \in [Nodes(u) -> Nodes(u) \cup {NoNode}]
      BY <3>3, <1>5 DEF TableType
    <3>6. s = [numofnodes |-> s.numofnodes, usednodes |-> s.usednodes, firstfree |-> s.firstfree,
               key |-> s.key, val |-> s.val, next |-> s.next, spilled |-> s.spilled]
      BY <2>5, <3>3
    <3> QED BY <2>4, <3>1, <3>2, <3>3, <3>4, <3>5, <3>6 DEF TableType
  <2>7. s.numofnodes = t.numofnodes /\ s.usednodes = t.usednodes + 1 /\ s.firstfree = f /\ s.key = u.key
        /\ s.val = [u.val EXCEPT ![at] = v] /\ s.next = u.next /\ s.spilled = FALSE
    BY <2>5, <1>5
  <2> HIDE DEF s, u
  <2>8. Nodes(s) = Nodes(u) /\ \A x : MainPos(s, x) = MainPos(u, x)
    BY <2>7, <1>5, SameMainPos
  <2>9. Occupied(s) = Occupied(u)
    BY <2>7, <2>8 DEF Occupied
  <2>10. Chained(s)
    <3>1. Chained(u)
      BY <1>3 DEF Added
    <3> QED BY <3>1, <2>7, <2>8, <2>9 DEF Chained, LinkedOnce, ChainsEnd, StoredOnce, Reachable, GuestsAlone, Leads, ClosedUnderNext
  <2>11. OwnBelow(s, f) /\ LinksAbove(s, f)
    <3>1. f < t.firstfree \/ f = t.firstfree
      BY <2>4, <1>8
    <3>2. OwnBelow(u, f) /\ LinksAbove(u, f)
      BY <3>1, <2>3, <2>4, <1>3 DEF Added
    <3> QED BY <3>2, <2>7, <2>8, <2>9 DEF OwnBelow, LinksAbove
  <2>12. Good(s)
    BY <2>3, <2>6, <2>7, <2>9, <2>10, <2>11, <1>7 DEF Good, Counted, FreeAt
  <2>13. Updated(t, s, k, v)
    <3>1. \A x \in Occupied(u) : u.key[x] = k => x = at
      BY <1>6, <1>9 DEF StoredOnce, at
    <3>2. \A x \in Occupied(u) : s.val[x] = IF x = at THEN v ELSE u.val[x]
      BY <2>7, <1>5 DEF TableType, Occupied
    <3>3. at \in Occupied(u) /\ u.key[at] = k
      BY <1>6 DEF at
    <3> HIDE DEF at
    <3>4. \A y : Holds(s, k, y) <=> y = v
      BY <2>7, <2>9, <3>1, <3>2, <3>3 DEF Holds
    <3>5. \A x, y : x # k => (Holds(s, x, y) <=> Holds(u, x, y))
      BY <2>7, <2>9, <3>1, <3>2, <3>3 DEF Holds
    <3> QED BY <3>4, <3>5, <1>3, <2>7 DEF Updated, Added
  <2>14. Compact(t) => Compact(s)
    <3> SUFFICES ASSUME Compact(t) PROVE Compact(s)
      OBVIOUS
    <3>1. \A x \in Nodes(u) : u.key[x] = Null => u.next[x] = NoNode
      BY <1>3, <1>5 DEF Added
    <3>2. ASSUME NEW x \in Nodes(u), x > f PROVE u.key[x] # Null
      <4> SUFFICES ASSUME u.key[x] = Null PROVE FALSE
        OBVIOUS
      <4>1. t.key[x] = Null
        <5>1. x \notin Occupied(t)
          BY <1>3 DEF Added, Occupied
        <5> QED BY <5>1, <1>5 DEF Occupied
      <4>2. x <= t.firstfree /\ 0 <= x /\ x \in Int
        BY <4>1, <1>5, <1>8 DEF Compact, Nodes
      <4>3. x \in FreePlaces(u)
        BY <4>2, <3>1, <1>5, <1>8 DEF FreePlaces
      <4>4. x <= f
        BY <4>3, <2>2 DEF free, u
      <4> QED BY <4>2, <4>4, <2>4, <3>2
    <3> QED BY <3>1, <3>2, <2>7, <2>8 DEF Compact
  <2> QED BY <2>1, <2>7, <2>12, <2>13, <2>14 DEF r
<1> QED BY <1>10, <1>11

----------------------------------------------------------------------------
(* Rehash and Clone: tables filled from the nodes of another.              *)

\* An empty table.
LEMMA AllocGood ==
  ASSUME NEW size \in Nat \ {0}
  PROVE  LET u == AllocNodes(size)
         IN  /\ Good(u) /\ Compact(u) /\ u.numofnodes = size /\ u.usednodes = 0
             /\ Occupied(u) = {}
<1> DEFINE u == AllocNodes(size)
<1>1. u = [numofnodes |-> size, usednodes |-> 0, firstfree |-> size - 1,
           key |-> [n \in 0 .. size - 1 |-> Null], val |-> [n \in 0 .. size - 1 |-> Null],
           next |-> [n \in 0 .. size - 1 |-> NoNode], spilled |-> FALSE]
  BY DEF AllocNodes
<1> HIDE DEF u
<1>2. u.numofnodes = size /\ u.usednodes = 0 /\ u.firstfree = size - 1 /\ u.spilled = FALSE
  BY <1>1
<1>3. Nodes(u) = 0 .. size - 1 /\ u.firstfree \in Nodes(u)
  BY <1>2 DEF Nodes
<1>4. /\ u.key = [n \in Nodes(u) |-> Null] /\ u.val = [n \in Nodes(u) |-> Null]
      /\ u.next = [n \in Nodes(u) |-> NoNode]
  BY <1>1, <1>3
<1>5. TableType(u)
  BY <1>1, <1>2, <1>3, <1>4 DEF TableType
<1>6. Occupied(u) = {}
  BY <1>4 DEF Occupied
<1>7. NoNode \notin Nodes(u)
  BY <1>3 DEF NoNode
<1>8. Chained(u)
  BY <1>4, <1>6, <1>7 DEF Chained, LinkedOnce, ChainsEnd, StoredOnce, Reachable, GuestsAlone
<1>9. FreeAt(u, u.firstfree) /\ OwnBelow(u, u.firstfree) /\ LinksAbove(u, u.firstfree)
  BY <1>3, <1>4, <1>6 DEF FreeAt, OwnBelow, LinksAbove
<1>10. Counted(u)
  BY <1>2, <1>6, FS_EmptySet DEF Counted
<1>11. Compact(u)
  BY <1>2, <1>3, <1>4 DEF Compact
<1> QED BY <1>2, <1>5, <1>6, <1>8, <1>9, <1>10, <1>11 DEF Good, u

\* The table u has what the nodes of t below i have.
Below(t, i) == {n \in Occupied(t) : n < i}
Filled(t, u, i, size) ==
  /\ Good(u) /\ Compact(u) /\ u.numofnodes = size
  /\ u.usednodes = Cardinality(Below(t, i))
  /\ \A x, y : Holds(u, x, y) <=> \E n \in Below(t, i) : t.key[n] = x /\ t.val[n] = y

\* One round of the loops fills in one node more, and never finds the new table full.
LEMMA FillStep ==
  ASSUME NEW t, TableType(t), StoredOnce(t), NEW size \in Nat, Cardinality(Occupied(t)) < size,
         NEW u, NEW i \in Nodes(t), Filled(t, u, i, size)
  PROVE  /\ t.key[i] = Null => Filled(t, u, i + 1, size)
         /\ t.key[i] # Null => LET r == NewSlotOnce(u, t.key[i], t.val[i])
                               IN  r.full = FALSE /\ Filled(t, r.tab, i + 1, size)
<1>1. i \in Int /\ Occupied(t) \subseteq Int
  BY DEF Nodes, Occupied, TableType
<1>2. CASE t.key[i] = Null
  <2>1. Below(t, i + 1) = Below(t, i)
    BY <1>1, <1>2 DEF Below, Occupied
  <2> QED BY <1>2, <2>1 DEF Filled
<1>3. CASE t.key[i] # Null
  <2> DEFINE k == t.key[i]
             v == t.val[i]
             r == NewSlotOnce(u, k, v)
  <2>1. i \in Occupied(t) /\ k \in Keys /\ v \in Vals \cup {Null}
    BY <1>3 DEF Occupied, TableType
  <2>2. Below(t, i + 1) = Below(t, i) \cup {i} /\ i \notin Below(t, i)
    BY <1>1, <2>1 DEF Below
  <2>3. IsFiniteSet(Occupied(t)) /\ Below(t, i) \in SUBSET Occupied(t) /\ Below(t, i + 1) \in SUBSET Occupied(t)
    BY OccupiedFinite DEF TableType, Below
  <2>4. /\ IsFiniteSet(Below(t, i))
        /\ Cardinality(Below(t, i)) \in Nat /\ Cardinality(Occupied(t)) \in Nat
        /\ Cardinality(Below(t, i + 1)) <= Cardinality(Occupied(t))
    BY <2>3, FS_Subset, FS_CardinalityType
  <2>5. Cardinality(Below(t, i + 1)) = Cardinality(Below(t, i)) + 1
    BY <2>2, <2>4, FS_AddElement
  <2>6. ~Has(u, k)
    <3> SUFFICES ASSUME NEW n \in Occupied(u), u.key[n] = k PROVE FALSE
      BY DEF Has
    <3>1. Holds(u, k, u.val[n])
      BY DEF Holds
    <3>2. PICK m \in Below(t, i) : t.key[m] = k
      BY <3>1 DEF Filled
    <3> QED BY <3>2, <1>1, <2>1 DEF Below, StoredOnce
  <2>7. Good(u) /\ Compact(u) /\ u.usednodes + 1 < u.numofnodes
    BY <2>4, <2>5 DEF Filled
  <2> HIDE DEF k, v
  <2>8. r.full \in BOOLEAN /\ ~r.full
    BY <2>1, <2>6, <2>7, SlotAdded
  <2>9. Good(r.tab) /\ Updated(u, r.tab, k, v) /\ r.tab.usednodes = u.usednodes + 1 /\ Compact(r.tab)
    BY <2>1, <2>6, <2>7, <2>8, SlotAdded
  <2> HIDE DEF r
  <2>10. ASSUME NEW x, NEW y
         PROVE  Holds(r.tab, x, y) <=> \E n \in Below(t, i + 1) : t.key[n] = x /\ t.val[n] = y
    <3>1. (\E n \in Below(t, i + 1) : t.key[n] = x /\ t.val[n] = y)
            <=> (x = k /\ y = v) \/ \E n \in Below(t, i) : t.key[n] = x /\ t.val[n] = y
      BY <2>2 DEF k, v
    <3>2. \A z : ~ Holds(u, k, z)
      BY <2>6 DEF Has, Holds
    <3>3. (\E n \in Below(t, i) : t.key[n] = x /\ t.val[n] = y) <=> Holds(u, x, y)
      BY DEF Filled
    <3>4. Holds(r.tab, x, y) <=> IF x = k THEN y = v ELSE Holds(u, x, y)
      BY <2>9 DEF Updated
    <3> QED BY <3>1, <3>2, <3>3, <3>4
  <2>11. Filled(t, r.tab, i + 1, size)
    BY <2>5, <2>9, <2>10 DEF Filled, Updated
  <2> QED BY <1>3, <2>8, <2>11 DEF r, k, v
<1> QED BY <1>2, <1>3

\* An empty table has what the nodes below 0 have.
LEMMA FillStart ==
  ASSUME NEW t, TableType(t), NEW size \in Nat \ {0}
  PROVE  Filled(t, AllocNodes(size), 0, size)
<1>1. Below(t, 0) = {}
  BY DEF Below, Occupied, Nodes, TableType
<1> DEFINE u == AllocNodes(size)
<1>2. Good(u) /\ Compact(u) /\ u.numofnodes = size /\ u.usednodes = 0 /\ Occupied(u) = {}
  BY AllocGood
<1> HIDE DEF u
<1>3. Filled(t, u, 0, size)
  BY <1>1, <1>2, FS_EmptySet DEF Filled, Holds
<1> QED BY <1>3 DEF u

\* A filled table has all that t has.
LEMMA FillEnd ==
  ASSUME NEW t, TableType(t), NEW u, NEW size, Filled(t, u, t.numofnodes, size)
  PROVE  Good(u) /\ u.numofnodes = size /\ \A x, y : Holds(u, x, y) <=> Holds(t, x, y)
<1>1. Below(t, t.numofnodes) = Occupied(t)
  BY DEF Below, Occupied, Nodes, TableType
<1> QED BY <1>1 DEF Filled, Holds

----------------------------------------------------------------------------
(* The loops of Rehash and Clone.                                          *)

\* The new table after one round of the loop, of Clone or of Rehash.
Round(t, cloning, u, n) ==
  IF cloning
    THEN IF t.key[n] = Null THEN u ELSE NewSlotResult(u, t.key[n], t.val[n]).tab
    ELSE AddBack(t, u, n)

\* The tables g[0], g[1], ... that the rounds make of a.
Rounds(t, cloning, a, N, g) ==
  g[0] = a /\ \A i \in 1 .. N : g[i] = Round(t, cloning, g[i - 1], i - 1)

\* Any number of rounds can be made.
LEMMA RoundsRun ==
  ASSUME NEW t, NEW cloning, NEW a, NEW N \in Nat
  PROVE  \E V : \E g \in [0 .. N -> V] : Rounds(t, cloning, a, N, g)
<1> DEFINE Run(k) == \E V : \E g \in [0 .. k -> V] : Rounds(t, cloning, a, k, g)
           T == {k \in Nat : ~Run(k)}
<1>1. SUFFICES ASSUME T # {} PROVE FALSE
  OBVIOUS
<1>2. PICK k \in T : \A y \in T : k <= y
  <2>1. T \subseteq Nat
    OBVIOUS
  <2> HIDE DEF T
  <2> QED BY <1>1, <2>1, LeastElement
<1>3. CASE k = 0
  <2> DEFINE g == [i \in 0 .. 0 |-> a]
  <2>1. g \in [0 .. 0 -> {a}] /\ Rounds(t, cloning, a, 0, g)
    BY DEF Rounds
  <2>2. Run(0)
    <3> HIDE DEF g
    <3> QED BY <2>1
  <2> QED BY <1>3, <2>2
<1>4. CASE k # 0
  <2>1. k \in Nat /\ k - 1 \in Nat /\ ~ (k <= k - 1)
    BY <1>4
  <2>2. Run(k - 1)
    <3> HIDE DEF Run
    <3> QED BY <1>2, <2>1
  <2>3. PICK V : \E g \in [0 .. k - 1 -> V] : Rounds(t, cloning, a, k - 1, g)
    BY <2>2
  <2>g. PICK g \in [0 .. k - 1 -> V] : Rounds(t, cloning, a, k - 1, g)
    BY <2>3
  <2> DEFINE w == Round(t, cloning, g[k - 1], k - 1)
             h == [i \in 0 .. k |-> IF i = k THEN w ELSE g[i]]
  <2>4. h[k] = w /\ \A i \in 0 .. k - 1 : h[i] = g[i]
    BY <2>1
  <2>5. h \in [0 .. k -> V \cup {w}]
    <3> HIDE DEF w
    <3>1. \A i \in 0 .. k : i # k => i \in 0 .. k - 1
      BY <2>1
    <3> QED BY <2>1, <3>1
  <2>6. Rounds(t, cloning, a, k, h)
    <3> HIDE DEF h
    <3>1. h[0] = a
      BY <2>1, <2>g, <2>4 DEF Rounds
    <3>2. ASSUME NEW i \in 1 .. k PROVE h[i] = Round(t, cloning, h[i - 1], i - 1)
      <4>1. i - 1 \in 0 .. k - 1 /\ h[i - 1] = g[i - 1]
        BY <2>1, <2>4
      <4>2. CASE i = k
        BY <2>4, <4>1, <4>2
      <4>3. CASE i # k
        <5>1. i \in 1 .. k - 1 /\ i \in 0 .. k - 1
          BY <2>1, <4>3
        <5> HIDE DEF w
        <5> QED BY <2>g, <2>4, <4>1, <5>1 DEF Rounds
      <4> QED BY <4>2, <4>3
    <3> QED BY <3>1, <3>2 DEF Rounds
  <2>7. Run(k)
    <3> HIDE DEF h, w
    <3> QED BY <2>5, <2>6
  <2> QED BY <2>7
<1> QED BY <1>3, <1>4

\* Rehash makes as many rounds as the old table has nodes.
LEMMA RehashRuns ==
  ASSUME NEW t, TableType(t), NEW force, RehashSize(t, force) # 0
  PROVE  \E g : /\ Rounds(t, FALSE, AllocNodes(RehashSize(t, force)), t.numofnodes, g)
                /\ Rehash(t, force) = g[t.numofnodes]
<1> DEFINE N == t.numofnodes
           a == AllocNodes(RehashSize(t, force))
           E(f) == [i \in 0 .. N |-> IF i = 0 THEN a ELSE AddBack(t, f[i - 1], i - 1)]
<1>1. N \in Nat
  BY DEF TableType
<1>2. ASSUME NEW V, NEW f \in [0 .. N -> V], Rounds(t, FALSE, a, N, f)
      PROVE  f = E(f)
  <2>1. \A i \in 0 .. N : f[i] = E(f)[i]
    <3> HIDE DEF N, a
    <3> QED BY <1>1, <1>2 DEF Rounds, Round
  <2>2. E(f) = [i \in 0 .. N |-> E(f)[i]]
    OBVIOUS
  <2> HIDE DEF N, a, E
  <2> QED BY <1>2, <2>1, <2>2
<1>3. \E f : f = E(f)
  <2> HIDE DEF N, E, a
  <2> QED BY <1>1, <1>2, RoundsRun
<1> DEFINE g == CHOOSE f : f = E(f)
<1>4. g = E(g)
  <2> HIDE DEF E
  <2> QED BY <1>3
<1>5. Rehash(t, force) = g[N]
  BY DEF Rehash
<1>6. Rounds(t, FALSE, a, N, g)
  <2> HIDE DEF g, N, a
  <2> QED BY <1>1, <1>4 DEF Rounds, Round
<1> HIDE DEF g
<1> QED BY <1>5, <1>6

\* Clone does, too.
LEMMA CloneRuns ==
  ASSUME NEW t, TableType(t)
  PROVE  \E g : /\ Rounds(t, TRUE, AllocNodes(t.numofnodes), t.numofnodes, g)
                /\ CloneOf(t) = g[t.numofnodes]
<1> DEFINE N == t.numofnodes
           a == AllocNodes(t.numofnodes)
           E(f) == [i \in 0 .. N |-> IF i = 0 THEN a
                                     ELSE IF t.key[i - 1] = Null THEN f[i - 1]
                                     ELSE NewSlotResult(f[i - 1], t.key[i - 1], t.val[i - 1]).tab]
<1>1. N \in Nat
  BY DEF TableType
<1>2. ASSUME NEW V, NEW f \in [0 .. N -> V], Rounds(t, TRUE, a, N, f)
      PROVE  f = E(f)
  <2>1. \A i \in 0 .. N : f[i] = E(f)[i]
    <3> HIDE DEF N, a
    <3> QED BY <1>1, <1>2 DEF Rounds, Round
  <2>2. E(f) = [i \in 0 .. N |-> E(f)[i]]
    OBVIOUS
  <2> HIDE DEF N, a, E
  <2> QED BY <1>2, <2>1, <2>2
<1>3. \E f : f = E(f)
  <2> HIDE DEF N, E, a
  <2> QED BY <1>1, <1>2, RoundsRun
<1> DEFINE g == CHOOSE f : f = E(f)
<1>4. g = E(g)
  <2> HIDE DEF E
  <2> QED BY <1>3
<1>5. CloneOf(t) = g[N]
  BY DEF CloneOf
<1>6. Rounds(t, TRUE, a, N, g)
  <2> HIDE DEF g, N, a
  <2> QED BY <1>1, <1>4 DEF Rounds, Round
<1> HIDE DEF g
<1> QED BY <1>5, <1>6

\* One round of either loop fills in one node more.
LEMMA RoundFills ==
  ASSUME NEW t, TableType(t), StoredOnce(t), NEW size \in Nat, Cardinality(Occupied(t)) < size,
         NEW cloning \in BOOLEAN, NEW u, NEW i \in Nodes(t), Filled(t, u, i, size)
  PROVE  Filled(t, Round(t, cloning, u, i), i + 1, size)
<1>1. CASE t.key[i] = Null
  <2>1. Round(t, cloning, u, i) = u
    BY <1>1 DEF Round, AddBack
  <2> QED BY <1>1, <2>1, FillStep
<1>2. CASE t.key[i] # Null
  <2> DEFINE r == NewSlotOnce(u, t.key[i], t.val[i])
             s == r.tab
             w == [s EXCEPT !.spilled = @ \/ r.full]
  <2>1. r.full = FALSE /\ Filled(t, s, i + 1, size)
    BY <1>2, FillStep
  <2>2. NewSlotResult(u, t.key[i], t.val[i]).tab = s
    BY <2>1 DEF NewSlotResult
  <2>3. AddBack(t, u, i) = w
    BY <1>2 DEF AddBack
  <2>4. /\ s = [numofnodes |-> s.numofnodes, usednodes |-> s.usednodes, firstfree |-> s.firstfree,
                key |-> s.key, val |-> s.val, next |-> s.next, spilled |-> s.spilled]
        /\ s.spilled = FALSE
    BY <2>1 DEF Filled, Good, TableType
  <2>5. w = s
    <3> HIDE DEF r
    <3>1. s.spilled \/ r.full = FALSE
      BY <2>1, <2>4
    <3>2. w = [s EXCEPT !.spilled = FALSE]
      BY <2>1, <2>4, <3>1
    <3> HIDE DEF s, w
    <3> QED BY <2>4, <3>2
  <2>6. Round(t, cloning, u, i) = s
    BY <1>2, <2>2, <2>3, <2>5 DEF Round
  <2> QED BY <2>1, <2>6
<1> QED BY <1>1, <1>2

\* The loops fill a new table with what the old one has, if it is large enough.
LEMMA RoundsFill ==
  ASSUME NEW t, TableType(t), StoredOnce(t), NEW size \in Nat \ {0}, Cardinality(Occupied(t)) < size,
         NEW cloning \in BOOLEAN, NEW g, Rounds(t, cloning, AllocNodes(size), t.numofnodes, g)
  PROVE  /\ Good(g[t.numofnodes]) /\ g[t.numofnodes].numofnodes = size
         /\ \A x, y : Holds(g[t.numofnodes], x, y) <=> Holds(t, x, y)
<1> DEFINE N == t.numofnodes
           T == {i \in 0 .. N : ~Filled(t, g[i], i, size)}
<1>1. N \in Nat /\ Nodes(t) = 0 .. N - 1
  BY DEF TableType, Nodes
<1>2. ASSUME T # {} PROVE FALSE
  <2>1. PICK i \in T : \A y \in T : i <= y
    <3>1. T \subseteq Nat
      BY <1>1
    <3> HIDE DEF T
    <3> QED BY <1>2, <3>1, LeastElement
  <2>2. i # 0
    <3>1. g[0] = AllocNodes(size)
      BY DEF Rounds
    <3>2. Filled(t, g[0], 0, size)
      BY <3>1, FillStart
    <3> QED BY <3>2
  <2>3. i \in 1 .. N /\ i - 1 \in Nodes(t) /\ i - 1 \in 0 .. N /\ ~ (i <= i - 1) /\ (i - 1) + 1 = i
    BY <1>1, <2>2
  <2>4. Filled(t, g[i - 1], i - 1, size)
    BY <2>1, <2>3
  <2>5. g[i] = Round(t, cloning, g[i - 1], i - 1)
    BY <2>3 DEF Rounds
  <2> DEFINE m == i - 1
  <2>6. Filled(t, Round(t, cloning, g[m], m), m + 1, size)
    <3>1. m \in Nodes(t) /\ Filled(t, g[m], m, size)
      BY <2>3, <2>4
    <3> HIDE DEF m
    <3> QED BY <3>1, RoundFills
  <2> QED BY <2>3, <2>5, <2>6
<1>3. Filled(t, g[N], N, size)
  BY <1>1, <1>2
<1> QED BY <1>3, FillEnd

----------------------------------------------------------------------------
(* Sizes.                                                                  *)

\* The smallest size, and the double of any size.
LEMMA SizeDoubles ==
  SizeOK(MinPower2) /\ \A n : SizeOK(n) => SizeOK(2 * n)
BY MinPower2Assumption DEF SizeOK, Closed

\* No size is below the smallest, and any other one is the double of a size.
LEMMA SizeHalves ==
  ASSUME NEW n, SizeOK(n)
  PROVE  n \in Nat /\ n >= MinPower2 /\ (n # MinPower2 => \E m \in Nat : SizeOK(m) /\ n = 2 * m)
<1> DEFINE U == {m \in Nat : m >= MinPower2}
           W == {m \in Nat : SizeOK(m)}
           S == {m \in Nat : m = MinPower2 \/ \E w \in W : m = 2 * w}
<1>1. n \in U
  <2>1. Closed(U) /\ U \in SUBSET Nat
    BY MinPower2Assumption DEF Closed
  <2> HIDE DEF U
  <2> QED BY <2>1 DEF SizeOK
<1>2. \A m \in S : m \in W
  BY SizeDoubles, MinPower2Assumption
<1>3. Closed(S) /\ S \in SUBSET Nat
  <2>1. MinPower2 \in S
    BY MinPower2Assumption
  <2>2. \A m \in S : 2 * m \in S
    <3> HIDE DEF W
    <3> QED BY <1>2
  <2>3. S \in SUBSET Nat
    OBVIOUS
  <2> HIDE DEF S
  <2> QED BY <2>1, <2>2, <2>3 DEF Closed
<1>4. n \in S
  <2> HIDE DEF S
  <2> QED BY <1>3 DEF SizeOK
<1> QED BY <1>1, <1>4

\* The size that Rehash chooses is one of the sizes, and has room for all keys.
LEMMA RehashSizeFits ==
  ASSUME NEW t, TableType(t), SizeOK(t.numofnodes), NEW force \in BOOLEAN,
         Cardinality(Occupied(t)) \in {t.usednodes, t.usednodes + 1},
         RehashSize(t, force) # 0
  PROVE  /\ RehashSize(t, force) \in Nat \ {0} /\ SizeOK(RehashSize(t, force))
         /\ Cardinality(Occupied(t)) < RehashSize(t, force)
<1> DEFINE N == t.numofnodes
           U == t.usednodes
           C == Cardinality(Occupied(t))
           size == RehashSize(t, force)
<1>1. N \in Nat /\ U \in Nat /\ C \in Nat /\ C <= N
  <2>1. Occupied(t) \in SUBSET Nodes(t)
    BY DEF Occupied
  <2> QED BY <2>1, OccupiedFinite, FS_Subset DEF TableType
<1>2. N >= 4 /\ N >= MinPower2 /\ MinPower2 \in Nat
  BY <1>1, SizeHalves, MinPower2Assumption
<1>3. C <= U + 1
  BY <1>1
<1>4. size = CASE U >= N - N \div 4 -> N * 2
               [] U =< N \div 4 /\ N > MinPower2 -> N \div 2
               [] OTHER -> IF force THEN N ELSE 0
  BY DEF RehashSize
<1>5. CASE U >= N - N \div 4
  <2>1. size = 2 * N
    <3>1. ~ (U =< N \div 4)
      BY <1>1, <1>2, <1>5
    <3> HIDE DEF size, N, U
    <3> QED BY <1>1, <1>4, <1>5, <3>1
  <2> HIDE DEF N, U, C, size
  <2>2. size \in Nat \ {0} /\ C < size
    BY <1>1, <1>2, <2>1
  <2>3. SizeOK(size)
    BY <2>1, SizeDoubles DEF N
  <2> QED BY <2>2, <2>3 DEF C, size
<1>6. CASE ~(U >= N - N \div 4) /\ U =< N \div 4 /\ N > MinPower2
  <2>1. size = N \div 2
    <3> HIDE DEF size, N, U
    <3> QED BY <1>4, <1>6
  <2>2. PICK m \in Nat : SizeOK(m) /\ N = 2 * m
    BY <1>2, <1>6, SizeHalves
  <2>3. m >= 4
    BY <2>2, SizeHalves, MinPower2Assumption
  <2> HIDE DEF N, U, C, size
  <2>4. size = m
    BY <2>1, <2>2
  <2>5. C < m
    BY <1>1, <1>3, <1>6, <2>2, <2>3
  <2> QED BY <2>2, <2>3, <2>4, <2>5 DEF C, size
<1>7. CASE ~(U >= N - N \div 4) /\ ~(U =< N \div 4 /\ N > MinPower2)
  <2>1. size = IF force THEN N ELSE 0
    <3> HIDE DEF size, N, U
    <3> QED BY <1>4, <1>7
  <2>2. size = N
    BY <2>1
  <2> HIDE DEF N, U, C, size
  <2>3. C < N
    BY <1>1, <1>2, <1>3, <1>7
  <2> QED BY <1>1, <1>2, <2>2, <2>3 DEF C, size, N
<1> QED BY <1>5, <1>6, <1>7

----------------------------------------------------------------------------
(* The operations.                                                         *)

\* The table s maps as t does, but k to v; or all of it as t does.
PutIn(t, s, k, v) == \A x, y : Holds(s, x, y) <=> IF x = k THEN y = v ELSE Holds(t, x, y)
SameMap(t, s) == \A x, y : Holds(s, x, y) <=> Holds(t, x, y)

\* A good table of one of the sizes.
Sound(t) == Good(t) /\ SizeOK(t.numofnodes)

\* What Rehash may be called for.
Rehashable(t) ==
  /\ TableType(t) /\ StoredOnce(t) /\ SizeOK(t.numofnodes)
  /\ Cardinality(Occupied(t)) \in {t.usednodes, t.usednodes + 1}

\* Rehash keeps what the table maps.
LEMMA RehashSound ==
  ASSUME NEW t, Rehashable(t), NEW force \in BOOLEAN
  PROVE  /\ RehashSize(t, force) = 0 => Rehash(t, force) = t
         /\ RehashSize(t, force) # 0 => /\ Sound(Rehash(t, force)) /\ SameMap(t, Rehash(t, force))
                                        /\ Rehash(t, force).numofnodes = RehashSize(t, force)
<1>1. RehashSize(t, force) = 0 => Rehash(t, force) = t
  BY DEF Rehash
<1>2. ASSUME RehashSize(t, force) # 0
      PROVE  /\ Sound(Rehash(t, force)) /\ SameMap(t, Rehash(t, force))
             /\ Rehash(t, force).numofnodes = RehashSize(t, force)
  <2> DEFINE size == RehashSize(t, force)
  <2>1. PICK g : /\ Rounds(t, FALSE, AllocNodes(size), t.numofnodes, g)
                 /\ Rehash(t, force) = g[t.numofnodes]
    BY <1>2, RehashRuns DEF Rehashable
  <2>2. size \in Nat \ {0} /\ SizeOK(size) /\ Cardinality(Occupied(t)) < size
    BY <1>2, RehashSizeFits DEF Rehashable
  <2> HIDE DEF size
  <2>3. PICK c \in BOOLEAN : c = FALSE
    OBVIOUS
  <2>4. Rounds(t, c, AllocNodes(size), t.numofnodes, g)
    BY <2>1, <2>3
  <2>5. /\ Good(g[t.numofnodes]) /\ g[t.numofnodes].numofnodes = size
        /\ \A x, y : Holds(g[t.numofnodes], x, y) <=> Holds(t, x, y)
    BY <2>2, <2>4, RoundsFill DEF Rehashable
  <2> QED BY <2>1, <2>2, <2>5 DEF Sound, SameMap, size
<1> QED BY <1>1, <1>2

\* A forced Rehash always makes a new array.
LEMMA RehashForced ==
  ASSUME NEW t, SizeOK(t.numofnodes), NEW force \in BOOLEAN, force = TRUE, t.usednodes \in Nat
  PROVE  RehashSize(t, force) # 0
<1> DEFINE N == t.numofnodes
           U == t.usednodes
<1>1. N \in Nat /\ N >= 4 /\ MinPower2 \in Nat /\ MinPower2 >= 4
  BY SizeHalves, MinPower2Assumption
<1>2. RehashSize(t, force) = CASE U >= N - N \div 4 -> N * 2
                               [] U =< N \div 4 /\ N > MinPower2 -> N \div 2
                               [] OTHER -> N
  BY DEF RehashSize
<1>3. ~ (U >= N - N \div 4 /\ U =< N \div 4)
  BY <1>1
<1>4. N * 2 # 0 /\ N \div 2 # 0 /\ N # 0
  BY <1>1
<1> HIDE DEF N, U
<1> QED BY <1>2, <1>3, <1>4

\* NewSlot puts the key in and says whether it is new.
LEMMA NewSlotSound ==
  ASSUME NEW t, Sound(t), NEW k \in Keys, NEW v \in Vals \cup {Null}
  PROVE  LET r == NewSlotResult(t, k, v)
         IN  /\ Sound(r.tab) /\ PutIn(t, r.tab, k, v) /\ r.ret \in BOOLEAN
             /\ Has(t, k) => r.tab.key = t.key /\ r.tab.numofnodes = t.numofnodes
<1> DEFINE r == NewSlotOnce(t, k, v)
           u == Rehash(r.tab, TRUE)
<1>1. CASE Has(t, k)
  <2>1. ~r.full /\ r.ret = FALSE /\ Good(r.tab) /\ Updated(t, r.tab, k, v) /\ r.tab.key = t.key
    BY <1>1, SlotOverwritten DEF Sound
  <2>2. NewSlotResult(t, k, v) = r
    BY <2>1 DEF NewSlotResult
  <2> HIDE DEF r
  <2> QED BY <1>1, <2>1, <2>2 DEF Sound, Updated, PutIn
<1>2. CASE ~Has(t, k) /\ ~r.full
  <2>1. r.ret = TRUE /\ Good(r.tab) /\ Updated(t, r.tab, k, v)
    BY <1>2, SlotAdded DEF Sound
  <2>2. NewSlotResult(t, k, v) = r
    BY <1>2 DEF NewSlotResult
  <2> HIDE DEF r
  <2> QED BY <1>2, <2>1, <2>2 DEF Sound, Updated, PutIn
<1>3. CASE ~Has(t, k) /\ r.full
  <2>1. /\ Overfull(r.tab, k) /\ r.tab.numofnodes = t.numofnodes
        /\ \A x, y : x # k => (Holds(r.tab, x, y) <=> Holds(t, x, y))
    BY <1>3, SlotAdded DEF Sound
  <2>2. NewSlotResult(t, k, v) = NewSlotOnce(u, k, v)
    BY <1>3 DEF NewSlotResult
  <2>3. Rehashable(r.tab) /\ r.tab.usednodes \in Nat
    BY <2>1 DEF Overfull, Rehashable, Sound, TableType
  <2>4. Sound(u) /\ SameMap(r.tab, u)
    <3> DEFINE s == r.tab
    <3>1. PICK force \in BOOLEAN : force = TRUE
      OBVIOUS
    <3>2. RehashSize(s, force) # 0
      BY <2>3, <3>1, RehashForced DEF Rehashable
    <3>3. Rehashable(s)
      BY <2>3
    <3> HIDE DEF s
    <3>4. Sound(Rehash(s, force)) /\ SameMap(s, Rehash(s, force))
      BY <3>2, <3>3, RehashSound
    <3> QED BY <3>1, <3>4 DEF s
  <2> HIDE DEF r, u
  <2>5. Has(u, k)
    <3>1. PICK n \in Occupied(r.tab) : r.tab.key[n] = k
      BY <2>1 DEF Overfull, Has
    <3>2. Holds(r.tab, k, r.tab.val[n])
      BY <3>1 DEF Holds
    <3>3. Holds(u, k, r.tab.val[n])
      BY <2>4, <3>2 DEF SameMap
    <3> QED BY <3>3 DEF Holds, Has
  <2> DEFINE w == NewSlotOnce(u, k, v)
  <2>6. w.ret = FALSE /\ Good(w.tab) /\ Updated(u, w.tab, k, v)
    BY <2>4, <2>5, SlotOverwritten DEF Sound
  <2> HIDE DEF w
  <2>7. \A x, y : Holds(w.tab, x, y) <=> IF x = k THEN y = v ELSE Holds(t, x, y)
    BY <2>1, <2>4, <2>6 DEF Updated, SameMap
  <2> QED BY <1>3, <2>2, <2>4, <2>6, <2>7 DEF Sound, Updated, PutIn, w
<1> QED BY <1>1, <1>2, <1>3

\* Overwriting the node that the search for a key has found, or for null.
LEMMA SetSound ==
  ASSUME NEW t, Sound(t), NEW k \in Keys \cup {Null}, NEW v \in Vals \cup {Null}, GetNode(t, k) # NoNode
  PROVE  LET s == [t EXCEPT !.val[GetNode(t, k)] = v]
         IN  /\ Sound(s) /\ IF k = Null THEN SameMap(t, s) ELSE Has(t, k) /\ PutIn(t, s, k, v)
             /\ s.key = t.key /\ s.numofnodes = t.numofnodes
<1> DEFINE n == GetNode(t, k)
           s == [t EXCEPT !.val[n] = v]
<1>1. n \in Nodes(t) /\ t.key[n] = k
  BY FoundHolds DEF Sound, Good, Chained
<1>2. /\ Good(s) /\ s.numofnodes = t.numofnodes /\ s.key = t.key /\ Occupied(s) = Occupied(t)
      /\ s.val = [t.val EXCEPT ![n] = v]
  <2> HIDE DEF n
  <2> QED BY <1>1, OverwriteGood DEF Sound
<1>3. \A x \in Occupied(t) : s.val[x] = IF x = n THEN v ELSE t.val[x]
  BY <1>2 DEF Sound, Good, TableType, Occupied
<1> HIDE DEF n, s
<1>4. Sound(s)
  BY <1>2 DEF Sound
<1>5. CASE k = Null
  <2>1. n \notin Occupied(t)
    BY <1>1, <1>5 DEF Occupied
  <2>2. SameMap(t, s)
    BY <1>2, <1>3, <2>1 DEF SameMap, Holds
  <2> QED BY <1>2, <1>4, <1>5, <2>2 DEF s, n
<1>6. CASE k # Null
  <2>1. n \in Occupied(t)
    BY <1>1, <1>6 DEF Occupied
  <2>2. \A x \in Occupied(t) : t.key[x] = k => x = n
    BY <1>1, <2>1 DEF Sound, Good, Chained, StoredOnce
  <2>3. PutIn(t, s, k, v) /\ Has(t, k)
    BY <1>1, <1>2, <1>3, <2>1, <2>2 DEF PutIn, Holds, Has
  <2> QED BY <1>2, <1>4, <1>6, <2>3 DEF s, n
<1> QED BY <1>5, <1>6

\* The table s maps as t does, but nothing to k.
TakenFrom(t, s, k) == \A x, y : Holds(s, x, y) <=> x # k /\ Holds(t, x, y)

\* The keys that s has are at the nodes where t has them.
InPlace(t, s) ==
  /\ s.numofnodes = t.numofnodes
  /\ \A n \in Occupied(s) : n \in Occupied(t) /\ s.key[n] = t.key[n]

\* Remove takes a key out; its node keeps its link.
LEMMA RemoveSound ==
  ASSUME NEW t, Sound(t), NEW k \in Keys, GetNode(t, k) # NoNode
  PROVE  LET s == Rehash([t EXCEPT !.key[GetNode(t, k)] = Null,
                                   !.val[GetNode(t, k)] = Null,
                                   !.usednodes = @ - 1], FALSE)
         IN  /\ Sound(s) /\ TakenFrom(t, s, k) /\ Has(t, k)
             /\ s.numofnodes = t.numofnodes => InPlace(t, s)
<1> DEFINE n == GetNode(t, k)
           K == [t.key EXCEPT ![n] = Null]
           V == [t.val EXCEPT ![n] = Null]
           s == [t EXCEPT !.key[n] = Null, !.val[n] = Null, !.usednodes = @ - 1]
<1>1. n \in Occupied(t) /\ t.key[n] = k /\ Has(t, k) /\ TableType(t)
  BY FoundIffStored DEF Sound, Good, Chained, Has
<1> HIDE DEF n
<1>2. /\ IsFiniteSet(Occupied(t)) /\ t.usednodes = Cardinality(Occupied(t))
      /\ Cardinality(Occupied(t) \ {n}) = t.usednodes - 1 /\ t.usednodes - 1 \in Nat
  <2>1. IsFiniteSet(Occupied(t)) /\ t.usednodes = Cardinality(Occupied(t)) /\ t.usednodes \in Nat
    BY <1>1, OccupiedFinite DEF Sound, Good, Counted, TableType
  <2>2. IsFiniteSet(Occupied(t) \ {n}) /\ Cardinality(Occupied(t) \ {n}) = t.usednodes - 1
    BY <1>1, <2>1, FS_RemoveElement
  <2>3. Cardinality(Occupied(t) \ {n}) \in Nat
    BY <2>2, FS_CardinalityType
  <2> QED BY <2>1, <2>2, <2>3
<1>3. s = [numofnodes |-> t.numofnodes, usednodes |-> t.usednodes - 1, firstfree |-> t.firstfree,
           key |-> K, val |-> V, next |-> t.next, spilled |-> t.spilled]
  <2> DEFINE a == [t EXCEPT !.key[n] = Null]
             b == [a EXCEPT !.val[n] = Null]
  <2>1. a = [numofnodes |-> t.numofnodes, usednodes |-> t.usednodes, firstfree |-> t.firstfree,
             key |-> K, val |-> t.val, next |-> t.next, spilled |-> t.spilled]
    BY <1>1 DEF TableType
  <2>2. b = [numofnodes |-> t.numofnodes, usednodes |-> t.usednodes, firstfree |-> t.firstfree,
             key |-> K, val |-> V, next |-> t.next, spilled |-> t.spilled]
    <3> HIDE DEF a, K
    <3> QED BY <2>1
  <2>3. s = [b EXCEPT !.usednodes = @ - 1]
    OBVIOUS
  <2> HIDE DEF a, b, s, K, V
  <2> QED BY <2>2, <2>3
<1>4. /\ s.numofnodes = t.numofnodes /\ s.usednodes = t.usednodes - 1 /\ s.firstfree = t.firstfree
      /\ s.key = K /\ s.val = V /\ s.next = t.next /\ s.spilled = t.spilled
  BY <1>3
<1>5. TableType(s)
  BY <1>1, <1>2, <1>3 DEF TableType, Nodes
<1> HIDE DEF s
<1>6. Nodes(s) = Nodes(t) /\ \A x : MainPos(s, x) = MainPos(t, x)
  BY <1>4, SameMainPos
<1>7. n \in Nodes(t) /\ \A x \in Nodes(t) : /\ s.key[x] = IF x = n THEN Null ELSE t.key[x]
                                            /\ x # n => s.val[x] = t.val[x]
  BY <1>1, <1>4 DEF TableType, Occupied
<1>8. Occupied(s) = Occupied(t) \ {n}
  <2> HIDE DEF K, V
  <2> QED BY <1>6, <1>7 DEF Occupied
<1>9. \A x \in Occupied(s) : x \in Occupied(t) /\ x \in Nodes(t) /\ s.key[x] = t.key[x] /\ s.val[x] = t.val[x]
  BY <1>7, <1>8 DEF Occupied
<1> HIDE DEF K, V
<1>10. Chained(s)
  <2>1. LinkedOnce(s) /\ ChainsEnd(s)
    BY <1>4, <1>6 DEF Sound, Good, Chained, LinkedOnce, ChainsEnd
  <2>2. StoredOnce(s) /\ GuestsAlone(s)
    BY <1>6, <1>9 DEF Sound, Good, Chained, StoredOnce, GuestsAlone
  <2>3. Reachable(s)
    BY <1>4, <1>6, <1>9 DEF Sound, Good, Chained, Reachable, Leads, ClosedUnderNext
  <2> QED BY <2>1, <2>2, <2>3 DEF Chained
<1>11. Counted(s)
  BY <1>2, <1>4, <1>8 DEF Counted
<1>12. FreeAt(s, s.firstfree) /\ OwnBelow(s, s.firstfree) /\ LinksAbove(s, s.firstfree)
  <2>1. t.firstfree \in Nodes(t)
    BY <1>1 DEF TableType
  <2> QED BY <1>4, <1>6, <1>7, <1>9, <2>1 DEF Sound, Good, FreeAt, OwnBelow, LinksAbove
<1>13. Sound(s)
  BY <1>4, <1>5, <1>10, <1>11, <1>12 DEF Sound, Good
<1>14. TakenFrom(t, s, k)
  <2>1. \A x \in Occupied(t) : t.key[x] = k => x = n
    BY <1>1 DEF Sound, Good, Chained, StoredOnce
  <2> QED BY <1>1, <1>8, <1>9, <2>1 DEF TakenFrom, Holds
<1>15. PICK force \in BOOLEAN : force = FALSE
  OBVIOUS
<1>16. Rehashable(s)
  BY <1>13 DEF Rehashable, Sound, Good, Chained, Counted
<1>17. Rehash(s, force) = s \/ (Sound(Rehash(s, force)) /\ SameMap(s, Rehash(s, force)))
  BY <1>16, RehashSound
<1>18. Sound(Rehash(s, force)) /\ TakenFrom(t, Rehash(s, force), k)
  BY <1>13, <1>14, <1>17 DEF TakenFrom, SameMap
<1>19. RehashSize(s, force) # 0 => Rehash(s, force).numofnodes # t.numofnodes
  <2>1. s.numofnodes \in Nat \ {0}
    BY <1>5 DEF TableType
  <2>2. RehashSize(s, force) # 0 => RehashSize(s, force) # s.numofnodes
    BY <1>15, <2>1 DEF RehashSize
  <2> QED BY <1>4, <1>16, <2>2, RehashSound
<1>20. Rehash(s, force).numofnodes = t.numofnodes => InPlace(t, Rehash(s, force))
  BY <1>4, <1>9, <1>16, <1>19, RehashSound DEF InPlace
<1> QED BY <1>1, <1>15, <1>18, <1>20 DEF s, n

\* Clear leaves a table that maps nothing.
LEMMA ClearSound ==
  ASSUME NEW t, Sound(t)
  PROVE  LET s == Rehash([t EXCEPT !.key = [n \in Nodes(t) |-> Null],
                                   !.val = [n \in Nodes(t) |-> Null],
                                   !.usednodes = 0], TRUE)
         IN  Sound(s) /\ \A x, y : ~Holds(s, x, y)
<1> DEFINE E == [n \in Nodes(t) |-> Null]
           s == [t EXCEPT !.key = E, !.val = E, !.usednodes = 0]
<1>1. TableType(t) /\ t.numofnodes \in Nat \ {0} /\ SizeOK(t.numofnodes)
  BY DEF Sound, Good, TableType
<1>2. s = [numofnodes |-> t.numofnodes, usednodes |-> 0, firstfree |-> t.firstfree,
           key |-> E, val |-> E, next |-> t.next, spilled |-> t.spilled]
  <2> DEFINE a == [t EXCEPT !.key = E]
             b == [a EXCEPT !.val = E]
  <2> HIDE DEF E
  <2>1. a = [numofnodes |-> t.numofnodes, usednodes |-> t.usednodes, firstfree |-> t.firstfree,
             key |-> E, val |-> t.val, next |-> t.next, spilled |-> t.spilled]
    BY <1>1 DEF TableType
  <2>2. b = [numofnodes |-> t.numofnodes, usednodes |-> t.usednodes, firstfree |-> t.firstfree,
             key |-> E, val |-> E, next |-> t.next, spilled |-> t.spilled]
    <3> HIDE DEF a
    <3> QED BY <2>1
  <2>3. s = [b EXCEPT !.usednodes = 0]
    OBVIOUS
  <2> HIDE DEF a, b, s
  <2> QED BY <2>2, <2>3
<1>3. s.numofnodes = t.numofnodes /\ s.usednodes = 0 /\ s.key = E
  BY <1>2
<1>4. TableType(s)
  BY <1>1, <1>2 DEF TableType, Nodes
<1> HIDE DEF s
<1>5. Occupied(s) = {}
  BY <1>3 DEF Occupied, Nodes
<1>6. Rehashable(s)
  BY <1>1, <1>3, <1>4, <1>5, FS_EmptySet DEF Rehashable, StoredOnce
<1>7. PICK force \in BOOLEAN : force = TRUE
  OBVIOUS
<1>8. RehashSize(s, force) # 0
  <2>1. SizeOK(s.numofnodes) /\ s.usednodes \in Nat
    BY <1>1, <1>3
  <2> HIDE DEF E
  <2> QED BY <1>7, <2>1, RehashForced
<1>9. Sound(Rehash(s, force)) /\ SameMap(s, Rehash(s, force))
  BY <1>6, <1>8, RehashSound
<1>10. \A x, y : ~Holds(Rehash(s, force), x, y)
  BY <1>5, <1>9 DEF SameMap, Holds
<1> QED BY <1>7, <1>9, <1>10 DEF s

\* A clone maps as the original does.
LEMMA CloneSound ==
  ASSUME NEW t, Sound(t)
  PROVE  Sound(CloneOf(t)) /\ SameMap(t, CloneOf(t))
<1>1. TableType(t) /\ StoredOnce(t) /\ t.numofnodes \in Nat \ {0} /\ SizeOK(t.numofnodes)
  BY DEF Sound, Good, TableType, Chained
<1>2. Cardinality(Occupied(t)) < t.numofnodes
  <2>1. t.firstfree \in Nodes(t) /\ t.firstfree \notin Occupied(t)
    BY DEF Sound, Good, TableType, FreeAt, Occupied
  <2>2. Occupied(t) \in SUBSET Nodes(t) /\ Occupied(t) # Nodes(t)
    BY <2>1 DEF Occupied
  <2>3. /\ IsFiniteSet(Nodes(t)) /\ Cardinality(Nodes(t)) = t.numofnodes
        /\ Cardinality(Occupied(t)) \in Nat
    BY <1>1, OccupiedFinite
  <2>4. Cardinality(Occupied(t)) <= Cardinality(Nodes(t)) /\ Cardinality(Nodes(t)) # Cardinality(Occupied(t))
    BY <2>2, <2>3, FS_Subset
  <2> QED BY <1>1, <2>3, <2>4
<1>3. PICK g : /\ Rounds(t, TRUE, AllocNodes(t.numofnodes), t.numofnodes, g)
               /\ CloneOf(t) = g[t.numofnodes]
  BY <1>1, CloneRuns
<1>4. PICK c \in BOOLEAN : c = TRUE
  OBVIOUS
<1>5. PICK size \in Nat \ {0} : size = t.numofnodes
  BY <1>1
<1>6. Rounds(t, c, AllocNodes(size), t.numofnodes, g) /\ Cardinality(Occupied(t)) < size
  BY <1>2, <1>3, <1>4, <1>5
<1>7. /\ Good(g[t.numofnodes]) /\ g[t.numofnodes].numofnodes = size
      /\ \A x, y : Holds(g[t.numofnodes], x, y) <=> Holds(t, x, y)
  BY <1>1, <1>6, RoundsFill
<1> QED BY <1>1, <1>3, <1>5, <1>7 DEF Sound, SameMap

----------------------------------------------------------------------------
(* The specification.                                                      *)

\* Every operation keeps the invariant, and does to the map what SqMap allows.
Effect(t, s) ==
  \/ \E k \in Keys, v \in Vals : PutIn(t, s, k, v)
  \/ \E k \in Keys : Has(t, k) /\ TakenFrom(t, s, k)
  \/ \A x, y : ~Holds(s, x, y)
  \/ SameMap(t, s)

\* A step of the table.
LEMMA StepSound ==
  ASSUME IInv, [TNext]_tvars
  PROVE  IInv' /\ Effect(tbl, tbl')
<1>1. Sound(tbl)
  BY DEF IInv, Sound
<1>2. SUFFICES Sound(tbl') /\ Effect(tbl, tbl')
  BY DEF IInv, Sound
<1>3. \A v \in Vals : v \in Vals \cup {Null}
  OBVIOUS
<1>4. ASSUME NEW k \in Keys, NEW v \in Vals, NewSlot(k, v) PROVE Sound(tbl') /\ Effect(tbl, tbl')
  <2> DEFINE r == NewSlotResult(tbl, k, v)
  <2>1. tbl' = r.tab
    BY <1>4 DEF NewSlot
  <2>2. Sound(r.tab) /\ PutIn(tbl, r.tab, k, v)
    BY <1>1, <1>3, NewSlotSound
  <2> HIDE DEF r
  <2> QED BY <2>1, <2>2 DEF Effect
<1>5. ASSUME NEW k \in Keys \cup {Null}, NEW v \in Vals, Set(k, v) PROVE Sound(tbl') /\ Effect(tbl, tbl')
  <2>1. CASE tbl' = tbl
    BY <1>1, <2>1 DEF Effect, SameMap
  <2>2. CASE GetNode(tbl, k) # NoNode /\ tbl' = [tbl EXCEPT !.val[GetNode(tbl, k)] = v]
    <3> DEFINE s == [tbl EXCEPT !.val[GetNode(tbl, k)] = v]
    <3>1. Sound(s) /\ IF k = Null THEN SameMap(tbl, s) ELSE PutIn(tbl, s, k, v)
      BY <1>1, <1>3, <2>2, SetSound
    <3>2. tbl' = s
      BY <2>2
    <3> HIDE DEF s
    <3>3. k # Null => k \in Keys
      OBVIOUS
    <3> QED BY <3>1, <3>2, <3>3 DEF Effect
  <2> QED BY <1>5, <2>1, <2>2 DEF Set
<1>6. ASSUME NEW k \in Keys, Remove(k) PROVE Sound(tbl') /\ Effect(tbl, tbl')
  <2> DEFINE s == Rehash([tbl EXCEPT !.key[GetNode(tbl, k)] = Null,
                                     !.val[GetNode(tbl, k)] = Null,
                                     !.usednodes = @ - 1], FALSE)
  <2>1. tbl' = s /\ GetNode(tbl, k) # NoNode
    BY <1>6 DEF Remove
  <2>2. Sound(s) /\ TakenFrom(tbl, s, k) /\ Has(tbl, k)
    BY <1>1, <2>1, RemoveSound
  <2> HIDE DEF s
  <2> QED BY <2>1, <2>2 DEF Effect
<1>7. ASSUME Clear PROVE Sound(tbl') /\ Effect(tbl, tbl')
  <2> DEFINE s == Rehash([tbl EXCEPT !.key = [n \in Nodes(tbl) |-> Null],
                                     !.val = [n \in Nodes(tbl) |-> Null],
                                     !.usednodes = 0], TRUE)
  <2>1. tbl' = s
    BY <1>7 DEF Clear
  <2>2. Sound(s) /\ \A x, y : ~Holds(s, x, y)
    BY <1>1, ClearSound
  <2> HIDE DEF s
  <2> QED BY <2>1, <2>2 DEF Effect
<1>8. ASSUME Clone PROVE Sound(tbl') /\ Effect(tbl, tbl')
  BY <1>1, <1>8, CloneSound DEF Clone, Effect
<1>9. ASSUME UNCHANGED tvars PROVE Sound(tbl') /\ Effect(tbl, tbl')
  BY <1>1, <1>9 DEF tvars, Effect, SameMap
<1> QED BY <1>4, <1>5, <1>6, <1>7, <1>8, <1>9 DEF TNext

\* Tables are created with one of the sizes.
LEMMA InitSizesOK ==
  ASSUME NEW n \in InitSizes
  PROVE  SizeOK(n)
<1> DEFINE T == {x \in InitSizes : ~SizeOK(x)}
<1>1. SUFFICES ASSUME T # {} PROVE FALSE
  OBVIOUS
<1>2. PICK x \in T : \A y \in T : x <= y
  <2>1. T \subseteq Nat
    BY InitSizesAssumption
  <2> HIDE DEF T
  <2> QED BY <1>1, <2>1, LeastElement
<1>3. x # MinPower2 /\ x \in InitSizes
  BY SizeDoubles
<1>4. PICK m \in InitSizes : x = 2 * m
  BY <1>3, InitSizesAssumption
<1>5. m \in Nat \ {0} /\ ~ (x <= m)
  BY <1>4, InitSizesAssumption
<1>6. SizeOK(m)
  BY <1>2, <1>5
<1> QED BY <1>4, <1>6, SizeDoubles

\* The invariant holds at first.
LEMMA InitSound ==
  ASSUME TInit
  PROVE  IInv /\ \A x, y : ~Holds(tbl, x, y)
<1>1. PICK size \in InitSizes : tbl = AllocNodes(size)
  BY DEF TInit
<1> DEFINE u == AllocNodes(size)
<1>2. tbl = u /\ size \in Nat \ {0} /\ SizeOK(size)
  BY <1>1, InitSizesOK, InitSizesAssumption
<1>3. Good(u) /\ u.numofnodes = size /\ Occupied(u) = {}
  BY <1>2, AllocGood
<1> HIDE DEF u
<1> QED BY <1>2, <1>3 DEF IInv, Holds

\* The inductive invariant of the table: chains end, are linked once, lead from
\* the main position of every stored key to its node, and the free place is free.
THEOREM AlwaysIInv == TSpec => []IInv
<1>1. TInit => IInv
  BY InitSound
<1>2. IInv /\ [TNext]_tvars => IInv'
  BY StepSound
<1> QED BY <1>1, <1>2, PTL DEF TSpec

\* Every key that NewSlot has stored is found by _Get from its main position,
\* and _usednodes counts the stored keys.
THEOREM AlwaysEveryKeyFound == TSpec => []EveryKeyFound
<1>1. IInv => EveryKeyFound
  <2> SUFFICES ASSUME IInv PROVE EveryKeyFound
    OBVIOUS
  <2>1. TableType(tbl) /\ Chained(tbl) /\ tbl.usednodes = Cardinality(Occupied(tbl))
    BY DEF IInv, Good, Counted
  <2>2. \A m, n \in Nodes(tbl) : tbl.next[m] = tbl.next[n] /\ tbl.next[m] # NoNode => m = n
    BY <2>1 DEF Chained, LinkedOnce
  <2>3. ASSUME NEW n \in Nodes(tbl), tbl.key[n] # Null PROVE GetNode(tbl, tbl.key[n]) = n
    <3>1. n \in Occupied(tbl)
      BY <2>3 DEF Occupied
    <3> QED BY <2>1, <3>1, StoredFound DEF Chained
  <2>4. Cardinality(Stored) = Cardinality(Occupied(tbl))
    <3> DEFINE O == Occupied(tbl)
               f == [n \in O |-> tbl.key[n]]
    <3>1. Stored = {tbl.key[n] : n \in O}
      BY DEF Stored, Occupied
    <3>2. \A m, n \in O : tbl.key[m] = tbl.key[n] => m = n
      BY <2>1 DEF Chained, StoredOnce
    <3>3. IsFiniteSet(O)
      BY <2>1, OccupiedFinite DEF TableType
    <3> HIDE DEF O
    <3>4. f \in Bijection(O, Stored)
      BY <3>1, <3>2 DEF Bijection, Injection, Surjection, IsInjective
    <3> HIDE DEF f
    <3>5. ExistsBijection(O, Stored)
      BY <3>4 DEF ExistsBijection
    <3> QED BY <3>3, <3>5, FS_Bijection DEF O
  <2> QED BY <2>1, <2>2, <2>3, <2>4 DEF EveryKeyFound
<1> QED BY <1>1, AlwaysIInv, PTL

\* The NewSlot calls in the loop of Rehash find a free place, so Rehash and
\* NewSlot never call each other again.
THEOREM AlwaysRehashFits == TSpec => []RehashFits
<1>1. IInv => RehashFits
  BY DEF IInv, Good, RehashFits
<1> QED BY <1>1, AlwaysIInv, PTL

----------------------------------------------------------------------------
(* The table implements a map.                                             *)

MapOf(t) == [k \in {x \in Keys : GetNode(t, x) # NoNode} |-> t.val[GetNode(t, k)]]

\* What _Get reads is what the table maps.
LEMMA MapHolds ==
  ASSUME NEW t, Good(t)
  PROVE  /\ MapOf(t) = [k \in DOMAIN MapOf(t) |-> MapOf(t)[k]]
         /\ DOMAIN MapOf(t) \subseteq Keys
         /\ \A x : x \in DOMAIN MapOf(t) <=> Has(t, x)
         /\ \A x \in DOMAIN MapOf(t) : \A y : Holds(t, x, y) <=> y = MapOf(t)[x]
<1> DEFINE D == {x \in Keys : GetNode(t, x) # NoNode}
           f == [k \in D |-> t.val[GetNode(t, k)]]
<1>1. MapOf(t) = f /\ f = [k \in DOMAIN f |-> f[k]] /\ DOMAIN f = D
  BY DEF MapOf
<1>2. ASSUME NEW x \in Keys
      PROVE  /\ GetNode(t, x) # NoNode <=> Has(t, x)
             /\ GetNode(t, x) # NoNode => GetNode(t, x) \in Occupied(t) /\ t.key[GetNode(t, x)] = x
  BY FoundIffStored DEF Good, Chained, Has
<1>3. ASSUME NEW x, Has(t, x) PROVE x \in Keys
  BY <1>3 DEF Has, Occupied, Good, TableType
<1>4. \A x : x \in D <=> Has(t, x)
  BY <1>2, <1>3
<1>5. ASSUME NEW x \in D, NEW y PROVE Holds(t, x, y) <=> y = f[x]
  <2>1. GetNode(t, x) \in Occupied(t) /\ t.key[GetNode(t, x)] = x /\ f[x] = t.val[GetNode(t, x)]
    BY <1>2
  <2>2. \A n \in Occupied(t) : t.key[n] = x => n = GetNode(t, x)
    BY <2>1 DEF Good, Chained, StoredOnce
  <2> HIDE DEF f, D
  <2> QED BY <2>1, <2>2 DEF Holds
<1> HIDE DEF f
<1> QED BY <1>1, <1>4, <1>5

\* Two tables that hold the same have the same map.
LEMMA HoldsIsMap ==
  ASSUME NEW t, Good(t), NEW D, NEW f, f = [k \in D |-> f[k]],
         \A x, y : Holds(t, x, y) <=> x \in D /\ y = f[x]
  PROVE  MapOf(t) = f
<1> DEFINE m == MapOf(t)
<1>1. /\ m = [k \in DOMAIN m |-> m[k]] /\ \A x : x \in DOMAIN m <=> Has(t, x)
      /\ \A x \in DOMAIN m : \A y : Holds(t, x, y) <=> y = m[x]
  BY MapHolds
<1> HIDE DEF m
<1>2. ASSUME NEW x PROVE Has(t, x) <=> x \in D
  <2>1. Has(t, x) <=> \E y : Holds(t, x, y)
    BY ONLY DEF Has, Holds
  <2> QED BY <2>1
<1>3. DOMAIN m = D
  BY <1>1, <1>2
<1>4. \A x \in D : m[x] = f[x]
  BY <1>1, <1>3
<1> QED BY <1>1, <1>3, <1>4 DEF m

\* What a step does to the map.
LEMMA EffectOnMap ==
  ASSUME NEW t, NEW s, Good(t), Good(s), Effect(t, s)
  PROVE  MapOf(s) = MapOf(t) \/ MapOf(s) \in AsMap!Changes(MapOf(t))
<1> DEFINE m == MapOf(t)
           D == DOMAIN m
<1>1. /\ m = [k \in D |-> m[k]] /\ \A x : x \in D <=> Has(t, x)
      /\ \A x \in D : \A y : Holds(t, x, y) <=> y = m[x]
  BY MapHolds
<1> HIDE DEF m
<1>2. \A x, y : Holds(t, x, y) <=> x \in D /\ y = m[x]
  BY <1>1 DEF Has, Holds
<1>3. ASSUME NEW k \in Keys, NEW v \in Vals, PutIn(t, s, k, v) PROVE MapOf(s) \in AsMap!Changes(m)
  <2> DEFINE f == AsMap!Put(m, k, v)
             E == D \cup {k}
  <2>1. f = [x \in E |-> IF x = k THEN v ELSE m[x]]
    BY DEF AsMap!Put
  <2>2. f \in AsMap!Changes(m)
    BY DEF AsMap!Changes
  <2> HIDE DEF f
  <2>3. f = [x \in E |-> f[x]] /\ \A x \in E : f[x] = IF x = k THEN v ELSE m[x]
    BY <2>1
  <2>4. \A x, y : Holds(s, x, y) <=> x \in E /\ y = f[x]
    <3>1. \A x : x \in E <=> x \in D \/ x = k
      OBVIOUS
    <3> HIDE DEF E
    <3> QED BY <1>2, <1>3, <2>3, <3>1 DEF PutIn
  <2>5. MapOf(s) = f
    <3> HIDE DEF E
    <3> QED BY <2>3, <2>4, HoldsIsMap
  <2> QED BY <2>2, <2>5
<1>4. ASSUME NEW k \in Keys, Has(t, k), TakenFrom(t, s, k) PROVE MapOf(s) \in AsMap!Changes(m)
  <2> DEFINE f == AsMap!Without(m, k)
             E == D \ {k}
  <2>1. f = [x \in E |-> m[x]]
    BY DEF AsMap!Without
  <2>2. f \in AsMap!Changes(m)
    BY <1>1, <1>4 DEF AsMap!Changes
  <2> HIDE DEF f
  <2>3. f = [x \in E |-> f[x]] /\ \A x \in E : f[x] = m[x]
    BY <2>1
  <2>4. \A x, y : Holds(s, x, y) <=> x \in E /\ y = f[x]
    <3>1. \A x : x \in E <=> x \in D /\ x # k
      OBVIOUS
    <3> HIDE DEF E
    <3> QED BY <1>2, <1>4, <2>3, <3>1 DEF TakenFrom
  <2>5. MapOf(s) = f
    <3> HIDE DEF E
    <3> QED BY <2>3, <2>4, HoldsIsMap
  <2> QED BY <2>2, <2>5
<1>5. ASSUME \A x, y : ~Holds(s, x, y) PROVE MapOf(s) \in AsMap!Changes(m)
  <2> DEFINE f == AsMap!Empty
             E == {}
  <2>1. f = [x \in E |-> f[x]] /\ f \in AsMap!Changes(m)
    BY DEF AsMap!Empty, AsMap!Changes
  <2> HIDE DEF f
  <2>2. \A x, y : Holds(s, x, y) <=> x \in E /\ y = f[x]
    BY <1>5
  <2>3. MapOf(s) = f
    <3> HIDE DEF E
    <3> QED BY <2>1, <2>2, HoldsIsMap
  <2> QED BY <2>1, <2>3
<1>6. ASSUME SameMap(t, s) PROVE MapOf(s) = m
  BY <1>1, <1>2, <1>6, HoldsIsMap DEF SameMap
<1>7. MapOf(s) = m \/ MapOf(s) \in AsMap!Changes(m)
  BY <1>3, <1>4, <1>5, <1>6 DEF Effect
<1> QED BY <1>7 DEF m

\* Read through _Get, the hash table is a map that changes by one slot at a
\* time, is emptied, or, when the array is reallocated or the table cloned,
\* stays as it is.
THEOREM TableImplementsMap == TSpec => ImplementsMap
<1>1. TInit => AsMap!MInit
  <2> SUFFICES ASSUME TInit PROVE AsMap!MInit
    OBVIOUS
  <2> DEFINE f == AsMap!Empty
             E == {}
  <2>1. f = [x \in E |-> f[x]]
    BY DEF AsMap!Empty
  <2>2. Good(tbl) /\ \A x, y : ~Holds(tbl, x, y)
    BY InitSound DEF IInv
  <2>3. MapOf(tbl) = f
    <3> HIDE DEF f, E
    <3>1. \A x : x \notin E
      BY DEF E
    <3> QED BY <2>1, <2>2, <3>1, HoldsIsMap
  <2> QED BY <2>3 DEF AsMap!MInit, Map, MapOf
<1>2. IInv /\ [TNext]_tvars => [AsMap!MNext]_Map
  <2> SUFFICES ASSUME IInv, [TNext]_tvars PROVE [AsMap!MNext]_Map
    OBVIOUS
  <2>1. IInv' /\ Effect(tbl, tbl')
    BY StepSound
  <2>2. Good(tbl) /\ Good(tbl')
    BY <2>1 DEF IInv
  <2>3. MapOf(tbl') = MapOf(tbl) \/ MapOf(tbl') \in AsMap!Changes(MapOf(tbl))
    BY <2>1, <2>2, EffectOnMap
  <2>4. Map = MapOf(tbl) /\ Map' = MapOf(tbl')
    BY DEF Map, MapOf
  <2> QED BY <2>3, <2>4 DEF AsMap!MNext
<1> QED BY <1>1, <1>2, AlwaysIInv, PTL DEF TSpec, ImplementsMap, AsMap!MSpec
=============================================================================
