--------------------------- MODULE ObjectsProofs ----------------------------
(***************************************************************************)
(* Theorems about Objects, for all starting heaps, keys and outcomes:      *)
(* delegates never form a cycle, instances stay laid out as their classes, *)
(* member handles stay good, calls leave the stack and the error as they   *)
(* should, and what is assigned is read back.                              *)
(***************************************************************************)
EXTENDS Objects, WellFoundedInduction, TLAPS

----------------------------------------------------------------------------
(* Sequences of anything.                                                  *)

\* A sequence is one over its own elements, and of whatever holds those.
LEMMA SeqOver ==
  ASSUME NEW s, IsSeq(s), NEW v
  PROVE  \E S : s \in Seq(S) /\ v \in S
<1> DEFINE S == {s[i] : i \in 1..Len(s)} \cup {v}
<1>1. s \in [1..Len(s) -> S]
  BY DEF IsSeq
<1>2. s \in Seq(S)
  <2> HIDE DEF S
  <2> QED BY <1>1 DEF IsSeq
<1> QED BY <1>2

LEMMA SeqIs ==
  ASSUME NEW S, NEW s \in Seq(S)
  PROVE  IsSeq(s)
BY DEF IsSeq

LEMMA SeqDomain ==
  ASSUME NEW s, IsSeq(s)
  PROVE  DOMAIN s = 1..Len(s) /\ Len(s) \in Nat
BY DEF IsSeq

LEMMA AppendSeq ==
  ASSUME NEW s, IsSeq(s), NEW v
  PROVE  /\ IsSeq(Append(s, v)) /\ Len(Append(s, v)) = Len(s) + 1
         /\ \A i \in 1..Len(s) : Append(s, v)[i] = s[i]
         /\ Append(s, v)[Len(s) + 1] = v
<1>1. PICK S : s \in Seq(S) /\ v \in S
  BY SeqOver
<1>2. Append(s, v) \in Seq(S)
  BY <1>1
<1>3. IsSeq(Append(s, v))
  BY <1>2, SeqIs
<1>4. Len(Append(s, v)) = Len(s) + 1 /\ Append(s, v)[Len(s) + 1] = v
  BY <1>1
<1>5. \A i \in 1..Len(s) : Append(s, v)[i] = s[i]
  BY <1>1
<1> QED BY <1>3, <1>4, <1>5

LEMMA PopSeq ==
  ASSUME NEW s, IsSeq(s), NEW n \in 0..Len(s)
  PROVE  IsSeq(SubSeq(s, 1, Len(s) - n)) /\ Len(SubSeq(s, 1, Len(s) - n)) = Len(s) - n
<1>1. PICK S : s \in Seq(S)
  BY SeqOver
<1>2. SubSeq(s, 1, Len(s) - n) \in Seq(S)
  BY <1>1
<1>3. IsSeq(SubSeq(s, 1, Len(s) - n))
  BY <1>2, SeqIs
<1>4. Len(s) \in Nat /\ Len(s) - n \in 0..Len(s)
  BY <1>1
<1>5. Len(SubSeq(s, 1, Len(s) - n)) = Len(s) - n
  BY <1>1, <1>4
<1> QED BY <1>3, <1>5

LEMMA ConcatSeq ==
  ASSUME NEW s, IsSeq(s), NEW t, IsSeq(t)
  PROVE  IsSeq(s \o t) /\ Len(s \o t) = Len(s) + Len(t)
<1>1. PICK S : s \in Seq(S)
  BY SeqOver
<1>2. PICK T : t \in Seq(T)
  BY SeqOver
<1>3. s \in Seq(S \cup T) /\ t \in Seq(S \cup T)
  BY <1>1, <1>2
<1>4. s \o t \in Seq(S \cup T) /\ Len(s \o t) = Len(s) + Len(t)
  BY <1>3
<1> QED BY <1>4, SeqIs

LEMMA ExceptSeq ==
  ASSUME NEW s, IsSeq(s), NEW i, NEW v
  PROVE  /\ IsSeq([s EXCEPT ![i] = v]) /\ Len([s EXCEPT ![i] = v]) = Len(s)
         /\ i \in 1..Len(s) => [s EXCEPT ![i] = v][i] = v
         /\ \A j \in 1..Len(s) : j # i => [s EXCEPT ![i] = v][j] = s[j]
<1>1. PICK S : s \in Seq(S) /\ v \in S
  BY SeqOver
<1> DEFINE n == Len(s)
           t == [s EXCEPT ![i] = v]
<1>2. n \in Nat /\ s \in [1..n -> S]
  BY <1>1
<1>3. t \in [1..n -> S]
  BY <1>1, <1>2
<1>4. (i \in 1..n => t[i] = v) /\ \A j \in 1..n : j # i => t[j] = s[j]
  BY <1>2
<1>5. t \in Seq(S) /\ Len(t) = n
  <2> HIDE DEF t, n
  <2> QED BY <1>2, <1>3
<1>6. IsSeq(t)
  <2> HIDE DEF t
  <2> QED BY <1>5, SeqIs
<1> QED BY <1>4, <1>5, <1>6

\* The same, for an element that there is.
Assigned(s, i, v) == [s EXCEPT ![i] = v]

LEMMA ExceptAt ==
  ASSUME NEW s, IsSeq(s), NEW i \in 1..Len(s), NEW v
  PROVE  /\ IsSeq(Assigned(s, i, v)) /\ Len(Assigned(s, i, v)) = Len(s) /\ Assigned(s, i, v)[i] = v
         /\ \A j \in 1..Len(s) : j # i => Assigned(s, i, v)[j] = s[j]
BY ExceptSeq DEF Assigned

----------------------------------------------------------------------------
(* Functions defined by following links.                                   *)

\* Links lead from elements of D to elements of D or out of it, and come to an end.
Ends(D, next) == \A S \in SUBSET D : S # {} => \E n \in S : next[n] \notin S

\* What the recursions of the model do at n with what they gave for the next: Get, Set, and
\* the sets of those that follow.
Via(q, n, v) ==
  CASE q.op = "get" -> GetFrom(q.x, Ref("table", n), q.key, FALSE, FALSE, v)
    [] q.op = "set" -> SetFrom(q.x, Ref("table", n), q.key, q.val, FALSE, v)
    [] OTHER -> {n} \cup (IF q.next[n] = 0 THEN {} ELSE v)

Solves(q, D, next, C, f) ==
  /\ C \in SUBSET D
  /\ \A n \in C : (next[n] \in D => next[n] \in C) /\ f[n] = Via(q, n, f[next[n]])

\* What lies outside D does not matter.
Closed(q, D, next) == \A n \in D : next[n] \notin D => \A v, w : Via(q, n, v) = Via(q, n, w)

\* Such a recursion has a solution.
LEMMA Recursion ==
  ASSUME NEW q, NEW D, NEW next, Ends(D, next), Closed(q, D, next)
  PROVE  \E f : f = [n \in D |-> Via(q, n, f[next[n]])]
<1> DEFINE Known == UNION {C \in SUBSET D : \E f : Solves(q, D, next, C, f)}
           Value(n) == CHOOSE v : \E C, f : Solves(q, D, next, C, f) /\ n \in C /\ v = f[n]
           g == [n \in Known |-> Value(n)]
<1>1. ASSUME NEW B, NEW C, NEW e, NEW f, Solves(q, D, next, B, e), Solves(q, D, next, C, f), NEW n \in B \cap C
      PROVE  e[n] = f[n]
  <2> DEFINE T == {x \in B \cap C : e[x] # f[x]}
  <2>1. SUFFICES ASSUME T # {} PROVE FALSE
    OBVIOUS
  <2>2. PICK x \in T : next[x] \notin T
    <3>1. T \in SUBSET D
      BY <1>1 DEF Solves
    <3> HIDE DEF T
    <3> QED BY <2>1, <3>1 DEF Ends
  <2>3. x \in D /\ e[x] = Via(q, x, e[next[x]]) /\ f[x] = Via(q, x, f[next[x]])
    BY <1>1 DEF Solves
  <2>4. next[x] \in D
    BY <2>2, <2>3 DEF Closed
  <2>5. next[x] \in B \cap C
    BY <1>1, <2>4 DEF Solves
  <2> QED BY <2>2, <2>3, <2>5
<1>2. ASSUME NEW C, NEW f, Solves(q, D, next, C, f), NEW n \in C
      PROVE  n \in Known /\ g[n] = f[n]
  <2>1. n \in Known
    BY <1>2 DEF Solves
  <2>2. \E B, e : Solves(q, D, next, B, e) /\ n \in B /\ Value(n) = e[n]
    BY <1>2, Zenon
  <2>3. Value(n) = f[n]
    <3> HIDE DEF Value
    <3> QED BY <1>1, <1>2, <2>2
  <2> QED BY <2>1, <2>3
<1>3. ASSUME NEW n \in Known PROVE \E C, f : Solves(q, D, next, C, f) /\ n \in C
  <2>1. PICK C \in {C \in SUBSET D : \E f : Solves(q, D, next, C, f)} : n \in C
    OBVIOUS
  <2> QED BY <2>1
<1>4. Solves(q, D, next, Known, g)
  <2>1. Known \in SUBSET D
    OBVIOUS
  <2>2. ASSUME NEW n \in Known
        PROVE  (next[n] \in D => next[n] \in Known) /\ g[n] = Via(q, n, g[next[n]])
    <3>1. PICK C, f : Solves(q, D, next, C, f) /\ n \in C
      BY <1>3
    <3> HIDE DEF g, Known
    <3>2. g[n] = f[n]
      BY <1>2, <3>1
    <3>3. n \in D /\ (next[n] \in D => next[n] \in C) /\ f[n] = Via(q, n, f[next[n]])
      BY <3>1 DEF Solves
    <3>4. next[n] \in D => next[n] \in Known /\ g[next[n]] = f[next[n]]
      BY <1>2, <3>1, <3>3
    <3>5. next[n] \notin D => Via(q, n, f[next[n]]) = Via(q, n, g[next[n]])
      BY <3>3 DEF Closed
    <3> QED BY <3>2, <3>3, <3>4, <3>5
  <2> HIDE DEF g, Known
  <2> QED BY <2>1, <2>2 DEF Solves
<1>5. Known = D
  <2> DEFINE T == D \ Known
  <2>1. SUFFICES ASSUME T # {} PROVE FALSE
    BY <1>4
  <2>2. PICK x \in T : next[x] \notin T
    <3>1. T \in SUBSET D
      OBVIOUS
    <3> HIDE DEF T
    <3> QED BY <2>1, <3>1 DEF Ends
  <2> DEFINE C == Known \cup {x}
             f == [n \in C |-> IF n = x THEN Via(q, x, g[next[x]]) ELSE g[n]]
  <2>3. x \in D /\ x \notin Known /\ (next[x] \in D => next[x] \in Known)
    BY <2>2
  <2>4. Solves(q, D, next, C, f)
    <3> HIDE DEF g, Known
    <3>1. C \in SUBSET D
      BY <1>4, <2>3 DEF Solves
    <3>2. \A n \in C : next[n] \in D => next[n] \in C
      BY <1>4, <2>3 DEF Solves
    <3>3. \A n \in Known : f[n] = g[n]
      BY <2>3
    <3>4. f[x] = Via(q, x, f[next[x]])
      <4>1. f[x] = Via(q, x, g[next[x]])
        OBVIOUS
      <4> HIDE DEF f
      <4>2. next[x] \in D => f[next[x]] = g[next[x]]
        BY <2>3, <3>3
      <4>3. next[x] \notin D => Via(q, x, g[next[x]]) = Via(q, x, f[next[x]])
        BY <2>3 DEF Closed
      <4> QED BY <4>1, <4>2, <4>3
    <3>5. ASSUME NEW n \in Known PROVE f[n] = Via(q, n, f[next[n]])
      <4> HIDE DEF f
      <4>1. n \in D /\ g[n] = Via(q, n, g[next[n]]) /\ (next[n] \in D => next[n] \in Known)
        BY <1>4, <3>5 DEF Solves
      <4>2. next[n] \in D => f[next[n]] = g[next[n]]
        BY <4>1, <3>3
      <4>3. next[n] \notin D => Via(q, n, g[next[n]]) = Via(q, n, f[next[n]])
        BY <4>1 DEF Closed
      <4> QED BY <4>1, <4>2, <4>3, <3>3, <3>5
    <3> HIDE DEF f
    <3> QED BY <3>1, <3>2, <3>4, <3>5 DEF Solves
  <2>5. x \in C
    OBVIOUS
  <2>6. x \in Known
    <3> HIDE DEF C, f, g, Known, T
    <3> QED BY <1>2, <2>4, <2>5
  <2> QED BY <2>3, <2>6
<1>6. \A n \in D : g[n] = Via(q, n, g[next[n]])
  <2> HIDE DEF g, Known
  <2> QED BY <1>4, <1>5 DEF Solves
<1>7. g = [n \in D |-> g[n]]
  <2> HIDE DEF Value, Known
  <2> QED BY <1>5
<1> HIDE DEF g
<1>8. g = [n \in D |-> Via(q, n, g[next[n]])]
  BY <1>6, <1>7
<1> QED BY <1>8


----------------------------------------------------------------------------
(* A class and its bases.                                                  *)

\* Sets of naturals have least elements.
LEMMA LeastElement ==
  ASSUME NEW T, T \subseteq Nat, T # {}
  PROVE  \E x \in T : \A y \in T : x <= y
<1> DEFINE L == {ss \in Nat \X Nat : ss[1] < ss[2]}
<1>1. IsWellFoundedOn(L, Nat)
  BY NatLessThanWellFounded DEF OpToRel
<1>2. PICK x \in T : \A y \in T : ~ (<<y, x>> \in L)
  <2> HIDE DEF L
  <2> QED BY <1>1, WFMin
<1>3. ASSUME NEW y \in T PROVE x <= y
  <2>1. x \in Nat /\ y \in Nat
    OBVIOUS
  <2>2. <<y, x>> \in Nat \X Nat /\ ~ (<<y, x>> \in L)
    BY <1>2, <2>1
  <2>3. ~ (y < x)
    BY <2>2
  <2> QED BY <2>1, <2>3
<1> QED BY <1>3

\* Bases come to an end, because a class is made after its base.
LEMMA BasesEnd ==
  ASSUME NEW x, Linked(x.heap)
  PROVE  /\ ClassesOf(x) \subseteq Nat \ {0}
         /\ \A c \in ClassesOf(x) : x.heap[c].base # 0 => x.heap[c].base \in ClassesOf(x) /\ x.heap[c].base < c
         /\ Ends(ClassesOf(x), [c \in ClassesOf(x) |-> x.heap[c].base])
<1> DEFINE next == [c \in ClassesOf(x) |-> x.heap[c].base]
<1>1. ClassesOf(x) \subseteq Nat \ {0}
  BY SeqDomain DEF Linked, ClassesOf
<1>2. \A c \in ClassesOf(x) : x.heap[c].base # 0 => x.heap[c].base \in ClassesOf(x) /\ x.heap[c].base < c
  BY SeqDomain DEF Linked, ClassesOf
<1>3. ASSUME NEW S \in SUBSET ClassesOf(x), S # {} PROVE \E n \in S : next[n] \notin S
  <2>1. PICK n \in S : \A y \in S : n <= y
    BY <1>1, <1>3, LeastElement
  <2>2. n \in Nat /\ next[n] = x.heap[n].base /\ 0 \notin S
    BY <1>1
  <2>3. next[n] \notin S
    BY <1>1, <1>2, <2>1, <2>2
  <2> QED BY <2>3
<1> QED BY <1>1, <1>2, <1>3 DEF Ends

\* A class is followed by its base and what follows the base.
LEMMA AncestorsStep ==
  ASSUME NEW x, Linked(x.heap), NEW c \in ClassesOf(x)
  PROVE  Ancestors(x, c) = {c} \cup (IF x.heap[c].base = 0 THEN {} ELSE Ancestors(x, x.heap[c].base))
<1> DEFINE D == ClassesOf(x)
           next == [i \in D |-> x.heap[i].base]
           q == [op |-> "up", next |-> next]
           E(f) == [i \in D |-> {i} \cup IF x.heap[i].base = 0 THEN {} ELSE f[x.heap[i].base]]
<1>1. \A n \in D : \A v : Via(q, n, v) = {n} \cup (IF next[n] = 0 THEN {} ELSE v)
  BY DEF Via
<1>2. \E f : f = [n \in D |-> Via(q, n, f[next[n]])]
  <2>1. Ends(D, next)
    BY BasesEnd
  <2>2. Closed(q, D, next)
    <3>1. \A n \in D : next[n] \notin D => next[n] = 0
      BY BasesEnd
    <3> HIDE DEF q, next, D
    <3> QED BY <1>1, <3>1 DEF Closed
  <2> HIDE DEF D, next, q
  <2> QED BY <2>1, <2>2, Recursion
<1>3. \E f : f = E(f)
  <2>1. PICK f : f = [n \in D |-> Via(q, n, f[next[n]])]
    BY <1>2
  <2>2. \A n \in D : f[n] = {n} \cup (IF next[n] = 0 THEN {} ELSE f[next[n]])
    <3> HIDE DEF q, D, next
    <3> QED BY <1>1, <2>1
  <2>3. f = [n \in D |-> f[n]]
    <3> HIDE DEF q, D, next
    <3> QED BY <2>1
  <2>4. f = E(f)
    <3>1. \A n \in D : f[n] = {n} \cup IF x.heap[n].base = 0 THEN {} ELSE f[x.heap[n].base]
      BY <2>2
    <3> HIDE DEF D
    <3> QED BY <2>3, <3>1
  <2> QED BY <2>4
<1> DEFINE up == CHOOSE f : f = E(f)
<1>4. up = E(up)
  <2> HIDE DEF E
  <2> QED BY <1>3
<1>5. \A i : Ancestors(x, i) = up[i]
  BY DEF Ancestors
<1>6. \A i \in D : up[i] = {i} \cup IF x.heap[i].base = 0 THEN {} ELSE up[x.heap[i].base]
  <2> HIDE DEF up
  <2> QED BY <1>4
<1> HIDE DEF up
<1> QED BY <1>5, <1>6

\* What follows a class are classes made before it.
LEMMA AncestorsBelow ==
  ASSUME NEW x, Linked(x.heap), NEW c \in ClassesOf(x)
  PROVE  /\ c \in Ancestors(x, c)
         /\ Ancestors(x, c) \subseteq {b \in ClassesOf(x) : b <= c}
<1> DEFINE Good(i) == Ancestors(x, i) \subseteq {b \in ClassesOf(x) : b <= i}
           T == {i \in ClassesOf(x) : ~Good(i)}
<1>1. T = {}
  <2> SUFFICES ASSUME T # {} PROVE FALSE
    OBVIOUS
  <2>1. PICK i \in T : \A j \in T : i <= j
    BY BasesEnd, LeastElement
  <2>2. i \in ClassesOf(x) /\ i \in Nat /\ ~Good(i)
    BY BasesEnd
  <2> DEFINE b == x.heap[i].base
  <2>3. Ancestors(x, i) = {i} \cup (IF b = 0 THEN {} ELSE Ancestors(x, b))
    BY <2>2, AncestorsStep
  <2>4. b # 0 => b \in ClassesOf(x) /\ b \in Nat /\ b < i
    BY <2>2, BasesEnd
  <2>5. b # 0 => Good(b)
    <3> HIDE DEF b, Good
    <3> QED BY <2>1, <2>2, <2>4
  <2>6. b # 0 => Ancestors(x, b) \subseteq {e \in ClassesOf(x) : e <= i}
    <3> HIDE DEF b
    <3>1. \A e \in ClassesOf(x) : e \in Nat
      BY BasesEnd
    <3>2. b # 0 => \A e \in ClassesOf(x) : e <= b => e <= i
      BY <2>2, <2>4, <3>1
    <3> QED BY <2>5, <3>2
  <2>7. i \in {e \in ClassesOf(x) : e <= i}
    BY <2>2
  <2> HIDE DEF b
  <2>8. Good(i)
    BY <2>3, <2>6, <2>7
  <2> QED BY <2>2, <2>8
<1> QED BY <1>1, AncestorsStep

\* Classes keep what follows them while their bases stay.
LEMMA AncestorsSame ==
  ASSUME NEW x, NEW y, Linked(x.heap), Linked(y.heap), 
         \A c \in ClassesOf(x) : c \in ClassesOf(y) /\ y.heap[c].base = x.heap[c].base,
         NEW c \in ClassesOf(x)
  PROVE  Ancestors(y, c) = Ancestors(x, c)
<1> DEFINE Good(i) == Ancestors(y, i) = Ancestors(x, i)
           T == {i \in ClassesOf(x) : ~Good(i)}
<1>1. T = {}
  <2> SUFFICES ASSUME T # {} PROVE FALSE
    OBVIOUS
  <2>1. PICK i \in T : \A j \in T : i <= j
    BY BasesEnd, LeastElement
  <2>2. i \in ClassesOf(x) /\ i \in Nat /\ ~Good(i)
    BY BasesEnd
  <2> DEFINE b == x.heap[i].base
  <2>3. Ancestors(x, i) = {i} \cup (IF b = 0 THEN {} ELSE Ancestors(x, b))
    BY <2>2, AncestorsStep
  <2>4. Ancestors(y, i) = {i} \cup (IF b = 0 THEN {} ELSE Ancestors(y, b))
    BY <2>2, AncestorsStep
  <2>5. b # 0 => b \in ClassesOf(x) /\ b \in Nat /\ b < i
    BY <2>2, BasesEnd
  <2>6. b # 0 => Good(b)
    <3> HIDE DEF b, Good
    <3> QED BY <2>1, <2>2, <2>5
  <2> HIDE DEF b
  <2> QED BY <2>2, <2>3, <2>4, <2>6
<1> QED BY <1>1

\* A set of classes that has a class and its bases has all that follows it.
LEMMA AncestorsWithin ==
  ASSUME NEW x, Linked(x.heap), NEW c \in ClassesOf(x), NEW S, c \in S,
         \A i \in S \cap ClassesOf(x) : x.heap[i].base # 0 => x.heap[i].base \in S
  PROVE  Ancestors(x, c) \subseteq S
<1> DEFINE Good(i) == Ancestors(x, i) \subseteq S
           T == {i \in S \cap ClassesOf(x) : ~Good(i)}
<1>1. T = {}
  <2> SUFFICES ASSUME T # {} PROVE FALSE
    OBVIOUS
  <2>1. PICK i \in T : \A j \in T : i <= j
    BY BasesEnd, LeastElement
  <2>2. i \in S /\ i \in ClassesOf(x) /\ i \in Nat /\ ~Good(i)
    BY BasesEnd
  <2> DEFINE b == x.heap[i].base
  <2>3. Ancestors(x, i) = {i} \cup (IF b = 0 THEN {} ELSE Ancestors(x, b))
    BY <2>2, AncestorsStep
  <2>4. b # 0 => b \in S /\ b \in ClassesOf(x) /\ b \in Nat /\ b < i
    BY <2>2, BasesEnd
  <2>5. b # 0 => Good(b)
    <3> HIDE DEF b, Good
    <3> QED BY <2>1, <2>2, <2>4
  <2> HIDE DEF b
  <2> QED BY <2>2, <2>3, <2>5
<1> QED BY <1>1

\* What follows a class includes, with each, its base.
LEMMA AncestorsClosed ==
  ASSUME NEW x, Linked(x.heap), NEW c \in ClassesOf(x), NEW i \in Ancestors(x, c), x.heap[i].base # 0
  PROVE  x.heap[i].base \in Ancestors(x, c)
<1> DEFINE Good(d) == \A j \in Ancestors(x, d) : x.heap[j].base # 0 => x.heap[j].base \in Ancestors(x, d)
           T == {d \in ClassesOf(x) : ~Good(d)}
<1>1. T = {}
  <2> SUFFICES ASSUME T # {} PROVE FALSE
    OBVIOUS
  <2>1. PICK d \in T : \A j \in T : d <= j
    BY BasesEnd, LeastElement
  <2>2. d \in ClassesOf(x) /\ d \in Nat /\ ~Good(d)
    BY BasesEnd
  <2> DEFINE b == x.heap[d].base
  <2>3. Ancestors(x, d) = {d} \cup (IF b = 0 THEN {} ELSE Ancestors(x, b))
    BY <2>2, AncestorsStep
  <2>4. b # 0 => b \in ClassesOf(x) /\ b \in Nat /\ b < d
    BY <2>2, BasesEnd
  <2>5. b # 0 => Good(b) /\ b \in Ancestors(x, b)
    <3>1. b # 0 => b \in Ancestors(x, b)
      BY <2>4, AncestorsBelow
    <3> HIDE DEF b, Good
    <3> QED BY <2>1, <2>2, <2>4, <3>1
  <2>6. ASSUME NEW j \in Ancestors(x, d), x.heap[j].base # 0 PROVE x.heap[j].base \in Ancestors(x, d)
    <3>1. CASE j = d
      BY <2>3, <2>5, <2>6, <3>1
    <3>2. CASE j # d
      BY <2>3, <2>5, <2>6, <3>2
    <3> QED BY <3>1, <3>2
  <2> QED BY <2>2, <2>6
<1> QED BY <1>1


----------------------------------------------------------------------------
(* What one call does to the heap, whatever it is.                         *)

\* An object keeps its links and its layout: a class keeps its fields where they are, has no
\* fewer methods and, once locked, no other fields.
Grows(o, p) ==
  /\ IsObject(p) /\ p.t = o.t
  /\ o.t = "table" => p.delegate = o.delegate
  /\ o.t = "class" =>
       /\ p.base = o.base
       /\ \A k \in DOMAIN o.members : o.members[k].field => k \in DOMAIN p.members /\ p.members[k] = o.members[k]
       /\ Len(o.methods) <= Len(p.methods)
       /\ o.locked => p.locked /\ Len(p.defaults) = Len(o.defaults) /\ p.udsize = o.udsize
  /\ o.t = "instance" => p.class = o.class /\ Len(p.values) = Len(o.values) /\ p.ud = o.ud

\* An object made on top of heap h, with the other objects as in g.
Made(h, g, o) ==
  /\ IsObject(o)
  /\ o.t = "table" => o.delegate = 0 \/ \E j \in 1..Len(h) : h[j].t = "table" /\ o.delegate = h[j].delegate
  /\ o.t = "class" =>
       /\ ~o.locked
       /\ \/ o.base = 0
          \/ /\ o.base \in 1..Len(h) /\ h[o.base].t = "class"
             /\ o.members = h[o.base].members /\ Len(o.methods) = Len(h[o.base].methods)
  /\ o.t = "instance" =>
       /\ o.class \in 1..Len(h) /\ h[o.class].t = "class" /\ g[o.class].locked
       /\ Len(o.values) = Len(g[o.class].defaults) /\ o.ud = g[o.class].udsize

\* One call: objects grow, classes are locked with their bases, one object may be made.
Steps(h, g) ==
  /\ IsSeq(g) /\ Len(g) \in {Len(h), Len(h) + 1}
  /\ \A i \in 1..Len(h) : /\ Grows(h[i], g[i])
                          /\ h[i].t = "class" /\ g[i].locked /\ h[i].base # 0 => g[h[i].base].locked
  /\ Len(g) = Len(h) + 1 => Made(h, g, g[Len(g)])

LEMMA GrowsSelf ==
  ASSUME NEW o, IsObject(o)
  PROVE  Grows(o, o)
<1>1. CASE IsTable(o)
  BY <1>1 DEF Grows, IsTable
<1>2. CASE IsClass(o)
  BY <1>2, SeqDomain DEF Grows, IsClass, IsMembers
<1>3. CASE IsInstance(o)
  BY <1>3 DEF Grows, IsInstance
<1> QED BY <1>1, <1>2, <1>3 DEF IsObject

LEMMA StepsNone ==
  ASSUME NEW h, Linked(h), Fits(h)
  PROVE  Steps(h, h)
<1>1. IsSeq(h) /\ Len(h) \in Nat /\ \A i \in 1..Len(h) : IsObject(h[i])
  BY SeqDomain DEF Linked
<1>2. \A i \in 1..Len(h) : Grows(h[i], h[i])
  BY <1>1, GrowsSelf
<1>3. Len(h) # Len(h) + 1
  BY <1>1
<1> QED BY <1>1, <1>2, <1>3 DEF Steps, Fits

\* One object is assigned to.
LEMMA StepsPut ==
  ASSUME NEW h, Linked(h), Fits(h), NEW i \in 1..Len(h), NEW p, Grows(h[i], p),
         h[i].t = "class" => p.locked = h[i].locked
  PROVE  Steps(h, [h EXCEPT ![i] = p])
<1> DEFINE g == [h EXCEPT ![i] = p]
<1>1. IsSeq(h) /\ Len(h) \in Nat /\ \A j \in 1..Len(h) : IsObject(h[j])
  BY SeqDomain DEF Linked
<1>2. IsSeq(g) /\ Len(g) = Len(h) /\ g[i] = p /\ \A j \in 1..Len(h) : j # i => g[j] = h[j]
  <2>1. g = Assigned(h, i, p)
    BY DEF Assigned
  <2> HIDE DEF g
  <2> QED BY ONLY i \in 1..Len(h), <1>1, <2>1, ExceptAt
<1> HIDE DEF g
<1>3. \A j \in 1..Len(h) : Grows(h[j], g[j])
  BY <1>1, <1>2, GrowsSelf
<1>4. \A j \in 1..Len(h) : h[j].t = "class" => g[j].locked = h[j].locked
  BY <1>2
<1>5. ASSUME NEW j \in 1..Len(h), h[j].t = "class", g[j].locked, h[j].base # 0 PROVE g[h[j].base].locked
  <2>1. h[h[j].base].locked
    BY <1>4, <1>5 DEF Fits
  <2>2. h[j].base \in 1..Len(h) /\ h[h[j].base].t = "class"
    BY <1>5 DEF Linked
  <2> QED BY <1>4, <2>1, <2>2
<1>6. Len(g) # Len(h) + 1
  BY <1>1, <1>2
<1>7. Steps(h, g)
  BY <1>2, <1>3, <1>5, <1>6 DEF Steps
<1> QED BY <1>7 DEF g

\* An object is made and no other changes.
LEMMA StepsNew ==
  ASSUME NEW h, Linked(h), Fits(h), NEW o, Made(h, Append(h, o), o)
  PROVE  Steps(h, Append(h, o))
<1> DEFINE g == Append(h, o)
<1>1. IsSeq(h) /\ Len(h) \in Nat /\ \A j \in 1..Len(h) : IsObject(h[j])
  BY SeqDomain DEF Linked
<1>2. IsSeq(g) /\ Len(g) = Len(h) + 1 /\ g[Len(g)] = o /\ \A j \in 1..Len(h) : g[j] = h[j]
  BY <1>1, AppendSeq
<1>3. Made(h, g, o)
  OBVIOUS
<1> HIDE DEF g
<1>4. \A j \in 1..Len(h) : Grows(h[j], g[j])
  BY <1>1, <1>2, GrowsSelf
<1>5. ASSUME NEW j \in 1..Len(h), h[j].t = "class", g[j].locked, h[j].base # 0 PROVE g[h[j].base].locked
  <2>1. h[h[j].base].locked
    BY <1>2, <1>5 DEF Fits
  <2>2. h[j].base \in 1..Len(h)
    BY <1>5 DEF Linked
  <2> QED BY <1>2, <2>1, <2>2
<1>6. Steps(h, g)
  BY <1>2, <1>3, <1>4, <1>5 DEF Steps
<1> QED BY <1>6 DEF g

\* Calls keep the links between objects good.
LEMMA StepsLinked ==
  ASSUME NEW h, NEW g, Linked(h), Steps(h, g)
  PROVE  Linked(g)
<1> DEFINE T == {j \in 1..Len(h) : h[j].t = "table"}
           U == {j \in 1..Len(g) : g[j].t = "table"}
<1>1. IsSeq(h) /\ Len(h) \in Nat \ {0} /\ IsSeq(g) /\ Len(g) \in {Len(h), Len(h) + 1}
  <2>1. IsSeq(h) /\ h # <<>> /\ Len(h) \in Nat
    BY SeqDomain DEF Linked
  <2>2. PICK S : h \in Seq(S)
    BY <2>1, SeqOver
  <2>3. Len(h) # 0
    BY <2>1, <2>2
  <2> QED BY <2>1, <2>3 DEF Steps
<1>2. Len(g) \in Nat \ {0} /\ 1..Len(h) \subseteq 1..Len(g) /\ (Len(g) = Len(h) \/ 1..Len(g) = 1..Len(h) \cup {Len(g)})
  BY <1>1
<1>3. \A i \in 1..Len(h) : Grows(h[i], g[i]) /\ g[i].t = h[i].t
  BY DEF Steps, Grows
<1>4. g # <<>> /\ g[1].t = "table"
  <2>1. g[1].t = "table"
    BY <1>1, <1>3 DEF Linked
  <2>2. PICK S : g \in Seq(S)
    BY <1>1, SeqOver
  <2> QED BY <1>2, <2>1, <2>2
<1>5. ASSUME Len(g) = Len(h) + 1 PROVE Made(h, g, g[Len(g)])
  BY <1>5 DEF Steps
<1>6. \A i \in 1..Len(g) : IsObject(g[i])
  BY <1>1, <1>2, <1>3, <1>5 DEF Grows, Made
<1>7. \A i \in T : i \in U /\ g[i].delegate = h[i].delegate /\ h[i].delegate \in {0} \cup T
  BY <1>2, <1>3 DEF Grows, Linked
<1>8. U \subseteq T \cup {Len(h) + 1}
  BY <1>1, <1>2, <1>3
<1>9. ASSUME NEW i \in U PROVE g[i].delegate \in {0} \cup T
  <2>1. CASE i \in T
    BY <1>7, <2>1
  <2>2. CASE i \notin T
    <3>1. Len(g) = Len(h) + 1 /\ i = Len(g)
      BY <1>1, <1>8, <1>9, <2>2
    <3>2. g[i].delegate = 0 \/ \E j \in T : g[i].delegate = h[j].delegate
      BY <1>5, <3>1, <1>9 DEF Made
    <3> HIDE DEF T, U
    <3> QED BY <1>7, <3>2
  <2> QED BY <2>1, <2>2
<1>10. ASSUME NEW i \in 1..Len(g), g[i].t = "class"
       PROVE  g[i].base \in {0} \cup {j \in 1..Len(g) : j < i /\ g[j].t = "class"}
  <2>1. CASE i \in 1..Len(h)
    BY <1>1, <1>2, <1>3, <1>10, <2>1 DEF Grows, Linked
  <2>2. CASE i \notin 1..Len(h)
    BY <1>1, <1>2, <1>3, <1>5, <1>10, <2>2 DEF Made
  <2> QED BY <2>1, <2>2
<1>11. ASSUME NEW i \in 1..Len(g), g[i].t = "instance"
       PROVE  g[i].class \in {j \in 1..Len(g) : g[j].t = "class"}
  <2>1. CASE i \in 1..Len(h)
    BY <1>1, <1>2, <1>3, <1>11, <2>1 DEF Grows, Linked
  <2>2. CASE i \notin 1..Len(h)
    BY <1>1, <1>2, <1>3, <1>5, <1>11, <2>2 DEF Made
  <2> QED BY <2>1, <2>2
<1>12. ASSUME NEW S \in SUBSET U, S # {} PROVE \E i \in S : g[i].delegate \notin S
  <2>1. CASE S \cap T = {}
    <3>1. PICK i \in S : TRUE
      BY <1>12
    <3>2. 0 \notin S
      BY <1>2
    <3> HIDE DEF T, U
    <3> QED BY <1>9, <2>1, <3>1, <3>2
  <2>2. CASE S \cap T # {}
    <3>1. S \cap T \in SUBSET T
      OBVIOUS
    <3>2. \A R1 \in SUBSET T : R1 # {} => \E i \in R1 : h[i].delegate \notin R1
      BY DEF Linked
    <3> HIDE DEF T, U
    <3>3. PICK i \in S \cap T : h[i].delegate \notin S \cap T
      BY <2>2, <3>1, <3>2
    <3>4. 0 \notin S
      BY <1>2 DEF U
    <3> QED BY <1>7, <3>3, <3>4
  <2> QED BY <2>1, <2>2
<1>13. \A i \in 1..Len(g) : g[i].t = "table" => g[i].delegate \in {0} \cup U
  <2>1. T \subseteq U
    BY <1>2, <1>3
  <2> QED BY <1>9, <2>1
<1> QED BY <1>1, <1>4, <1>6, <1>10, <1>11, <1>12, <1>13 DEF Linked

\* Calls keep instances laid out as their classes.
LEMMA StepsFits ==
  ASSUME NEW h, NEW g, Linked(h), Fits(h), Steps(h, g)
  PROVE  Fits(g)
<1>1. Len(h) \in Nat /\ Len(g) \in Nat /\ (Len(g) = Len(h) \/ Len(g) = Len(h) + 1)
  BY SeqDomain DEF Steps, Linked
<1>2. \A i \in 1..Len(h) : Grows(h[i], g[i]) /\ g[i].t = h[i].t
  BY DEF Steps, Grows
<1>3. ASSUME Len(g) = Len(h) + 1 PROVE Made(h, g, g[Len(g)])
  BY <1>3 DEF Steps
<1>4. ASSUME NEW i \in 1..Len(g), g[i].t = "instance"
      PROVE  /\ Len(g[i].values) = Len(g[g[i].class].defaults) /\ g[i].ud = g[g[i].class].udsize
             /\ g[g[i].class].locked
  <2>1. CASE i \in 1..Len(h)
    <3> DEFINE c == h[i].class
    <3>1. h[i].t = "instance" /\ g[i].class = c /\ Len(g[i].values) = Len(h[i].values) /\ g[i].ud = h[i].ud
      BY <1>2, <1>4, <2>1 DEF Grows
    <3>2. c \in 1..Len(h) /\ h[c].t = "class"
      BY <2>1, <3>1 DEF Linked
    <3>3. Len(h[i].values) = Len(h[c].defaults) /\ h[i].ud = h[c].udsize /\ h[c].locked
      BY <2>1, <3>1 DEF Fits
    <3>4. g[c].locked /\ Len(g[c].defaults) = Len(h[c].defaults) /\ g[c].udsize = h[c].udsize
      BY <1>2, <3>2, <3>3 DEF Grows
    <3> QED BY <3>1, <3>3, <3>4
  <2>2. CASE i \notin 1..Len(h)
    BY <1>1, <1>3, <1>4, <2>2 DEF Made
  <2> QED BY <2>1, <2>2
<1>5. ASSUME NEW i \in 1..Len(g), g[i].t = "class", g[i].locked, g[i].base # 0 PROVE g[g[i].base].locked
  <2>1. CASE i \in 1..Len(h)
    BY <1>2, <1>5, <2>1 DEF Grows, Steps
  <2>2. CASE i \notin 1..Len(h)
    BY <1>1, <1>3, <1>5, <2>2 DEF Made
  <2> QED BY <2>1, <2>2
<1> QED BY <1>4, <1>5 DEF Fits


----------------------------------------------------------------------------
(* The machine: its stack, its error, and calls of metamethods.            *)

IsMachine(x) == DOMAIN x = {"heap", "stack", "err", "entered"} /\ IsSeq(x.stack) /\ x.entered \in Nat

\* x and y differ in their stacks at most, and y has n values more.
Restacked(x, y, n) ==
  IsMachine(y) /\ y.heap = x.heap /\ y.err = x.err /\ y.entered = x.entered /\ Len(y.stack) = Len(x.stack) + n

LEMMA PushIs ==
  ASSUME NEW x, IsMachine(x), NEW v
  PROVE  Restacked(x, Push(x, v), 1)
<1>1. IsSeq(Append(x.stack, v)) /\ Len(Append(x.stack, v)) = Len(x.stack) + 1
  BY AppendSeq DEF IsMachine
<1> QED BY <1>1 DEF Restacked, IsMachine, Push

LEMMA PushAllIs ==
  ASSUME NEW x, IsMachine(x), NEW a, IsSeq(a)
  PROVE  Restacked(x, PushAll(x, a), Len(a))
<1>1. IsSeq(x.stack \o a) /\ Len(x.stack \o a) = Len(x.stack) + Len(a)
  BY ConcatSeq DEF IsMachine
<1> QED BY <1>1 DEF Restacked, IsMachine, PushAll

LEMMA PopIs ==
  ASSUME NEW x, IsMachine(x), NEW n \in Nat, n <= Len(x.stack)
  PROVE  Restacked(x, Pop(x, n), -n)
<1>1. IsSeq(x.stack) /\ Len(x.stack) \in Nat
  BY SeqDomain DEF IsMachine
<1>2. n \in 0..Len(x.stack)
  BY <1>1
<1>3. IsSeq(SubSeq(x.stack, 1, Len(x.stack) - n)) /\ Len(SubSeq(x.stack, 1, Len(x.stack) - n)) = Len(x.stack) - n
  BY <1>1, <1>2, PopSeq
<1>4. Len(x.stack) - n = Len(x.stack) + (-n)
  BY <1>1
<1> QED BY <1>3, <1>4 DEF Restacked, IsMachine, Pop

LEMMA RaiseIs ==
  ASSUME NEW x, IsMachine(x)
  PROVE  /\ IsMachine(Raise(x)) /\ Raise(x).heap = x.heap /\ Raise(x).stack = x.stack
         /\ Raise(x).err = "raised" /\ Raise(x).entered = x.entered
BY DEF IsMachine, Raise

LEMMA PutIs ==
  ASSUME NEW x, IsMachine(x), NEW o, NEW p
  PROVE  /\ IsMachine(Put(x, o, p)) /\ Put(x, o, p).heap = [x.heap EXCEPT ![o.id] = p]
         /\ Put(x, o, p).stack = x.stack /\ Put(x, o, p).err = x.err /\ Put(x, o, p).entered = x.entered
BY DEF IsMachine, Put

LEMMA NewIs ==
  ASSUME NEW x, IsMachine(x), NEW p
  PROVE  /\ IsMachine(New(x, p)) /\ New(x, p).heap = Append(x.heap, p)
         /\ New(x, p).stack = x.stack /\ New(x, p).err = x.err /\ New(x, p).entered = x.entered
BY DEF IsMachine, New

LEMMA NotAbsent ==
  ASSUME NEW x, IsMachine(x)
  PROVE  x # Absent
<1>1. DOMAIN Absent = {"t"}
  BY DEF Absent
<1> QED BY <1>1 DEF IsMachine

\* A metamethod that is not callable, and a _set that throws null, in a heap.
NotCallableIn(h) ==
  \E i \in 1..Len(h) : h[i].t = "table" /\ \E k \in DOMAIN h[i].slots \cap MetaMethods : h[i].slots[k].t # "closure"
Declining(s) == s # Absent /\ s.t = "closure" /\ s.does = "decline"
DeclinesIn(h) ==
  \E i \in 1..Len(h) : \/ h[i].t = "table" /\ Declining(At(h[i].slots, "_set"))
                       \/ h[i].t = "class" /\ Declining(At(h[i].meta, "_set"))

IsRef(x, o) == o.id \in 1..Len(x.heap) /\ o.t = x.heap[o.id].t

\* What stands for a metamethod is a value, and a closure unless a table says otherwise.
LEMMA MetaMethodIs ==
  ASSUME NEW x, Linked(x.heap), NEW o, IsRef(x, o), NEW mm \in MetaMethods, GetMetaMethod(x, o, mm) # Absent
  PROVE  /\ IsValue(GetMetaMethod(x, o, mm))
         /\ GetMetaMethod(x, o, mm).t # "closure" => NotCallableIn(x.heap)
         /\ mm = "_set" /\ Declining(GetMetaMethod(x, o, mm)) => DeclinesIn(x.heap)
<1> DEFINE p == x.heap[o.id]
<1>1. IsObject(p) /\ p.t = o.t /\ Obj(x, o) = p
  BY DEF Linked, IsRef, Obj
<1>2. CASE o.t = "table"
  <2> DEFINE d == p.delegate
  <2>1. d # 0 /\ GetMetaMethod(x, o, mm) = At(x.heap[d].slots, mm)
    BY <1>1, <1>2 DEF GetMetaMethod
  <2>2. d \in 1..Len(x.heap) /\ x.heap[d].t = "table" /\ IsObject(x.heap[d])
    BY <1>1, <1>2, <2>1 DEF Linked, IsRef
  <2>3. IsTable(x.heap[d])
    BY <2>2 DEF IsObject, IsClass, IsInstance
  <2>4. mm \in DOMAIN x.heap[d].slots /\ GetMetaMethod(x, o, mm) = x.heap[d].slots[mm]
    BY <2>1 DEF At
  <2>5. IsValue(x.heap[d].slots[mm])
    BY <2>3, <2>4 DEF IsTable
  <2> QED BY <2>1, <2>2, <2>4, <2>5 DEF NotCallableIn, DeclinesIn
<1>3. CASE o.t = "instance"
  <2> DEFINE c == p.class
  <2>1. GetMetaMethod(x, o, mm) = At(x.heap[c].meta, mm)
    BY <1>1, <1>3 DEF GetMetaMethod
  <2>2. c \in 1..Len(x.heap) /\ x.heap[c].t = "class" /\ IsObject(x.heap[c])
    <3>1. o.id \in 1..Len(x.heap) /\ p.t = "instance"
      BY <1>1, <1>3 DEF IsRef
    <3>2. c \in {j \in 1..Len(x.heap) : x.heap[j].t = "class"}
      BY ONLY Linked(x.heap), <3>1 DEF Linked
    <3>3. \A i \in 1..Len(x.heap) : IsObject(x.heap[i])
      BY ONLY Linked(x.heap) DEF Linked
    <3> HIDE DEF c
    <3> QED BY ONLY <3>2, <3>3
  <2>3. IsClass(x.heap[c])
    BY <2>2 DEF IsObject, IsTable, IsInstance
  <2>4. mm \in DOMAIN x.heap[c].meta /\ GetMetaMethod(x, o, mm) = x.heap[c].meta[mm]
    BY <2>1 DEF At
  <2>5. IsValue(x.heap[c].meta[mm]) /\ x.heap[c].meta[mm].t = "closure"
    BY <2>3, <2>4 DEF IsClass
  <2> QED BY <2>1, <2>2, <2>4, <2>5 DEF DeclinesIn
<1> QED BY <1>2, <1>3 DEF GetMetaMethod

\* What a call does: it runs the closure, and fails with its error or without one.
LEMMA CallIs ==
  ASSUME NEW x, IsMachine(x), NEW clo, IsValue(clo)
  PROVE  LET r == Call(x, clo)
         IN /\ DOMAIN r = {"m", "ok", "v"} /\ r.ok \in BOOLEAN
            /\ IsMachine(r.m) /\ r.m.heap = x.heap /\ r.m.stack = x.stack
            /\ clo.t = "closure" => /\ r.m.entered = x.entered + 1
                                    /\ ~r.ok => r.m.err \in {"thrown", "none"}
                                    /\ ~r.ok /\ r.m.err = "none" => Declining(clo)
            /\ clo.t # "closure" => r.m = x /\ ~r.ok
<1>1. clo # Absent
  BY DEF IsValue, Absent
<1>2. CASE clo.t # "closure"
  BY <1>2 DEF Call, R
<1>3. CASE clo.t = "closure"
  <2>1. clo.does \in Outcomes
    BY <1>3 DEF IsValue
  <2> DEFINE y == [x EXCEPT !.entered = @ + 1]
             r == Call(x, clo)
  <2>2. IsMachine(y) /\ y.heap = x.heap /\ y.stack = x.stack /\ y.entered = x.entered + 1
    BY DEF IsMachine
  <2>3. CASE clo.does \in {"int", "bool"}
    <3>1. \E v : r = [m |-> y, ok |-> TRUE, v |-> v]
      BY <1>3, <2>3 DEF Call, R
    <3> HIDE DEF y, r
    <3>2. DOMAIN r = {"m", "ok", "v"} /\ r.m = y /\ r.ok = TRUE
      BY <3>1
    <3>3. QED BY <1>3, <2>2, <3>2 DEF r
  <2>4. ASSUME NEW e \in {"thrown", "none"}, r = [m |-> [y EXCEPT !.err = e], ok |-> FALSE, v |-> Null]
        PROVE  /\ DOMAIN r = {"m", "ok", "v"} /\ r.ok = FALSE /\ r.m.err = e
               /\ IsMachine(r.m) /\ r.m.heap = x.heap /\ r.m.stack = x.stack /\ r.m.entered = x.entered + 1
    <3> HIDE DEF y, r
    <3> DEFINE z == [y EXCEPT !.err = e]
    <3>1. IsMachine(z) /\ z.heap = x.heap /\ z.stack = x.stack /\ z.entered = x.entered + 1 /\ z.err = e
      BY <2>2 DEF IsMachine
    <3>2. DOMAIN r = {"m", "ok", "v"} /\ r.m = z /\ r.ok = FALSE
      BY <2>4
    <3> HIDE DEF z
    <3> QED BY <3>1, <3>2
  <2>5. CASE clo.does = "throw"
    <3>1. r = [m |-> [y EXCEPT !.err = "thrown"], ok |-> FALSE, v |-> Null]
      BY <1>3, <2>5 DEF Call, R
    <3> HIDE DEF y, r
    <3>2. r.ok = FALSE /\ r.m.err = "thrown"
      BY <2>4, <3>1
    <3> QED BY <1>3, <2>4, <3>1, <3>2 DEF r
  <2>6. CASE clo.does = "decline"
    <3>1. r = [m |-> [y EXCEPT !.err = "none"], ok |-> FALSE, v |-> Null]
      BY <1>3, <2>6 DEF Call, R
    <3>2. Declining(clo)
      BY <1>1, <1>3, <2>6 DEF Declining
    <3> HIDE DEF y, r
    <3>3. r.ok = FALSE /\ r.m.err = "none"
      BY <2>4, <3>1
    <3> QED BY <1>3, <2>4, <3>1, <3>2, <3>3 DEF r
  <2> QED BY <2>1, <2>3, <2>5, <2>6 DEF Outcomes
<1> QED BY <1>2, <1>3

\* The result r of an operation of x that leaves the heap alone.
Quiet(x, r) ==
  /\ DOMAIN r = {"m", "ok", "v"} /\ r.ok \in BOOLEAN
  /\ IsMachine(r.m) /\ r.m.heap = x.heap /\ Len(r.m.stack) = Len(x.stack) /\ x.entered <= r.m.entered
  /\ ~r.ok /\ ~NotCallableIn(x.heap) => r.m.err # "stale"

\* However a metamethod ends, its arguments are off the stack.
LEMMA RunIs ==
  ASSUME NEW x, IsMachine(x), NEW clo, IsValue(clo), clo.t # "closure" => NotCallableIn(x.heap), NEW args, IsSeq(args)
  PROVE  LET r == CallMetaMethod(x, clo, args) IN Quiet(x, r) /\ (r.ok => r.m.entered # x.entered)
<1> DEFINE y == PushAll(x, args)
           c == Call(y, clo)
           r == CallMetaMethod(x, clo, args)
<1>1. IsValue(clo) /\ (clo.t # "closure" => NotCallableIn(x.heap))
  OBVIOUS
<1>2. Restacked(x, y, Len(args))
  BY PushAllIs
<1>3. r = [c EXCEPT !.m = Pop(@, Len(args))]
  BY DEF CallMetaMethod
<1> HIDE DEF y
<1>4. /\ DOMAIN c = {"m", "ok", "v"} /\ c.ok \in BOOLEAN
      /\ IsMachine(c.m) /\ c.m.heap = y.heap /\ c.m.stack = y.stack
      /\ clo.t = "closure" => c.m.entered = y.entered + 1 /\ (~c.ok => c.m.err \in {"thrown", "none"})
      /\ clo.t # "closure" => c.m = y /\ ~c.ok
  BY <1>1, <1>2, CallIs DEF Restacked
<1> HIDE DEF c
<1>5. Len(args) \in Nat /\ Len(x.stack) \in Nat /\ Len(c.m.stack) = Len(x.stack) + Len(args)
  BY <1>2, <1>4, SeqDomain DEF Restacked, IsMachine
<1>6. Restacked(c.m, Pop(c.m, Len(args)), -Len(args))
  BY <1>4, <1>5, PopIs
<1>7. DOMAIN r = {"m", "ok", "v"} /\ r.ok = c.ok /\ r.m = Pop(c.m, Len(args))
  BY <1>3, <1>4
<1> HIDE DEF r
<1>8. Len(r.m.stack) = Len(x.stack)
  <2> DEFINE k == Len(args)
             l == Len(x.stack)
             n == Len(r.m.stack)
  <2>1. k \in Nat /\ l \in Nat /\ n = (l + k) + (-k)
    BY <1>5, <1>6, <1>7 DEF Restacked
  <2> HIDE DEF k, l, n
  <2>2. n = l
    BY <2>1
  <2> QED BY <2>2 DEF l, n
<1>9. x.entered \in Nat /\ x.entered <= r.m.entered /\ (r.ok => r.m.entered # x.entered)
  BY <1>2, <1>4, <1>6, <1>7 DEF Restacked, IsMachine
<1>10. ~r.ok /\ ~NotCallableIn(x.heap) => r.m.err # "stale"
  BY <1>1, <1>4, <1>6, <1>7 DEF Restacked
<1>11. Quiet(x, r)
  BY <1>2, <1>4, <1>6, <1>7, <1>8, <1>9, <1>10 DEF Quiet, Restacked
<1> QED BY <1>9, <1>11 DEF r

LEMMA CallMetaMethodIs ==
  ASSUME NEW x, IsMachine(x), Linked(x.heap), NEW o, IsRef(x, o), NEW mm \in MetaMethods,
         GetMetaMethod(x, o, mm) # Absent, NEW args, IsSeq(args)
  PROVE  LET r == CallMetaMethod(x, GetMetaMethod(x, o, mm), args) IN Quiet(x, r) /\ (r.ok => r.m.entered # x.entered)
<1> DEFINE clo == GetMetaMethod(x, o, mm)
<1>1. IsValue(clo) /\ (clo.t # "closure" => NotCallableIn(x.heap))
  BY MetaMethodIs
<1> HIDE DEF clo
<1> QED BY <1>1, RunIs DEF clo


----------------------------------------------------------------------------
(* Classes grow.                                                           *)

\* A value the host may store, also as a method of a derived class.
IsStored(v) == IsValue(v) /\ (v.t = "closure" => \A b : IsValue([v EXCEPT !.base = b]))

LEMMA MembersSet ==
  ASSUME NEW s, IsMembers(s), NEW i \in 1..Len(s), NEW v, IsValue(v)
  PROVE  IsMembers([s EXCEPT ![i].val = v]) /\ Len([s EXCEPT ![i].val = v]) = Len(s)
<1> DEFINE e == [s[i] EXCEPT !.val = v]
           t == [s EXCEPT ![i] = e]
<1>1. DOMAIN e = {"val", "attrs"} /\ IsValue(e.val)
  <2>1. DOMAIN s[i] = {"val", "attrs"}
    BY DEF IsMembers
  <2> QED BY <2>1
<1>2. IsSeq(t) /\ Len(t) = Len(s) /\ t[i] = e /\ \A j \in 1..Len(s) : j # i => t[j] = s[j]
  <2>1. IsSeq(s) /\ t = Assigned(s, i, e)
    BY DEF IsMembers, Assigned
  <2> HIDE DEF t, e
  <2> QED BY ONLY i \in 1..Len(s), <2>1, ExceptAt
<1>3. [s EXCEPT ![i].val = v] = t
  OBVIOUS
<1> HIDE DEF e, t
<1> QED BY <1>1, <1>2, <1>3 DEF IsMembers

LEMMA MembersAttrs ==
  ASSUME NEW s, IsMembers(s), NEW i \in 1..Len(s), NEW v
  PROVE  IsMembers([s EXCEPT ![i].attrs = v]) /\ Len([s EXCEPT ![i].attrs = v]) = Len(s)
<1> DEFINE e == [s[i] EXCEPT !.attrs = v]
           t == [s EXCEPT ![i] = e]
<1>1. DOMAIN e = {"val", "attrs"} /\ IsValue(e.val)
  <2>1. DOMAIN s[i] = {"val", "attrs"} /\ IsValue(s[i].val)
    BY DEF IsMembers
  <2> QED BY <2>1
<1>2. IsSeq(t) /\ Len(t) = Len(s) /\ t[i] = e /\ \A j \in 1..Len(s) : j # i => t[j] = s[j]
  <2>1. IsSeq(s) /\ t = Assigned(s, i, e)
    BY DEF IsMembers, Assigned
  <2> HIDE DEF t, e
  <2> QED BY ONLY i \in 1..Len(s), <2>1, ExceptAt
<1>3. [s EXCEPT ![i].attrs = v] = t
  OBVIOUS
<1> HIDE DEF e, t
<1> QED BY <1>1, <1>2, <1>3 DEF IsMembers

LEMMA MembersAppend ==
  ASSUME NEW s, IsMembers(s), NEW v, IsValue(v)
  PROVE  IsMembers(Append(s, Member(v))) /\ Len(Append(s, Member(v))) = Len(s) + 1
<1> DEFINE e == Member(v)
           t == Append(s, e)
<1>1. DOMAIN e = {"val", "attrs"} /\ IsValue(e.val)
  BY DEF Member
<1> HIDE DEF e
<1>2. IsSeq(s) /\ Len(s) \in Nat
  BY SeqDomain DEF IsMembers
<1>3. IsSeq(t) /\ Len(t) = Len(s) + 1 /\ t[Len(s) + 1] = e /\ \A j \in 1..Len(s) : t[j] = s[j]
  BY <1>2, AppendSeq
<1> HIDE DEF t
<1>4. \A j \in 1..Len(t) : j \in 1..Len(s) \/ j = Len(s) + 1
  BY <1>2, <1>3
<1>5. IsMembers(t)
  BY <1>1, <1>3, <1>4 DEF IsMembers
<1> QED BY <1>3, <1>5 DEF t, e

\* What makes a class grow.
LEMMA ClassGrows ==
  ASSUME NEW c, NEW p, IsClass(c), IsClass(p), p.base = c.base, p.locked = c.locked,
         c.locked => Len(p.defaults) = Len(c.defaults) /\ p.udsize = c.udsize,
         Len(c.methods) <= Len(p.methods),
         \A k \in DOMAIN c.members : c.members[k].field => k \in DOMAIN p.members /\ p.members[k] = c.members[k]
  PROVE  Grows(c, p)
BY DEF Grows, IsClass, IsObject

\* Only one of the parts of a class that members do not lie in changes.
LEMMA ClassOther ==
  ASSUME NEW c, NEW p, IsClass(c), DOMAIN p = DOMAIN c, p.t = c.t, p.base = c.base, p.locked = c.locked,
         p.members = c.members, p.ctor = c.ctor, p.udsize = c.udsize \/ ~c.locked,
         IsMembers(p.defaults), Len(p.defaults) = Len(c.defaults), IsMembers(p.methods), Len(p.methods) = Len(c.methods),
         \A k \in DOMAIN p.meta : IsValue(p.meta[k]) /\ p.meta[k].t = "closure"
  PROVE  Grows(c, p)
<1>1. IsClass(p)
  BY DEF IsClass
<1>2. Len(c.methods) <= Len(p.methods)
  BY SeqDomain DEF IsClass, IsMembers
<1> QED BY <1>1, <1>2, ClassGrows

\* A member of a class, if there is one.
LEMMA MemberIs ==
  ASSUME NEW c, IsClass(c), NEW k, At(c.members, k) # Absent
  PROVE  LET i == At(c.members, k)
         IN /\ k \in DOMAIN c.members /\ i = c.members[k] /\ i \in [field : BOOLEAN, idx : Nat \ {0}]
            /\ i.field => i.idx \in 1..Len(c.defaults)
            /\ ~i.field => i.idx \in 1..Len(c.methods)
<1>1. k \in DOMAIN c.members /\ At(c.members, k) = c.members[k]
  BY DEF At
<1> DEFINE i == c.members[k]
<1>2. i \in [field : BOOLEAN, idx : Nat \ {0}] /\ i.idx <= Len(IF i.field THEN c.defaults ELSE c.methods)
  BY <1>1 DEF IsClass
<1>3. Len(c.defaults) \in Nat /\ Len(c.methods) \in Nat
  BY SeqDomain DEF IsClass, IsMembers
<1> HIDE DEF i
<1>4. i.field \in BOOLEAN /\ i.idx \in Nat \ {0}
  BY <1>2
<1>5. CASE i.field
  BY <1>1, <1>2, <1>3, <1>4, <1>5 DEF i
<1>6. CASE ~i.field
  BY <1>1, <1>2, <1>3, <1>4, <1>6 DEF i
<1> QED BY <1>5, <1>6

\* Assigning to a field, a method or an attribute of a class.
LEMMA ClassAssign ==
  ASSUME NEW c, IsClass(c), NEW v
  PROVE  /\ \A i \in 1..Len(c.defaults) : /\ IsValue(v) => Grows(c, [c EXCEPT !.defaults[i].val = v])
                                          /\ Grows(c, [c EXCEPT !.defaults[i].attrs = v])
                                          /\ [c EXCEPT !.defaults[i].val = v].locked = c.locked
                                          /\ [c EXCEPT !.defaults[i].attrs = v].locked = c.locked
         /\ \A i \in 1..Len(c.methods) : /\ IsValue(v) => Grows(c, [c EXCEPT !.methods[i].val = v])
                                         /\ Grows(c, [c EXCEPT !.methods[i].attrs = v])
                                         /\ [c EXCEPT !.methods[i].val = v].locked = c.locked
                                         /\ [c EXCEPT !.methods[i].attrs = v].locked = c.locked
<1>1. ASSUME NEW s, IsMembers(s), Len(s) = Len(c.defaults)
      PROVE  Grows(c, [c EXCEPT !.defaults = s]) /\ [c EXCEPT !.defaults = s].locked = c.locked
  <2> DEFINE p == [c EXCEPT !.defaults = s]
  <2>1. /\ DOMAIN p = DOMAIN c /\ p.t = c.t /\ p.base = c.base /\ p.locked = c.locked /\ p.members = c.members
        /\ p.ctor = c.ctor /\ p.udsize = c.udsize /\ p.methods = c.methods /\ p.meta = c.meta /\ p.defaults = s
    BY DEF IsClass
  <2>2. IsMembers(c.methods) /\ \A k \in DOMAIN c.meta : IsValue(c.meta[k]) /\ c.meta[k].t = "closure"
    BY DEF IsClass
  <2> HIDE DEF p
  <2>3. Grows(c, p)
    BY <1>1, <2>1, <2>2, ClassOther
  <2> QED BY <2>1, <2>3 DEF p
<1>2. ASSUME NEW s, IsMembers(s), Len(s) = Len(c.methods)
      PROVE  Grows(c, [c EXCEPT !.methods = s]) /\ [c EXCEPT !.methods = s].locked = c.locked
  <2> DEFINE p == [c EXCEPT !.methods = s]
  <2>1. /\ DOMAIN p = DOMAIN c /\ p.t = c.t /\ p.base = c.base /\ p.locked = c.locked /\ p.members = c.members
        /\ p.ctor = c.ctor /\ p.udsize = c.udsize /\ p.defaults = c.defaults /\ p.meta = c.meta /\ p.methods = s
    BY DEF IsClass
  <2>2. IsMembers(c.defaults) /\ \A k \in DOMAIN c.meta : IsValue(c.meta[k]) /\ c.meta[k].t = "closure"
    BY DEF IsClass
  <2> HIDE DEF p
  <2>3. Grows(c, p)
    BY <1>2, <2>1, <2>2, ClassOther
  <2> QED BY <2>1, <2>3 DEF p
<1>3. IsMembers(c.defaults) /\ IsMembers(c.methods)
  BY DEF IsClass
<1>4. ASSUME NEW i \in 1..Len(c.defaults)
      PROVE  /\ IsValue(v) => Grows(c, [c EXCEPT !.defaults[i].val = v])
             /\ Grows(c, [c EXCEPT !.defaults[i].attrs = v])
             /\ [c EXCEPT !.defaults[i].val = v].locked = c.locked
             /\ [c EXCEPT !.defaults[i].attrs = v].locked = c.locked
  <2> DEFINE s == [c.defaults EXCEPT ![i].val = v]
             t == [c.defaults EXCEPT ![i].attrs = v]
  <2>1. IsValue(v) => IsMembers(s) /\ Len(s) = Len(c.defaults)
    BY <1>3, MembersSet
  <2>2. IsMembers(t) /\ Len(t) = Len(c.defaults)
    BY <1>3, MembersAttrs
  <2>3. [c EXCEPT !.defaults[i].val = v] = [c EXCEPT !.defaults = s] /\ [c EXCEPT !.defaults[i].attrs = v] = [c EXCEPT !.defaults = t]
    OBVIOUS
  <2>4. "locked" \in DOMAIN c
    BY DEF IsClass
  <2> HIDE DEF s, t
  <2>5. [c EXCEPT !.defaults = s].locked = c.locked /\ [c EXCEPT !.defaults = t].locked = c.locked
    BY <2>4
  <2> QED BY <1>1, <2>1, <2>2, <2>3, <2>5
<1>5. ASSUME NEW i \in 1..Len(c.methods)
      PROVE  /\ IsValue(v) => Grows(c, [c EXCEPT !.methods[i].val = v])
             /\ Grows(c, [c EXCEPT !.methods[i].attrs = v])
             /\ [c EXCEPT !.methods[i].val = v].locked = c.locked
             /\ [c EXCEPT !.methods[i].attrs = v].locked = c.locked
  <2> DEFINE s == [c.methods EXCEPT ![i].val = v]
             t == [c.methods EXCEPT ![i].attrs = v]
  <2>1. IsValue(v) => IsMembers(s) /\ Len(s) = Len(c.methods)
    BY <1>3, MembersSet
  <2>2. IsMembers(t) /\ Len(t) = Len(c.methods)
    BY <1>3, MembersAttrs
  <2>3. [c EXCEPT !.methods[i].val = v] = [c EXCEPT !.methods = s] /\ [c EXCEPT !.methods[i].attrs = v] = [c EXCEPT !.methods = t]
    OBVIOUS
  <2>4. "locked" \in DOMAIN c
    BY DEF IsClass
  <2> HIDE DEF s, t
  <2>5. [c EXCEPT !.methods = s].locked = c.locked /\ [c EXCEPT !.methods = t].locked = c.locked
    BY <2>4
  <2> QED BY <1>2, <2>1, <2>2, <2>3, <2>5
<1> QED BY <1>4, <1>5


\* A new member, at the end of the fields or of the methods, under a key that is no field.
LEMMA ClassMember ==
  ASSUME NEW c, NEW p, IsClass(c), NEW k, NEW f \in BOOLEAN, NEW n \in Nat,
         At(c.members, k) = Absent \/ ~At(c.members, k).field,
         DOMAIN p = DOMAIN c, p.t = c.t, p.base = c.base, p.locked = c.locked, p.meta = c.meta, p.udsize = c.udsize,
         p.members = With(c.members, k, [field |-> f, idx |-> n]),
         IsMembers(p.defaults), IsMembers(p.methods),
         IF f THEN n = Len(c.defaults) + 1 /\ Len(p.defaults) = n /\ p.methods = c.methods /\ p.ctor = c.ctor /\ ~c.locked
         ELSE n = Len(c.methods) + 1 /\ Len(p.methods) = n /\ p.defaults = c.defaults /\ p.ctor \in {c.ctor, n}
  PROVE  Grows(c, p)
<1> DEFINE new == [field |-> f, idx |-> n]
           ms == c.members
           nd == Len(c.defaults)
           nm == Len(c.methods)
<1>1. nd \in Nat /\ nm \in Nat
  BY SeqDomain DEF IsClass, IsMembers
<1>2. DOMAIN p.members = DOMAIN ms \cup {k} /\ p.members[k] = new /\ \A l \in DOMAIN ms : l # k => p.members[l] = ms[l]
  BY DEF With
<1>3. new \in [field : BOOLEAN, idx : Nat \ {0}] /\ new.field = f /\ new.idx = n
  BY <1>1
<1>4. \A l \in DOMAIN ms : /\ ms[l] \in [field : BOOLEAN, idx : Nat \ {0}]
                           /\ ms[l].idx <= Len(IF ms[l].field THEN c.defaults ELSE c.methods)
  BY DEF IsClass
<1>5. Len(p.defaults) >= nd /\ Len(p.methods) >= nm /\ Len(p.defaults) \in Nat /\ Len(p.methods) \in Nat
  BY <1>1
<1>6. p.ctor \in Int /\ p.ctor <= Len(p.methods)
  BY <1>1 DEF IsClass
<1> HIDE DEF new, ms
<1>7. \A l \in DOMAIN ms : /\ ms[l].field \in BOOLEAN /\ ms[l].idx \in Nat
                           /\ ms[l].field => ms[l].idx <= nd
                           /\ ~ms[l].field => ms[l].idx <= nm
  BY <1>4
<1>8. \A l \in DOMAIN ms : ms[l] # new
  <2> SUFFICES ASSUME NEW l \in DOMAIN ms, ms[l] = new PROVE FALSE
    OBVIOUS
  <2>1. CASE f
    <3>1. n = nd + 1
      BY <2>1
    <3>2. ms[l].field /\ ms[l].idx = n
      BY <1>3, <2>1
    <3> QED BY <1>1, <1>7, <3>1, <3>2
  <2>2. CASE ~f
    BY <1>1, <1>3, <1>7, <2>2
  <2> QED BY <2>1, <2>2
<1>9. ASSUME NEW l \in DOMAIN p.members
      PROVE  /\ p.members[l] \in [field : BOOLEAN, idx : Nat \ {0}]
             /\ p.members[l].idx <= Len(IF p.members[l].field THEN p.defaults ELSE p.methods)
  <2>1. CASE l = k
    <3>1. CASE f
      <4>1. n = nd + 1 /\ Len(p.defaults) = n
        BY <3>1
      <4>2. p.members[l] = new /\ new.field
        BY <1>2, <1>3, <2>1, <3>1
      <4> QED BY <1>1, <1>3, <4>1, <4>2
    <3>2. CASE ~f
      BY <1>1, <1>2, <1>3, <2>1, <3>2
    <3> QED BY <3>1, <3>2
  <2>2. CASE l # k
    <3>1. l \in DOMAIN ms /\ p.members[l] = ms[l]
      BY <1>2, <2>2
    <3>2. CASE ms[l].field
      BY <1>1, <1>4, <1>5, <1>7, <3>1, <3>2
    <3>3. CASE ~ms[l].field
      BY <1>1, <1>4, <1>5, <1>7, <3>1, <3>3
    <3> QED BY <3>2, <3>3, <1>7, <3>1
  <2> QED BY <2>1, <2>2
<1>10. ASSUME NEW l \in DOMAIN p.members, NEW j \in DOMAIN p.members, p.members[l] = p.members[j] PROVE l = j
  <2>1. \A i, e \in DOMAIN ms : ms[i] = ms[e] => i = e
    BY DEF ms, IsClass
  <2> QED BY <1>2, <1>8, <1>10, <2>1
<1>11. IsClass(p)
  BY <1>6, <1>9, <1>10 DEF IsClass
<1>12. \A l \in DOMAIN ms : ms[l].field => l \in DOMAIN p.members /\ p.members[l] = ms[l]
  <2>1. k \in DOMAIN ms => ms[k] # Absent
    BY <1>4 DEF Absent
  <2>2. k \in DOMAIN ms => ~ms[k].field
    BY <2>1 DEF At, ms
  <2> QED BY <1>2, <2>2
<1>13. c.locked => Len(p.defaults) = Len(c.defaults)
  OBVIOUS
<1> QED BY <1>1, <1>5, <1>11, <1>12, <1>13, ClassGrows DEF ms

\* SQClass::NewSlot lets a class grow.
LEMMA ClassNewSlotGrows ==
  ASSUME NEW c, IsClass(c), NEW k, NEW v, IsStored(v), NEW st \in BOOLEAN, ClassNewSlot(c, k, v, st) # Absent
  PROVE  Grows(c, ClassNewSlot(c, k, v, st)) /\ ClassNewSlot(c, k, v, st).locked = c.locked
<1> DEFINE p == ClassNewSlot(c, k, v, st)
           old == At(c.members, k)
           own == v.t = "closure" \/ st
           method == IF c.base # 0 /\ v.t = "closure" THEN [v EXCEPT !.base = c.base] ELSE v
           n == Len(c.methods) + 1
           d == Len(c.defaults) + 1
<1>1. /\ DOMAIN c = {"t", "base", "members", "defaults", "methods", "meta", "attrs", "locked", "ctor", "udsize", "typetag"}
      /\ IsMembers(c.defaults) /\ IsMembers(c.methods) /\ n \in Nat /\ d \in Nat
  BY SeqDomain DEF IsClass, IsMembers
<1>2. IsValue(v) /\ IsValue(method)
  BY DEF IsStored
<1>3. ~(c.locked /\ ~own)
  BY DEF ClassNewSlot
<1>4. CASE old # Absent /\ old.field
  <2>1. old.idx \in 1..Len(c.defaults)
    BY <1>4, MemberIs
  <2>2. p = [c EXCEPT !.defaults[old.idx].val = v]
    BY <1>3, <1>4 DEF ClassNewSlot
  <2> HIDE DEF p, old
  <2>3. Grows(c, p) /\ p.locked = c.locked
    BY <1>2, <2>1, <2>2, ClassAssign
  <2> QED BY <2>3 DEF p
<1>5. CASE own /\ (old = Absent \/ ~old.field) /\ v.t = "closure" /\ k \in MetaMethods
  <2>1. p = [c EXCEPT !.meta = With(@, k, v)]
    BY <1>3, <1>5 DEF ClassNewSlot
  <2> DEFINE meta == With(c.meta, k, v)
  <2>2. \A l \in DOMAIN meta : IsValue(meta[l]) /\ meta[l].t = "closure"
    BY <1>2, <1>5 DEF With, IsClass
  <2>3. p = [c EXCEPT !.meta = meta]
    BY <2>1
  <2> HIDE DEF p, meta
  <2>4. /\ DOMAIN p = DOMAIN c /\ p.t = c.t /\ p.base = c.base /\ p.locked = c.locked /\ p.members = c.members
        /\ p.ctor = c.ctor /\ p.udsize = c.udsize /\ p.defaults = c.defaults /\ p.methods = c.methods /\ p.meta = meta
    BY <1>1, <2>3
  <2>5. Grows(c, p)
    BY <1>1, <2>2, <2>4, ClassOther
  <2> QED BY <2>4, <2>5 DEF p
<1>6. CASE own /\ old # Absent /\ ~old.field /\ ~(v.t = "closure" /\ k \in MetaMethods)
  <2>1. old.idx \in 1..Len(c.methods)
    BY <1>6, MemberIs
  <2>2. p = [c EXCEPT !.methods[old.idx].val = method]
    BY <1>3, <1>6 DEF ClassNewSlot
  <2> HIDE DEF p, old, method
  <2>3. Grows(c, p) /\ p.locked = c.locked
    BY <1>2, <2>1, <2>2, ClassAssign
  <2> QED BY <2>3 DEF p
<1>7. CASE own /\ old = Absent /\ ~(v.t = "closure" /\ k \in MetaMethods)
  <2> DEFINE ms == With(c.members, k, [field |-> FALSE, idx |-> n])
             s == Append(c.methods, Member(method))
             ct == IF k = "constructor" THEN n ELSE c.ctor
  <2>1. p = [c EXCEPT !.members = With(@, k, [field |-> FALSE, idx |-> n]),
                      !.methods = Append(@, Member(method)),
                      !.ctor = IF k = "constructor" THEN n ELSE @]
    BY <1>3, <1>7 DEF ClassNewSlot
  <2>2. p = [c EXCEPT !.members = ms, !.methods = s, !.ctor = ct]
    BY <2>1
  <2> HIDE DEF method
  <2>3. IsMembers(s) /\ Len(s) = n
    BY <1>1, <1>2, MembersAppend
  <2>4. ct \in {c.ctor, n}
    OBVIOUS
  <2> HIDE DEF p, s, ct
  <2>5. /\ DOMAIN p = DOMAIN c /\ p.t = c.t /\ p.base = c.base /\ p.locked = c.locked /\ p.members = ms
        /\ p.ctor = ct /\ p.udsize = c.udsize /\ p.defaults = c.defaults /\ p.methods = s /\ p.meta = c.meta
    BY <1>1, <2>2
  <2> DEFINE f == FALSE
  <2>6. f \in BOOLEAN /\ ~f /\ ms = With(c.members, k, [field |-> f, idx |-> n])
    OBVIOUS
  <2> HIDE DEF f, ms, n
  <2>7. n = Len(c.methods) + 1
    BY DEF n
  <2>8. Grows(c, p)
    BY <1>1, <1>7, <2>3, <2>4, <2>5, <2>6, <2>7, ClassMember
  <2> QED BY <2>5, <2>8 DEF p
<1>8. CASE ~own /\ (old = Absent \/ ~old.field)
  <2> DEFINE ms == With(c.members, k, [field |-> TRUE, idx |-> d])
             s == Append(c.defaults, Member(v))
  <2>1. p = [c EXCEPT !.members = With(@, k, [field |-> TRUE, idx |-> Len(c.defaults) + 1]),
                      !.defaults = Append(@, Member(v))]
    BY <1>3, <1>8 DEF ClassNewSlot
  <2>2. p = [c EXCEPT !.members = ms, !.defaults = s]
    BY <2>1
  <2>3. IsMembers(s) /\ Len(s) = d
    BY <1>1, <1>2, MembersAppend
  <2> HIDE DEF p, s
  <2>4. /\ DOMAIN p = DOMAIN c /\ p.t = c.t /\ p.base = c.base /\ p.locked = c.locked /\ p.members = ms
        /\ p.ctor = c.ctor /\ p.udsize = c.udsize /\ p.defaults = s /\ p.methods = c.methods /\ p.meta = c.meta
    BY <1>1, <2>2
  <2> DEFINE f == TRUE
  <2>5. f \in BOOLEAN /\ f /\ ms = With(c.members, k, [field |-> f, idx |-> d])
    OBVIOUS
  <2> HIDE DEF f, ms, d
  <2>6. d = Len(c.defaults) + 1 /\ ~c.locked
    BY <1>3, <1>8 DEF d
  <2>7. Grows(c, p)
    BY <1>1, <1>8, <2>3, <2>4, <2>5, <2>6, ClassMember
  <2> QED BY <2>4, <2>7 DEF p
<1>9. old # Absent => old.field \in BOOLEAN
  BY MemberIs
<1> QED BY <1>3, <1>4, <1>5, <1>6, <1>7, <1>8, <1>9

LEMMA SetAttributesGrows ==
  ASSUME NEW c, IsClass(c), NEW k, NEW v
  PROVE  Grows(c, SetAttributes(c, k, v)) /\ SetAttributes(c, k, v).locked = c.locked
<1> DEFINE i == At(c.members, k)
<1>1. CASE i = Absent
  BY <1>1, GrowsSelf DEF SetAttributes, IsObject
<1>2. CASE i # Absent
  <2>1. i.field \in BOOLEAN /\ (i.field => i.idx \in 1..Len(c.defaults)) /\ (~i.field => i.idx \in 1..Len(c.methods))
    BY <1>2, MemberIs
  <2>2. SetAttributes(c, k, v) = IF i.field THEN [c EXCEPT !.defaults[i.idx].attrs = v] ELSE [c EXCEPT !.methods[i.idx].attrs = v]
    BY <1>2 DEF SetAttributes
  <2> HIDE DEF i
  <2> DEFINE a == SetAttributes(c, k, v)
             j == i.idx
  <2> HIDE DEF a, j
  <2>3. CASE i.field
    <3>1. a = [c EXCEPT !.defaults[j].attrs = v] /\ j \in 1..Len(c.defaults)
      BY <2>1, <2>2, <2>3 DEF a, j
    <3>2. Grows(c, a) /\ a.locked = c.locked
      BY <3>1, ClassAssign
    <3> QED BY <3>2 DEF a
  <2>4. CASE ~i.field
    <3>1. a = [c EXCEPT !.methods[j].attrs = v] /\ j \in 1..Len(c.methods)
      BY <2>1, <2>2, <2>4 DEF a, j
    <3>2. Grows(c, a) /\ a.locked = c.locked
      BY <3>1, ClassAssign
    <3> QED BY <3>2 DEF a
  <2> QED BY <2>1, <2>3, <2>4
<1> QED BY <1>1, <1>2

\* Tables grow with their slots, instances with their values.
LEMMA TableGrows ==
  ASSUME NEW o, IsTable(o), NEW s, \A k \in DOMAIN s : IsValue(s[k])
  PROVE  Grows(o, [o EXCEPT !.slots = s])
BY DEF Grows, IsTable, IsObject

LEMMA InstanceGrows ==
  ASSUME NEW o, IsInstance(o), NEW i, NEW v
  PROVE  Grows(o, [o EXCEPT !.values[i] = v])
<1> DEFINE s == [o.values EXCEPT ![i] = v]
           p == [o EXCEPT !.values = s]
<1>1. IsSeq(s) /\ Len(s) = Len(o.values)
  <2> DEFINE w == o.values
  <2>1. IsSeq(w)
    BY DEF IsInstance
  <2> HIDE DEF w
  <2>2. IsSeq([w EXCEPT ![i] = v]) /\ Len([w EXCEPT ![i] = v]) = Len(w)
    BY <2>1, ExceptSeq
  <2> QED BY <2>2 DEF w
<1>2. [o EXCEPT !.values[i] = v] = p
  OBVIOUS
<1> HIDE DEF s
<1>3. DOMAIN p = DOMAIN o /\ p.t = o.t /\ p.class = o.class /\ p.ud = o.ud /\ p.values = s
  BY DEF IsInstance
<1> HIDE DEF p
<1>4. Grows(o, p)
  BY <1>1, <1>3 DEF Grows, IsInstance, IsObject
<1> QED BY <1>2, <1>4


----------------------------------------------------------------------------
(* Get and Set follow delegates, which come to an end.                     *)

LEMMA DelegatesEnd ==
  ASSUME NEW x, Linked(x.heap)
  PROVE  /\ TablesOf(x) = {i \in 1..Len(x.heap) : x.heap[i].t = "table"} /\ 0 \notin TablesOf(x)
         /\ \A i \in TablesOf(x) : x.heap[i].delegate \in {0} \cup TablesOf(x)
         /\ \A i \in TablesOf(x) : x.heap[i].delegate # 0 => x.heap[i].delegate \in TablesOf(x)
         /\ Ends(TablesOf(x), [i \in TablesOf(x) |-> x.heap[i].delegate])
<1>1. TablesOf(x) = {i \in 1..Len(x.heap) : x.heap[i].t = "table"}
  BY SeqDomain DEF Linked, TablesOf
<1>2. 0 \notin TablesOf(x) /\ \A i \in TablesOf(x) : x.heap[i].delegate \in {0} \cup TablesOf(x)
  BY <1>1, SeqDomain DEF Linked
<1> DEFINE next == [i \in TablesOf(x) |-> x.heap[i].delegate]
<1>3. ASSUME NEW S \in SUBSET TablesOf(x), S # {} PROVE \E n \in S : next[n] \notin S
  <2>1. PICK n \in S : x.heap[n].delegate \notin S
    BY <1>1, <1>3 DEF Linked
  <2> QED BY <2>1
<1> QED BY <1>1, <1>2, <1>3 DEF Ends

\* Without a delegate, there is nothing to follow.
LEMMA NothingToFollow ==
  ASSUME NEW x, NEW o, o.t = "table", Obj(x, o).delegate = 0, NEW key, NEW val, NEW v, NEW w
  PROVE  /\ GetFrom(x, o, key, FALSE, FALSE, v) = GetFrom(x, o, key, FALSE, FALSE, w)
         /\ SetFrom(x, o, key, val, FALSE, v) = SetFrom(x, o, key, val, FALSE, w)
<1>1. \A g : FallBackGet(x, o, key, g) = [r |-> R(x, FALSE, Null), fb |-> "no match"]
  BY DEF FallBackGet
<1>2. \A s : FallBackSet(x, o, key, val, s) = [r |-> R(x, FALSE, Null), fb |-> "no match"]
  BY DEF FallBackSet, GetMetaMethod
<1>3. FallBackGet(x, o, key, v) = FallBackGet(x, o, key, w) /\ FallBackSet(x, o, key, val, v) = FallBackSet(x, o, key, val, w)
  BY <1>1, <1>2
<1>4. GetFrom(x, o, key, FALSE, FALSE, v) = GetFrom(x, o, key, FALSE, FALSE, w)
  BY ONLY <1>3 DEF GetFrom
<1>5. SetFrom(x, o, key, val, FALSE, v) = SetFrom(x, o, key, val, FALSE, w)
  BY ONLY <1>3 DEF SetFrom
<1> QED BY <1>4, <1>5

\* at is what Get gives for each table, and Get begins from there.
GetSolves(x, key, at) ==
  /\ \A i \in TablesOf(x) : at[i] = GetFrom(x, Ref("table", i), key, FALSE, FALSE, at[x.heap[i].delegate])
  /\ \A o, root : Get(x, o, key, FALSE, root) = GetFrom(x, o, key, FALSE, root, at[Obj(x, o).delegate])

LEMMA GetFollows ==
  ASSUME NEW x, Linked(x.heap), NEW key
  PROVE  \E at : GetSolves(x, key, at)
<1> DEFINE D == TablesOf(x)
           next == [i \in D |-> x.heap[i].delegate]
           q == [op |-> "get", x |-> x, key |-> key]
           E(f) == [i \in D |-> GetFrom(x, Ref("table", i), key, FALSE, FALSE, f[x.heap[i].delegate])]
<1>1. \A n \in D : \A v : Via(q, n, v) = GetFrom(x, Ref("table", n), key, FALSE, FALSE, v)
  BY DEF Via
<1>2. \E f : f = [n \in D |-> Via(q, n, f[next[n]])]
  <2>1. Ends(D, next)
    BY DelegatesEnd
  <2>2. Closed(q, D, next)
    <3>1. \A n \in D : next[n] \notin D => next[n] = 0
      BY DelegatesEnd
    <3>2. \A n \in D : next[n] = Obj(x, Ref("table", n)).delegate /\ Ref("table", n).t = "table"
      BY DEF Obj, Ref
    <3> HIDE DEF q, next, D
    <3>3. ASSUME NEW n \in D, next[n] \notin D, NEW v, NEW w PROVE Via(q, n, v) = Via(q, n, w)
      <4> DEFINE o == Ref("table", n)
      <4>1. o.t = "table" /\ Obj(x, o).delegate = 0
        BY <3>1, <3>2, <3>3
      <4> HIDE DEF o
      <4>2. GetFrom(x, o, key, FALSE, FALSE, v) = GetFrom(x, o, key, FALSE, FALSE, w)
        BY <4>1, NothingToFollow
      <4> QED BY <1>1, <4>2 DEF o
    <3> QED BY <3>3 DEF Closed
  <2> HIDE DEF D, next, q
  <2> QED BY <2>1, <2>2, Recursion
<1>3. \E f : f = E(f)
  <2>1. PICK f : f = [n \in D |-> Via(q, n, f[next[n]])]
    BY <1>2
  <2>2. \A n \in D : f[n] = GetFrom(x, Ref("table", n), key, FALSE, FALSE, f[next[n]])
    <3> HIDE DEF q, D, next
    <3> QED BY <1>1, <2>1
  <2>3. f = [n \in D |-> f[n]]
    <3> HIDE DEF q, D, next
    <3> QED BY <2>1
  <2>4. f = E(f)
    <3>1. \A n \in D : f[n] = GetFrom(x, Ref("table", n), key, FALSE, FALSE, f[x.heap[n].delegate])
      BY <2>2
    <3> HIDE DEF D
    <3> QED BY <2>3, <3>1
  <2> QED BY <2>4
<1> DEFINE at == CHOOSE f : f = E(f)
<1>4. at = E(at)
  <2> HIDE DEF E
  <2> QED BY <1>3
<1>5. \A o, root : Get(x, o, key, FALSE, root) = GetFrom(x, o, key, FALSE, root, at[Obj(x, o).delegate])
  BY DEF Get
<1>6. \A i \in D : at[i] = GetFrom(x, Ref("table", i), key, FALSE, FALSE, at[x.heap[i].delegate])
  <2> HIDE DEF at
  <2> QED BY <1>4
<1> HIDE DEF at
<1> QED BY <1>5, <1>6 DEF GetSolves

\* at is what Set gives for each table, and Set begins from there.
SetSolves(x, key, val, at) ==
  /\ \A i \in TablesOf(x) : at[i] = SetFrom(x, Ref("table", i), key, val, FALSE, at[x.heap[i].delegate])
  /\ \A o, root : Set(x, o, key, val, root) = SetFrom(x, o, key, val, root, at[Obj(x, o).delegate])

LEMMA SetFollows ==
  ASSUME NEW x, Linked(x.heap), NEW key, NEW val
  PROVE  \E at : SetSolves(x, key, val, at)
<1> DEFINE D == TablesOf(x)
           next == [i \in D |-> x.heap[i].delegate]
           q == [op |-> "set", x |-> x, key |-> key, val |-> val]
           E(f) == [i \in D |-> SetFrom(x, Ref("table", i), key, val, FALSE, f[x.heap[i].delegate])]
<1>1. \A n \in D : \A v : Via(q, n, v) = SetFrom(x, Ref("table", n), key, val, FALSE, v)
  BY DEF Via
<1>2. \E f : f = [n \in D |-> Via(q, n, f[next[n]])]
  <2>1. Ends(D, next)
    BY DelegatesEnd
  <2>2. Closed(q, D, next)
    <3>1. \A n \in D : next[n] \notin D => next[n] = 0
      BY DelegatesEnd
    <3>2. \A n \in D : next[n] = Obj(x, Ref("table", n)).delegate /\ Ref("table", n).t = "table"
      BY DEF Obj, Ref
    <3> HIDE DEF q, next, D
    <3>3. ASSUME NEW n \in D, next[n] \notin D, NEW v, NEW w PROVE Via(q, n, v) = Via(q, n, w)
      <4> DEFINE o == Ref("table", n)
      <4>1. o.t = "table" /\ Obj(x, o).delegate = 0
        BY <3>1, <3>2, <3>3
      <4> HIDE DEF o
      <4>2. SetFrom(x, o, key, val, FALSE, v) = SetFrom(x, o, key, val, FALSE, w)
        BY <4>1, NothingToFollow
      <4> QED BY <1>1, <4>2 DEF o
    <3> QED BY <3>3 DEF Closed
  <2> HIDE DEF D, next, q
  <2> QED BY <2>1, <2>2, Recursion
<1>3. \E f : f = E(f)
  <2>1. PICK f : f = [n \in D |-> Via(q, n, f[next[n]])]
    BY <1>2
  <2>2. \A n \in D : f[n] = SetFrom(x, Ref("table", n), key, val, FALSE, f[next[n]])
    <3> HIDE DEF q, D, next
    <3> QED BY <1>1, <2>1
  <2>3. f = [n \in D |-> f[n]]
    <3> HIDE DEF q, D, next
    <3> QED BY <2>1
  <2>4. f = E(f)
    <3>1. \A n \in D : f[n] = SetFrom(x, Ref("table", n), key, val, FALSE, f[x.heap[n].delegate])
      BY <2>2
    <3> HIDE DEF D
    <3> QED BY <2>3, <3>1
  <2> QED BY <2>4
<1> DEFINE at == CHOOSE f : f = E(f)
<1>4. at = E(at)
  <2> HIDE DEF E
  <2> QED BY <1>3
<1>5. \A o, root : Set(x, o, key, val, root) = SetFrom(x, o, key, val, root, at[Obj(x, o).delegate])
  BY DEF Set
<1>6. \A i \in D : at[i] = SetFrom(x, Ref("table", i), key, val, FALSE, at[x.heap[i].delegate])
  <2> HIDE DEF at
  <2> QED BY <1>4
<1> HIDE DEF at
<1> QED BY <1>5, <1>6 DEF SetSolves

\* Following delegates is an induction: what holds of a table whenever it holds of its
\* delegate holds of all.
LEMMA DelegateInduction ==
  ASSUME NEW x, Linked(x.heap), NEW G,
         \A i \in TablesOf(x) : (x.heap[i].delegate # 0 => x.heap[i].delegate \in G) => i \in G
  PROVE  TablesOf(x) \subseteq G
<1> DEFINE T == TablesOf(x) \ G
<1> SUFFICES ASSUME T # {} PROVE FALSE
  OBVIOUS
<1>1. PICK i \in T : x.heap[i].delegate \notin T
  <2>1. T \in SUBSET TablesOf(x) /\ \A n \in T : [j \in TablesOf(x) |-> x.heap[j].delegate][n] = x.heap[n].delegate
    OBVIOUS
  <2> DEFINE next == [j \in TablesOf(x) |-> x.heap[j].delegate]
  <2> HIDE DEF T
  <2>2. \E n \in T : next[n] \notin T
    <3>1. Ends(TablesOf(x), next)
      BY DelegatesEnd
    <3> HIDE DEF next
    <3> QED BY <2>1, <3>1 DEF Ends
  <2> QED BY <2>1, <2>2
<1> QED BY <1>1, DelegatesEnd


LEMMA TupleSeq ==
  ASSUME NEW a, NEW b, NEW c, NEW d, NEW e
  PROVE  /\ IsSeq(<<>>) /\ Len(<<>>) = 0
         /\ IsSeq(<<a>>) /\ Len(<<a>>) = 1
         /\ IsSeq(<<a, b>>) /\ Len(<<a, b>>) = 2
         /\ IsSeq(<<a, b, c>>) /\ Len(<<a, b, c>>) = 3
         /\ IsSeq(<<a, b, c, d>>) /\ Len(<<a, b, c, d>>) = 4
         /\ IsSeq(<<a, b, c, d, e>>) /\ Len(<<a, b, c, d, e>>) = 5
<1> DEFINE S == {a, b, c, d, e}
<1>1. /\ <<>> \in Seq(S) /\ <<a>> \in Seq(S) /\ <<a, b>> \in Seq(S) /\ <<a, b, c>> \in Seq(S)
      /\ <<a, b, c, d>> \in Seq(S) /\ <<a, b, c, d, e>> \in Seq(S)
  OBVIOUS
<1>2. /\ IsSeq(<<>>) /\ IsSeq(<<a>>) /\ IsSeq(<<a, b>>) /\ IsSeq(<<a, b, c>>)
      /\ IsSeq(<<a, b, c, d>>) /\ IsSeq(<<a, b, c, d, e>>)
  <2> HIDE DEF S
  <2> QED BY <1>1, SeqIs
<1> QED BY <1>2

\* y is x after calls that left the heap and the stack alone.
Still(x, y) == IsMachine(y) /\ y.heap = x.heap /\ Len(y.stack) = Len(x.stack) /\ x.entered <= y.entered

LEMMA StillQuiet ==
  ASSUME NEW x, NEW y, NEW r, IsMachine(x), Still(x, y), Quiet(y, r)
  PROVE  Quiet(x, r)
<1>1. x.entered \in Nat /\ y.entered \in Nat /\ r.m.entered \in Nat /\ x.entered <= y.entered /\ y.entered <= r.m.entered
  BY DEF Still, Quiet, IsMachine
<1>2. x.entered <= r.m.entered
  BY <1>1
<1> QED BY <1>2 DEF Still, Quiet

LEMMA FailIs ==
  ASSUME NEW x, NEW y, Still(x, y)
  PROVE  Quiet(x, Fail(y)) /\ Fail(y).ok = FALSE
<1> DEFINE z == Raise(y)
<1>1. IsMachine(z) /\ z.heap = y.heap /\ z.stack = y.stack /\ z.err = "raised" /\ z.entered = y.entered
  BY RaiseIs DEF Still
<1> HIDE DEF z
<1>2. Fail(y) = [m |-> z, ok |-> FALSE, v |-> Null]
  BY DEF Fail, R, z
<1> QED BY <1>1, <1>2 DEF Quiet, Still

LEMMA DoneIs ==
  ASSUME NEW x, NEW y, Still(x, y), NEW v
  PROVE  Quiet(x, R(y, TRUE, v))
BY DEF Quiet, Still, R

LEMMA StillSelf ==
  ASSUME NEW x, IsMachine(x)
  PROVE  Still(x, x)
BY DEF Still, IsMachine

\* What Get falls back on leaves things alone.
LEMMA FallBackGetIs ==
  ASSUME NEW x, IsMachine(x), Linked(x.heap), NEW o, IsRef(x, o), NEW key, NEW g,
         o.t = "table" /\ Obj(x, o).delegate # 0 => Quiet(x, g)
  PROVE  LET f == FallBackGet(x, o, key, g)
         IN /\ f.fb \in {"ok", "error", "no match"} /\ Still(x, f.r.m)
            /\ f.fb \in {"ok", "error"} => Quiet(x, f.r)
<1> DEFINE f == FallBackGet(x, o, key, g)
           d == Obj(x, o).delegate
           y == IF o.t = "table" THEN g.m ELSE x
           mm == GetMetaMethod(y, o, "_get")
           c == CallMetaMethod(y, mm, <<o, key>>)
<1> SUFFICES /\ f.fb \in {"ok", "error", "no match"} /\ Still(x, f.r.m)
             /\ f.fb \in {"ok", "error"} => Quiet(x, f.r)
  OBVIOUS
<1>1. Still(x, x)
  BY StillSelf
<1>2. CASE o.t \notin {"table", "instance"} \/ (o.t = "table" /\ d = 0)
  <2>1. f = [r |-> R(x, FALSE, Null), fb |-> "no match"]
    BY <1>2 DEF FallBackGet
  <2> HIDE DEF f
  <2>2. f.fb = "no match" /\ f.r.m = x
    BY <2>1 DEF R
  <2> QED BY <1>1, <2>2
<1>3. CASE o.t = "table" /\ d # 0 /\ g.ok
  <2>1. f = [r |-> g, fb |-> "ok"]
    BY <1>3 DEF FallBackGet
  <2> HIDE DEF f
  <2>2. f.fb = "ok" /\ f.r = g
    BY <2>1
  <2> QED BY <1>3, <2>2 DEF Still, Quiet
<1>4. CASE o.t = "instance" \/ (o.t = "table" /\ d # 0 /\ ~g.ok)
  <2>1. f = IF mm = Absent THEN [r |-> R(y, FALSE, Null), fb |-> "no match"]
            ELSE [r |-> c, fb |-> CASE c.ok -> "ok"
                                    [] ~c.ok /\ c.m.err # "none" -> "error"
                                    [] OTHER -> "no match"]
    BY <1>4 DEF FallBackGet
  <2>2. Still(x, y)
    BY <1>1, <1>4 DEF Still, Quiet
  <2>3. IsMachine(y) /\ Linked(y.heap) /\ IsRef(y, o) /\ IsSeq(<<o, key>>) /\ "_get" \in MetaMethods
    BY <2>2, TupleSeq DEF Still, IsRef, MetaMethods
  <2> HIDE DEF y
  <2>4. mm # Absent => Quiet(y, c)
    BY <2>3, CallMetaMethodIs
  <2>5. mm # Absent => Quiet(x, c)
    BY <2>2, <2>4, StillQuiet
  <2> HIDE DEF mm, c, f
  <2>6. CASE mm = Absent
    <3>1. f.fb = "no match" /\ f.r.m = y
      BY <2>1, <2>6 DEF R
    <3> QED BY <2>2, <3>1
  <2>7. CASE mm # Absent
    <3> DEFINE b == CASE c.ok -> "ok" [] ~c.ok /\ c.m.err # "none" -> "error" [] OTHER -> "no match"
    <3>1. b \in {"ok", "error", "no match"}
      BY <2>5, <2>7 DEF Quiet
    <3>2. f = [r |-> c, fb |-> b]
      BY <2>1, <2>7
    <3> HIDE DEF b
    <3>3. f.r = c /\ f.fb = b
      BY <3>2
    <3> QED BY <2>5, <2>7, <3>1, <3>3 DEF Still, Quiet
  <2> QED BY <2>6, <2>7
<1> QED BY <1>2, <1>3, <1>4

LEMMA GetFromIs ==
  ASSUME NEW x, IsMachine(x), Linked(x.heap), NEW o, IsRef(x, o), NEW key, NEW root, NEW g,
         o.t = "table" /\ Obj(x, o).delegate # 0 => Quiet(x, g)
  PROVE  Quiet(x, GetFrom(x, o, key, FALSE, root, g))
<1> DEFINE own == Own(x, o, key)
           f == FallBackGet(x, o, key, g)
           y == f.r.m
           atroot == At(y.heap[1].slots, key)
           r == GetFrom(x, o, key, FALSE, root, g)
<1>1. f.fb \in {"ok", "error", "no match"} /\ Still(x, y) /\ (f.fb \in {"ok", "error"} => Quiet(x, f.r))
  BY FallBackGetIs
<1>2. CASE own # Absent
  <2>1. r = R(x, TRUE, own)
    BY <1>2 DEF GetFrom
  <2>2. Still(x, x)
    BY StillSelf
  <2> HIDE DEF own, r
  <2>3. Quiet(x, r)
    BY <2>1, <2>2, DoneIs
  <2> QED BY <2>3 DEF r
<1>3. CASE own = Absent /\ f.fb \in {"ok", "error"}
  <2>1. r = f.r
    BY <1>3 DEF GetFrom
  <2> QED BY <1>1, <1>3, <2>1
<1>4. CASE own = Absent /\ f.fb = "no match"
  <2>1. r = IF key \in DefaultDelegate(o.t) THEN R(y, TRUE, Str)
            ELSE IF root /\ atroot # Absent THEN R(y, TRUE, atroot) ELSE Fail(y)
    BY <1>4 DEF GetFrom
  <2>2. r \in {R(y, TRUE, Str), R(y, TRUE, atroot), Fail(y)}
    BY <2>1
  <2> HIDE DEF r, y, atroot
  <2>3. Quiet(x, r)
    BY <1>1, <2>2, DoneIs, FailIs
  <2> QED BY <2>3 DEF r
<1> QED BY <1>1, <1>2, <1>3, <1>4

\* Get leaves the heap and the stack alone, however many metamethods run.
LEMMA GetIs ==
  ASSUME NEW x, IsMachine(x), Linked(x.heap), NEW o, IsRef(x, o), NEW key, NEW root
  PROVE  Quiet(x, Get(x, o, key, FALSE, root))
<1>1. PICK at : GetSolves(x, key, at)
  BY GetFollows
<1> DEFINE G == {i \in TablesOf(x) : Quiet(x, at[i])}
<1>2. ASSUME NEW i \in TablesOf(x), x.heap[i].delegate # 0 => x.heap[i].delegate \in G PROVE i \in G
  <2> DEFINE p == Ref("table", i)
             g == at[x.heap[i].delegate]
             no == FALSE
  <2>1. IsRef(x, p) /\ Obj(x, p) = x.heap[i]
    BY DelegatesEnd DEF IsRef, Ref, Obj
  <2>2. at[i] = GetFrom(x, p, key, FALSE, no, g)
    BY <1>1 DEF GetSolves
  <2>3. Obj(x, p).delegate # 0 => Quiet(x, g)
    BY <1>2, <2>1
  <2> HIDE DEF p, g, no
  <2>4. Quiet(x, at[i])
    BY <2>1, <2>2, <2>3, GetFromIs
  <2> QED BY <2>4
<1>3. TablesOf(x) \subseteq G
  <2> HIDE DEF G
  <2> QED BY <1>2, DelegateInduction
<1> DEFINE g == at[Obj(x, o).delegate]
<1>4. o.t = "table" /\ Obj(x, o).delegate # 0 => Quiet(x, g)
  <2>1. o.t = "table" => o.id \in TablesOf(x) /\ Obj(x, o) = x.heap[o.id]
    BY DelegatesEnd DEF IsRef, Obj
  <2>2. o.t = "table" /\ Obj(x, o).delegate # 0 => Obj(x, o).delegate \in TablesOf(x)
    BY <2>1, DelegatesEnd
  <2> QED BY <1>3, <2>2
<1> HIDE DEF g
<1>5. Quiet(x, GetFrom(x, o, key, FALSE, root, g))
  BY <1>4, GetFromIs
<1> QED BY <1>1, <1>5 DEF g, GetSolves


\* A _set that throws null, which an assignment to key does not overwrite.
StillDeclines(h, key) ==
  \E i \in 1..Len(h) : \/ h[i].t = "class" /\ Declining(At(h[i].meta, "_set"))
                       \/ key # "_set" /\ h[i].t = "table" /\ Declining(At(h[i].slots, "_set"))

\* An object of the heap, by its type.
LEMMA TypedObject ==
  ASSUME NEW h, Linked(h), NEW i \in 1..Len(h)
  PROVE  /\ h[i].t = "table" => IsTable(h[i])
         /\ h[i].t = "class" => IsClass(h[i])
         /\ h[i].t = "instance" => IsInstance(h[i])
         /\ h[i].t \in {"table", "class", "instance"}
BY DEF Linked, IsObject, IsTable, IsClass, IsInstance

\* The parts of the class of an instance.
LEMMA InstanceClass ==
  ASSUME NEW h, Linked(h), Fits(h), NEW i \in 1..Len(h), h[i].t = "instance"
  PROVE  /\ h[i].class \in 1..Len(h) /\ IsClass(h[h[i].class]) /\ IsInstance(h[i])
         /\ Len(h[i].values) = Len(h[h[i].class].defaults)
<1>1. h[i].class \in 1..Len(h) /\ h[h[i].class].t = "class"
  BY DEF Linked
<1> QED BY <1>1, TypedObject DEF Fits

\* An assignment in the object itself.
LEMMA SetOwnIs ==
  ASSUME NEW x, IsMachine(x), Linked(x.heap), Fits(x.heap), NEW o, IsRef(x, o), o.t \in {"table", "instance"},
         NEW key, NEW val, IsValue(val), SetOwn(x, o, key, val) # Absent
  PROVE  LET y == SetOwn(x, o, key, val)
         IN /\ IsMachine(y) /\ y.stack = x.stack /\ y.err = x.err /\ y.entered = x.entered
            /\ Steps(x.heap, y.heap)
            /\ StillDeclines(x.heap, key) => DeclinesIn(y.heap)
<1> DEFINE y == SetOwn(x, o, key, val)
           h == x.heap
           i == o.id
<1>1. i \in 1..Len(h) /\ h[i].t = o.t /\ Obj(x, o) = h[i] /\ IsSeq(h)
  BY DEF IsRef, Obj, Linked
<1>2. ASSUME NEW p, Grows(h[i], p), h[i].t # "class", y = Put(x, o, p),
             \A k \in {"_set"} : h[i].t = "table" /\ key # k => At(p.slots, k) = At(h[i].slots, k)
      PROVE  /\ IsMachine(y) /\ y.stack = x.stack /\ y.err = x.err /\ y.entered = x.entered
             /\ Steps(h, y.heap)
             /\ StillDeclines(h, key) => DeclinesIn(y.heap)
  <2> HIDE DEF y
  <2>1. IsMachine(y) /\ y.stack = x.stack /\ y.err = x.err /\ y.entered = x.entered /\ y.heap = [h EXCEPT ![i] = p]
    BY <1>2, PutIs
  <2> HIDE DEF h, i
  <2>2. Steps(h, y.heap)
    BY <1>1, <1>2, <2>1, StepsPut DEF h
  <2>3. Len(y.heap) = Len(h) /\ y.heap[i] = p /\ \A j \in 1..Len(h) : j # i => y.heap[j] = h[j]
    BY <1>1, <2>1, ExceptSeq
  <2>4. p.t = h[i].t
    BY <1>2 DEF Grows
  <2>5. ASSUME StillDeclines(h, key) PROVE DeclinesIn(y.heap)
    <3>1. PICK j \in 1..Len(h) : \/ h[j].t = "class" /\ Declining(At(h[j].meta, "_set"))
                                 \/ key # "_set" /\ h[j].t = "table" /\ Declining(At(h[j].slots, "_set"))
      BY <2>5 DEF StillDeclines
    <3>2. CASE j # i
      BY <2>3, <3>1, <3>2 DEF DeclinesIn
    <3>3. CASE j = i
      BY <1>2, <2>3, <2>4, <3>1, <3>3 DEF DeclinesIn
    <3> QED BY <3>2, <3>3
  <2> QED BY <2>1, <2>2, <2>5
<1>3. CASE o.t = "table"
  <2> DEFINE s == [h[i].slots EXCEPT ![key] = val]
             p == [h[i] EXCEPT !.slots = s]
  <2>1. IsTable(h[i])
    BY <1>1, <1>3, TypedObject
  <2>2. key \in DOMAIN h[i].slots /\ y = Put(x, o, p)
    BY <1>1, <1>3 DEF SetOwn
  <2>3. \A k \in DOMAIN s : IsValue(s[k])
    BY <2>1 DEF IsTable
  <2>4. \A k : key # k => At(s, k) = At(h[i].slots, k)
    BY DEF At
  <2> HIDE DEF s
  <2>5. Grows(h[i], p)
    BY <2>1, <2>3, TableGrows
  <2>6. p.slots = s
    BY <2>1 DEF IsTable
  <2> HIDE DEF p, y, h, i
  <2> QED BY <1>1, <1>2, <1>3, <2>2, <2>4, <2>5, <2>6 DEF y, h
<1>4. CASE o.t = "instance"
  <2> DEFINE n == At(h[h[i].class].members, key)
             p == [h[i] EXCEPT !.values[n.idx] = val]
  <2>1. IsInstance(h[i])
    BY <1>1, <1>4, TypedObject
  <2>2. y = Put(x, o, p)
    BY <1>1, <1>4 DEF SetOwn, InstanceSet
  <2> HIDE DEF n
  <2>3. Grows(h[i], p)
    BY <2>1, InstanceGrows
  <2> HIDE DEF p, y, h, i
  <2> QED BY <1>1, <1>2, <1>4, <2>2, <2>3 DEF y, h
<1> QED BY <1>3, <1>4

\* The result r of an assignment to key in x.
Writes(x, key, r) ==
  /\ DOMAIN r = {"m", "ok", "v"} /\ r.ok \in BOOLEAN
  /\ IsMachine(r.m) /\ x.entered <= r.m.entered
  /\ Steps(x.heap, r.m.heap)
  /\ ~r.ok => r.m.heap = x.heap /\ r.m.err # "none" /\ (~NotCallableIn(x.heap) => r.m.err # "stale")
  /\ Len(x.stack) <= Len(r.m.stack)
  /\ Len(r.m.stack) = Len(x.stack) \/ StillDeclines(x.heap, key)
  /\ StillDeclines(x.heap, key) => DeclinesIn(r.m.heap)

\* y is x after calls of _set that gave nothing.
Tried(x, key, y) ==
  /\ IsMachine(y) /\ y.heap = x.heap /\ x.entered <= y.entered
  /\ Len(x.stack) <= Len(y.stack) /\ (Len(y.stack) = Len(x.stack) \/ StillDeclines(x.heap, key))

LEMMA StillDeclinesIs ==
  ASSUME NEW h, NEW key, StillDeclines(h, key)
  PROVE  DeclinesIn(h)
BY DEF StillDeclines, DeclinesIn

LEMMA TriedSelf ==
  ASSUME NEW x, IsMachine(x), NEW key
  PROVE  Tried(x, key, x)
<1>1. x.entered <= x.entered /\ Len(x.stack) <= Len(x.stack)
  BY SeqDomain DEF IsMachine
<1> QED BY <1>1 DEF Tried

\* An attempt ends well without touching the heap, or fails with an error.
LEMMA TriedWrites ==
  ASSUME NEW x, Linked(x.heap), Fits(x.heap), NEW key, NEW y, Tried(x, key, y), NEW r, DOMAIN r = {"m", "ok", "v"}, r.ok \in BOOLEAN,
         r.m = y, ~r.ok => y.err # "none" /\ (~NotCallableIn(x.heap) => y.err # "stale")
  PROVE  Writes(x, key, r)
<1>1. Steps(x.heap, y.heap)
  BY StepsNone DEF Tried
<1>2. StillDeclines(x.heap, key) => DeclinesIn(y.heap)
  BY StillDeclinesIs DEF Tried
<1> QED BY <1>1, <1>2 DEF Tried, Writes

\* What stands for _set.
LEMMA SetMetaMethodIs ==
  ASSUME NEW x, Linked(x.heap), NEW o, IsRef(x, o), NEW key, GetMetaMethod(x, o, "_set") # Absent
  PROVE  LET mm == GetMetaMethod(x, o, "_set")
         IN /\ IsValue(mm) /\ (mm.t # "closure" => NotCallableIn(x.heap) /\ o.t = "table")
            /\ o.t = "table" => Obj(x, o).delegate # 0 /\ "_set" \in DOMAIN x.heap[Obj(x, o).delegate].slots
            /\ Declining(mm) /\ (o.t = "table" => key # "_set") => StillDeclines(x.heap, key)
<1> DEFINE p == x.heap[o.id]
           mm == GetMetaMethod(x, o, "_set")
<1>1. IsObject(p) /\ p.t = o.t /\ Obj(x, o) = p /\ o.id \in 1..Len(x.heap)
  BY DEF Linked, IsRef, Obj
<1>2. IsValue(mm) /\ (mm.t # "closure" => NotCallableIn(x.heap))
  BY MetaMethodIs DEF MetaMethods
<1>3. CASE o.t = "table"
  <2> DEFINE d == p.delegate
  <2>1. d # 0 /\ mm = At(x.heap[d].slots, "_set")
    BY <1>1, <1>3 DEF GetMetaMethod
  <2>2. d \in 1..Len(x.heap) /\ x.heap[d].t = "table"
    BY <1>1, <1>3, <2>1 DEF Linked, IsRef
  <2>3. "_set" \in DOMAIN x.heap[d].slots
    BY <2>1 DEF At
  <2> QED BY <1>1, <1>2, <1>3, <2>1, <2>2, <2>3 DEF StillDeclines
<1>4. CASE o.t = "instance"
  <2> DEFINE c == p.class
  <2>1. mm = At(x.heap[c].meta, "_set")
    BY <1>1, <1>4 DEF GetMetaMethod
  <2>2. c \in 1..Len(x.heap) /\ x.heap[c].t = "class"
    <3> HIDE DEF mm
    <3> QED BY <1>1, <1>4 DEF Linked
  <2>3. IsClass(x.heap[c])
    BY <2>2, TypedObject
  <2>4. mm.t = "closure"
    <3> DEFINE f == x.heap[c].meta
               set == "_set"
    <3>1. \A k \in DOMAIN f : f[k].t = "closure"
      BY ONLY <2>3 DEF IsClass
    <3>2. mm # Absent /\ mm = At(f, set)
      BY <2>1
    <3> HIDE DEF f, set, mm
    <3> QED BY ONLY <3>1, <3>2 DEF At
  <2> QED BY <1>1, <1>2, <1>4, <2>1, <2>2, <2>4 DEF StillDeclines
<1> QED BY <1>3, <1>4 DEF GetMetaMethod


\* What Set falls back on: the delegate, then _set.
LEMMA FallBackSetIs ==
  ASSUME NEW x, IsMachine(x), Linked(x.heap), Fits(x.heap), NEW o, IsRef(x, o), o.t \in {"table", "instance"},
         NEW key, NEW val, NEW s,
         o.t = "table" /\ Obj(x, o).delegate # 0 =>
           Writes(x, key, s) /\ (key \in DOMAIN x.heap[Obj(x, o).delegate].slots => s.ok)
  PROVE  LET f == FallBackSet(x, o, key, val, s)
         IN /\ f.fb \in {"ok", "error", "no match"}
            /\ f.fb = "no match" => Tried(x, key, f.r.m)
            /\ f.fb = "ok" => Writes(x, key, f.r) /\ f.r.ok
            /\ f.fb = "error" => Writes(x, key, f.r) /\ ~f.r.ok
            /\ f.fb = "ok" /\ f.r.m.entered = x.entered => o.t = "table" /\ Obj(x, o).delegate # 0 /\ s.ok /\ f.r = s
<1> DEFINE f == FallBackSet(x, o, key, val, s)
           d == Obj(x, o).delegate
           y == IF o.t = "table" /\ d # 0 THEN s.m ELSE x
           mm == GetMetaMethod(y, o, "_set")
           z == Push(Push(Push(y, o), key), val)
           c == Call(z, mm)
<1> SUFFICES /\ f.fb \in {"ok", "error", "no match"}
             /\ f.fb = "no match" => Tried(x, key, f.r.m)
             /\ f.fb = "ok" => Writes(x, key, f.r) /\ f.r.ok
             /\ f.fb = "error" => Writes(x, key, f.r) /\ ~f.r.ok
             /\ f.fb = "ok" /\ f.r.m.entered = x.entered => o.t = "table" /\ d # 0 /\ s.ok /\ f.r = s
  OBVIOUS
<1>1. CASE o.t = "table" /\ d # 0 /\ s.ok
  <2>1. f = [r |-> s, fb |-> "ok"]
    BY <1>1 DEF FallBackSet
  <2> HIDE DEF f
  <2>2. f.r = s /\ f.fb = "ok"
    BY <2>1
  <2> QED BY <1>1, <2>2
<1>2. CASE ~(o.t = "table" /\ d # 0 /\ s.ok)
  <2>1. Tried(x, key, y)
    <3>1. CASE o.t = "table" /\ d # 0
      BY <1>2, <3>1 DEF Writes, Tried
    <3>2. CASE ~(o.t = "table" /\ d # 0)
      BY <3>2, TriedSelf
    <3> QED BY <3>1, <3>2
  <2>2. IsMachine(y) /\ y.heap = x.heap /\ Linked(y.heap) /\ IsRef(y, o)
    BY <2>1 DEF Tried, IsRef
  <2>3. Obj(y, o) = Obj(x, o) /\ GetMetaMethod(y, o, "_set") = GetMetaMethod(x, o, "_set")
    <3> HIDE DEF y
    <3>1. y.heap = x.heap
      BY <2>2
    <3> QED BY ONLY <3>1 DEF GetMetaMethod, Obj
  <2>4. o.t = "table" /\ d # 0 => y.err # "none" /\ key \notin DOMAIN x.heap[d].slots /\ (~NotCallableIn(x.heap) => y.err # "stale")
    BY <1>2 DEF Writes
  <2>5. CASE mm = Absent
    <3>1. f = [r |-> R(y, FALSE, Null), fb |-> "no match"]
      BY <1>2, <2>5 DEF FallBackSet
    <3> HIDE DEF f, y
    <3>2. f.fb = "no match" /\ f.r.m = y
      BY <3>1 DEF R
    <3> QED BY <2>1, <3>2
  <2>6. CASE mm # Absent
    <3>1. f = CASE c.ok -> [r |-> [c EXCEPT !.m = Pop(@, 3)], fb |-> "ok"]
                [] ~c.ok /\ c.m.err # "none" -> [r |-> [c EXCEPT !.m = Pop(@, 3)], fb |-> "error"]
                [] OTHER -> [r |-> c, fb |-> "no match"]
      BY <1>2, <2>6 DEF FallBackSet
    <3> HIDE DEF f, y
    <3>2. /\ IsValue(mm) /\ (mm.t # "closure" => NotCallableIn(x.heap) /\ o.t = "table")
          /\ o.t = "table" => d # 0 /\ "_set" \in DOMAIN x.heap[d].slots
          /\ Declining(mm) /\ (o.t = "table" => key # "_set") => StillDeclines(x.heap, key)
      <4>1. mm = GetMetaMethod(x, o, "_set")
        BY <2>3
      <4> HIDE DEF mm
      <4> QED BY <2>6, <4>1, SetMetaMethodIs
    <3>3. Declining(mm) => StillDeclines(x.heap, key)
      <4> HIDE DEF mm, d
      <4> QED BY <2>4, <3>2
    <3> HIDE DEF mm
    <3>4. Restacked(y, Push(y, o), 1)
      BY <2>2, PushIs
    <3> DEFINE y2 == Push(y, o)
               y3 == Push(y2, key)
    <3> HIDE DEF y2, y3
    <3>5. Restacked(y2, y3, 1)
      BY <3>4, PushIs DEF Restacked, y2, y3
    <3>6. Restacked(y3, z, 1)
      <4>1. z = Push(y3, val)
        BY DEF y2, y3
      <4> HIDE DEF z
      <4> QED BY <3>5, <4>1, PushIs DEF Restacked
    <3> HIDE DEF z
    <3>7. /\ IsMachine(z) /\ z.heap = x.heap /\ z.err = y.err /\ z.entered = y.entered
          /\ Len(y.stack) \in Nat /\ Len(z.stack) = Len(y.stack) + 3
      <4>1. Len(y.stack) \in Nat
        BY <2>2, SeqDomain DEF IsMachine
      <4>2. Len(y2.stack) = Len(y.stack) + 1 /\ Len(y3.stack) = Len(y2.stack) + 1 /\ Len(z.stack) = Len(y3.stack) + 1
        BY <3>4, <3>5, <3>6 DEF Restacked, y2
      <4>3. Len(z.stack) = Len(y.stack) + 3
        BY <4>1, <4>2
      <4> QED BY <2>2, <3>4, <3>5, <3>6, <4>1, <4>3 DEF Restacked, y2
    <3>8. /\ DOMAIN c = {"m", "ok", "v"} /\ c.ok \in BOOLEAN
          /\ IsMachine(c.m) /\ c.m.heap = z.heap /\ c.m.stack = z.stack
          /\ mm.t = "closure" => /\ c.m.entered = z.entered + 1
                                 /\ ~c.ok => c.m.err \in {"thrown", "none"}
                                 /\ ~c.ok /\ c.m.err = "none" => Declining(mm)
          /\ mm.t # "closure" => c.m = z /\ ~c.ok
      BY <3>2, <3>7, CallIs
    <3> HIDE DEF c
    <3> DEFINE r == [c EXCEPT !.m = Pop(@, 3)]
               w == Pop(c.m, 3)
    <3>9. Restacked(c.m, w, -3)
      <4> DEFINE n == 3
      <4>1. n \in Nat /\ n <= Len(c.m.stack)
        BY <3>7, <3>8
      <4> HIDE DEF n
      <4>2. Restacked(c.m, Pop(c.m, n), -n)
        BY <3>8, <4>1, PopIs
      <4> QED BY <4>2 DEF n
    <3>10. x.entered \in Nat /\ y.entered \in Nat /\ x.entered <= c.m.entered
      <4>1. x.entered \in Nat /\ y.entered \in Nat /\ x.entered <= y.entered
        BY <2>1 DEF Tried, IsMachine
      <4> QED BY <3>7, <3>8, <4>1
    <3>11. DOMAIN r = {"m", "ok", "v"} /\ r.m = w /\ r.ok = c.ok
      BY <3>8
    <3>12. Tried(x, key, w)
      <4>1. Len(w.stack) = Len(y.stack)
        BY <3>7, <3>8, <3>9 DEF Restacked
      <4> QED BY <2>1, <3>7, <3>8, <3>9, <3>10, <4>1 DEF Tried, Restacked
    <3>13. w.err = c.m.err
      BY <3>9 DEF Restacked
    <3>14. ~c.ok /\ ~NotCallableIn(x.heap) => c.m.err # "stale"
      BY <3>2, <3>8
    <3> HIDE DEF r, w
    <3>15. CASE c.ok
      <4>1. f.r = r /\ f.fb = "ok"
        BY <3>1, <3>15 DEF r
      <4>2. Writes(x, key, r)
        BY <3>8, <3>11, <3>12, <3>15, TriedWrites
      <4>3. r.m.entered = c.m.entered
        BY <3>9, <3>11 DEF Restacked
      <4>4. mm.t = "closure" /\ x.entered <= y.entered /\ c.m.entered = y.entered + 1
        BY <2>1, <3>7, <3>8, <3>15 DEF Tried
      <4>5. r.m.entered # x.entered
        BY <3>10, <4>3, <4>4
      <4> QED BY <3>11, <3>15, <4>1, <4>2, <4>5
    <3>16. CASE ~c.ok /\ c.m.err # "none"
      <4>1. f.r = r /\ f.fb = "error"
        BY <3>1, <3>16 DEF r
      <4>2. Writes(x, key, r)
        BY <3>8, <3>11, <3>12, <3>13, <3>14, <3>16, TriedWrites
      <4> QED BY <3>11, <3>16, <4>1, <4>2
    <3>17. CASE ~c.ok /\ c.m.err = "none"
      <4>1. f.r = c /\ f.fb = "no match"
        BY <3>1, <3>17
      <4>2. mm.t = "closure"
        <5> SUFFICES ASSUME mm.t # "closure" PROVE FALSE
          OBVIOUS
        <5>1. o.t = "table" /\ d # 0 /\ c.m = z
          BY <3>2, <3>8
        <5>2. y.err # "none" /\ c.m.err = y.err
          BY <2>4, <3>7, <5>1
        <5> QED BY <3>17, <5>2
      <4>3. StillDeclines(x.heap, key)
        BY <3>3, <3>8, <3>17, <4>2
      <4>4. Len(x.stack) <= Len(c.m.stack)
        <5>1. Len(x.stack) \in Nat /\ Len(x.stack) <= Len(y.stack)
          BY <2>1, SeqDomain DEF IsMachine, Tried
        <5> QED BY <3>7, <3>8, <5>1
      <4>5. Tried(x, key, c.m)
        BY <3>7, <3>8, <3>10, <4>3, <4>4 DEF Tried
      <4> QED BY <4>1, <4>5
    <3> QED BY <3>15, <3>16, <3>17
  <2> QED BY <2>5, <2>6
<1> QED BY <1>1, <1>2

LEMMA SetFromIs ==
  ASSUME NEW x, IsMachine(x), Linked(x.heap), Fits(x.heap), NEW o, IsRef(x, o), NEW key, NEW val, IsValue(val),
         NEW root, NEW s,
         o.t = "table" /\ Obj(x, o).delegate # 0 =>
           Writes(x, key, s) /\ (key \in DOMAIN x.heap[Obj(x, o).delegate].slots => s.ok)
  PROVE  LET r == SetFrom(x, o, key, val, root, s)
         IN Writes(x, key, r) /\ (o.t = "table" /\ key \in DOMAIN x.heap[o.id].slots => r.ok)
<1> DEFINE own == SetOwn(x, o, key, val)
           f == FallBackSet(x, o, key, val, s)
           one == Ref("table", 1)
           rt == SetOwn(f.r.m, one, key, val)
           r == SetFrom(x, o, key, val, root, s)
<1> SUFFICES Writes(x, key, r) /\ (o.t = "table" /\ key \in DOMAIN x.heap[o.id].slots => r.ok)
  OBVIOUS
<1>1. ASSUME NEW y, Tried(x, key, y), r = Fail(y) PROVE Writes(x, key, r) /\ r.ok = FALSE
  <2> DEFINE z == Raise(y)
  <2> HIDE DEF r
  <2>1. r = [m |-> z, ok |-> FALSE, v |-> Null]
    BY <1>1 DEF Fail, R
  <2>2. IsMachine(z) /\ z.heap = y.heap /\ z.stack = y.stack /\ z.err = "raised" /\ z.entered = y.entered
    BY <1>1, RaiseIs DEF Tried
  <2> HIDE DEF z
  <2>3. DOMAIN r = {"m", "ok", "v"} /\ r.m = z /\ r.ok = FALSE
    BY <2>1
  <2>4. Tried(x, key, z)
    BY <1>1, <2>2 DEF Tried
  <2>5. Writes(x, key, r)
    BY <2>2, <2>3, <2>4, TriedWrites
  <2> QED BY <2>3, <2>5
<1>2. Tried(x, key, x)
  BY TriedSelf
<1>3. ASSUME NEW y, Tried(x, key, y), NEW p, IsRef(y, p), p.t \in {"table", "instance"},
             SetOwn(y, p, key, val) # Absent, r = R(SetOwn(y, p, key, val), TRUE, Null)
      PROVE  Writes(x, key, r) /\ r.ok
  <2> DEFINE z == SetOwn(y, p, key, val)
  <2> HIDE DEF r
  <2>1. IsMachine(y) /\ y.heap = x.heap
    BY <1>3 DEF Tried
  <2>2. /\ IsMachine(z) /\ z.stack = y.stack /\ z.err = y.err /\ z.entered = y.entered
        /\ Steps(y.heap, z.heap) /\ (StillDeclines(y.heap, key) => DeclinesIn(z.heap))
    BY <1>3, <2>1, SetOwnIs
  <2>3. r = [m |-> z, ok |-> TRUE, v |-> Null]
    BY <1>3 DEF R
  <2> HIDE DEF z
  <2>4. DOMAIN r = {"m", "ok", "v"} /\ r.m = z /\ r.ok = TRUE
    BY <2>3
  <2> QED BY <1>3, <2>1, <2>2, <2>4 DEF Tried, Writes
<1>4. CASE o.t \notin {"table", "instance"}
  <2>1. r = Fail(x)
    BY <1>4 DEF SetFrom
  <2> HIDE DEF r
  <2> QED BY <1>1, <1>2, <1>4, <2>1
<1>5. CASE o.t \in {"table", "instance"} /\ own # Absent
  <2>1. r = R(own, TRUE, Null)
    BY <1>5 DEF SetFrom
  <2> HIDE DEF r
  <2> QED BY <1>2, <1>3, <1>5, <2>1
<1>6. CASE o.t \in {"table", "instance"} /\ own = Absent
  <2>1. r = CASE f.fb = "ok" -> R(f.r.m, TRUE, Null)
              [] f.fb = "error" -> f.r
              [] OTHER -> IF root /\ rt # Absent THEN R(rt, TRUE, Null) ELSE Fail(f.r.m)
    BY <1>6 DEF SetFrom
  <2>2. ~(o.t = "table" /\ key \in DOMAIN x.heap[o.id].slots)
    <3> SUFFICES ASSUME o.t = "table", key \in DOMAIN x.heap[o.id].slots PROVE FALSE
      OBVIOUS
    <3> DEFINE p == [Obj(x, o) EXCEPT !.slots[key] = val]
    <3>1. own = Put(x, o, p)
      BY DEF SetOwn, Obj
    <3> HIDE DEF p, own
    <3>2. IsMachine(own)
      BY <3>1, PutIs
    <3> HIDE DEF own
    <3> QED BY <1>6, <3>2, NotAbsent
  <2>3. /\ f.fb \in {"ok", "error", "no match"}
        /\ f.fb = "no match" => Tried(x, key, f.r.m)
        /\ f.fb = "ok" => Writes(x, key, f.r) /\ f.r.ok
        /\ f.fb = "error" => Writes(x, key, f.r)
    BY <1>6, FallBackSetIs
  <2> HIDE DEF r, f
  <2>4. CASE f.fb = "ok"
    <3>1. r = R(f.r.m, TRUE, Null)
      BY <2>1, <2>4
    <3>2. DOMAIN r = {"m", "ok", "v"} /\ r.m = f.r.m /\ r.ok = TRUE
      BY <3>1 DEF R
    <3> QED BY <2>2, <2>3, <2>4, <3>2 DEF Writes
  <2>5. CASE f.fb = "error"
    BY <2>1, <2>2, <2>3, <2>5
  <2>6. CASE f.fb = "no match"
    <3>1. r = IF root /\ rt # Absent THEN R(rt, TRUE, Null) ELSE Fail(f.r.m)
      BY <2>1, <2>6
    <3>2. Tried(x, key, f.r.m)
      BY <2>3, <2>6
    <3>3. CASE root /\ rt # Absent
      <4>1. IsRef(f.r.m, one) /\ one.t \in {"table", "instance"}
        <5>1. IsSeq(x.heap) /\ x.heap # <<>> /\ x.heap[1].t = "table"
          BY DEF Linked
        <5>2. PICK S : x.heap \in Seq(S)
          BY <5>1, SeqOver
        <5>3. 1 \in 1..Len(x.heap)
          BY <5>1, <5>2
        <5> QED BY <3>2, <5>1, <5>3 DEF IsRef, Ref, Tried
      <4> HIDE DEF one
      <4>2. r = R(SetOwn(f.r.m, one, key, val), TRUE, Null)
        BY <3>1, <3>3
      <4> QED BY <1>3, <2>2, <3>2, <3>3, <4>1, <4>2
    <3>4. CASE ~(root /\ rt # Absent)
      <4>1. r = Fail(f.r.m)
        BY <3>1, <3>4
      <4> QED BY <1>1, <2>2, <3>2, <4>1
    <3> QED BY <3>3, <3>4
  <2> QED BY <2>3, <2>4, <2>5, <2>6
<1> QED BY <1>4, <1>5, <1>6

LEMMA SetAllIs ==
  ASSUME NEW x, IsMachine(x), Linked(x.heap), Fits(x.heap), NEW key, NEW val, IsValue(val), NEW at, SetSolves(x, key, val, at)
  PROVE  \A i \in TablesOf(x) : Writes(x, key, at[i]) /\ (key \in DOMAIN x.heap[i].slots => at[i].ok)
<1> DEFINE G == {i \in TablesOf(x) : Writes(x, key, at[i]) /\ (key \in DOMAIN x.heap[i].slots => at[i].ok)}
<1>1. ASSUME NEW i \in TablesOf(x), x.heap[i].delegate # 0 => x.heap[i].delegate \in G PROVE i \in G
  <2> DEFINE p == Ref("table", i)
             s == at[x.heap[i].delegate]
             no == FALSE
  <2>1. IsRef(x, p) /\ Obj(x, p) = x.heap[i] /\ p.t = "table" /\ p.id = i
    BY DelegatesEnd DEF IsRef, Ref, Obj
  <2>2. at[i] = SetFrom(x, p, key, val, no, s)
    BY DEF SetSolves
  <2>3. Obj(x, p).delegate # 0 => Writes(x, key, s) /\ (key \in DOMAIN x.heap[Obj(x, p).delegate].slots => s.ok)
    BY <1>1, <2>1
  <2> HIDE DEF p, s, no
  <2>4. Writes(x, key, at[i]) /\ (key \in DOMAIN x.heap[i].slots => at[i].ok)
    BY <2>1, <2>2, <2>3, SetFromIs
  <2> QED BY <2>4
<1>2. TablesOf(x) \subseteq G
  <2> HIDE DEF G
  <2> QED BY <1>1, DelegateInduction
<1> QED BY <1>2

\* An assignment changes one object at most, and leaves the stack alone unless a _set throws null.
LEMMA SetIs ==
  ASSUME NEW x, IsMachine(x), Linked(x.heap), Fits(x.heap), NEW o, IsRef(x, o), NEW key, NEW val, IsValue(val), NEW root
  PROVE  Writes(x, key, Set(x, o, key, val, root))
<1>1. PICK at : SetSolves(x, key, val, at)
  BY SetFollows
<1>2. \A i \in TablesOf(x) : Writes(x, key, at[i]) /\ (key \in DOMAIN x.heap[i].slots => at[i].ok)
  BY <1>1, SetAllIs
<1> DEFINE s == at[Obj(x, o).delegate]
<1>3. o.t = "table" /\ Obj(x, o).delegate # 0 => Writes(x, key, s) /\ (key \in DOMAIN x.heap[Obj(x, o).delegate].slots => s.ok)
  <2>1. o.t = "table" => o.id \in TablesOf(x) /\ Obj(x, o) = x.heap[o.id]
    BY DelegatesEnd DEF IsRef, Obj
  <2>2. o.t = "table" /\ Obj(x, o).delegate # 0 => Obj(x, o).delegate \in TablesOf(x)
    BY <2>1, DelegatesEnd
  <2> QED BY <1>2, <2>2
<1> HIDE DEF s
<1>4. Writes(x, key, SetFrom(x, o, key, val, root, s))
  BY <1>3, SetFromIs
<1> QED BY <1>1, <1>4 DEF s, SetSolves


----------------------------------------------------------------------------
(* The invariant, and what every call of the host interface comes to.      *)

\* A handle names a class, and in the classes it serves a field under its key, or a method.
HandleKept(h) ==
  /\ h.class \in Classes /\ h.before \in Nat /\ h.idx \in Nat \ {0} /\ h.before <= Len(m.heap)
  /\ \A c \in Classes : Serves(h, c) =>
       IF h.field THEN h.key \in DOMAIN m.heap[c].members /\ m.heap[c].members[h.key] = [field |-> TRUE, idx |-> h.idx]
       ELSE h.idx <= Len(m.heap[c].methods)
HandlesKept == \A h \in handles : HandleKept(h)

IInv ==
  /\ does \in Outcomes
  /\ IsMachine(m) /\ Linked(m.heap) /\ Fits(m.heap)
  /\ HandlesKept
  /\ EndsCleanly

\* What a call must come to before it returns: x is the machine then.
Settles(op, x, ok, n) ==
  /\ IsMachine(x) /\ Steps(m.heap, x.heap) /\ ok \in BOOLEAN
  /\ Len(x.stack) = n \/ (op \in {"set", "scriptset"} /\ DeclinesIn(x.heap))
  /\ ok \/ x.err # "stale" \/ NotCallableIn(x.heap)

\* What classes a call leaves behind, as far as handles are concerned.
ClassSteps(h, g) ==
  /\ Len(g) \in {Len(h), Len(h) + 1}
  /\ \A i \in 1..Len(h) :
       /\ g[i].t = h[i].t
       /\ h[i].t = "class" =>
            /\ g[i].base = h[i].base /\ Len(h[i].methods) <= Len(g[i].methods)
            /\ \A k \in DOMAIN h[i].members : h[i].members[k].field => k \in DOMAIN g[i].members /\ g[i].members[k] = h[i].members[k]
  /\ Len(g) = Len(h) + 1 /\ g[Len(g)].t = "class" =>
       LET o == g[Len(g)]
       IN \/ o.base = 0
          \/ /\ o.base \in 1..Len(h) /\ h[o.base].t = "class"
             /\ o.members = h[o.base].members /\ Len(o.methods) = Len(h[o.base].methods)

Stepped ==
  IsMachine(m') /\ Linked(m'.heap) /\ Fits(m'.heap) /\ ClassSteps(m.heap, m'.heap) /\ EndsCleanly'

LEMMA Pop1Is ==
  ASSUME NEW x, IsMachine(x), 1 <= Len(x.stack)
  PROVE  LET y == Pop(x, 1)
         IN IsMachine(y) /\ y.heap = x.heap /\ y.err = x.err /\ y.entered = x.entered /\ Len(y.stack) = Len(x.stack) - 1
<1> DEFINE n == 1
<1>1. n \in Nat /\ n <= Len(x.stack)
  OBVIOUS
<1>2. Len(x.stack) \in Nat
  BY SeqDomain DEF IsMachine
<1> HIDE DEF n
<1>3. Restacked(x, Pop(x, n), -n)
  BY <1>1, PopIs
<1> QED BY <1>2, <1>3 DEF n, Restacked

LEMMA Pop2Is ==
  ASSUME NEW x, IsMachine(x), 2 <= Len(x.stack)
  PROVE  LET y == Pop(x, 2)
         IN IsMachine(y) /\ y.heap = x.heap /\ y.err = x.err /\ y.entered = x.entered /\ Len(y.stack) = Len(x.stack) - 2
<1> DEFINE n == 2
<1>1. n \in Nat /\ n <= Len(x.stack)
  OBVIOUS
<1>2. Len(x.stack) \in Nat
  BY SeqDomain DEF IsMachine
<1> HIDE DEF n
<1>3. Restacked(x, Pop(x, n), -n)
  BY <1>1, PopIs
<1> QED BY <1>2, <1>3 DEF n, Restacked

LEMMA StepsClasses ==
  ASSUME NEW h, NEW g, Steps(h, g)
  PROVE  ClassSteps(h, g)
BY DEF Steps, ClassSteps, Grows, Made

LEMMA HostIs ==
  ASSUME IInv, NEW a, IsSeq(a)
  PROVE  IsMachine(Host(a)) /\ Host(a).heap = m.heap /\ Host(a).stack = a /\ Host(a).entered = 0
BY DEF IInv, Host, IsMachine

LEMMA ObjectIs ==
  ASSUME IInv, NEW o \in Objects
  PROVE  /\ o.id \in 1..Len(m.heap) /\ o.t = m.heap[o.id].t /\ o = Ref(o.t, o.id)
         /\ o.t = "table" => IsTable(m.heap[o.id])
         /\ o.t = "class" => IsClass(m.heap[o.id])
         /\ o.t = "instance" => IsInstance(m.heap[o.id])
         /\ o.t \in {"table", "class", "instance"}
<1>1. PICK i \in DOMAIN m.heap : o = Ref(m.heap[i].t, i)
  BY DEF Objects
<1>2. i \in 1..Len(m.heap) /\ o.id = i /\ o.t = m.heap[i].t /\ o = Ref(o.t, o.id)
  BY <1>1, SeqDomain DEF IInv, Linked, Ref
<1> QED BY <1>2, TypedObject DEF IInv

LEMMA ValueIs ==
  ASSUME IInv, NEW v \in Values
  PROVE  IsStored(v) /\ IsValue(v)
BY DEF IInv, Values, IsStored, IsValue, Num, Closure, Outcomes

\* A call that settles takes the invariant along.
LEMMA Returned ==
  ASSUME IInv, NEW op, NEW x, NEW ok, NEW n \in Nat, Settles(op, x, ok, n), Return(op, x, ok, n)
  PROVE  Stepped
<1>1. /\ m' = [x EXCEPT !.stack = <<>>, !.entered = 0, !.err = IF @ = "none" THEN @ ELSE "raised"]
      /\ ret' = [ok |-> ok, fresh |-> x.err # "stale", extra |-> Len(x.stack) - n, set |-> op \in {"set", "scriptset"}]
  BY DEF Return
<1>2. IsMachine(x) /\ Steps(m.heap, x.heap)
  BY DEF Settles
<1>3. IsMachine(m') /\ m'.heap = x.heap
  BY <1>1, <1>2, TupleSeq DEF IsMachine
<1>4. Linked(m'.heap) /\ Fits(m'.heap)
  BY <1>2, <1>3, StepsLinked, StepsFits DEF IInv
<1>5. ClassSteps(m.heap, m'.heap)
  BY <1>2, <1>3, StepsClasses
<1>6. DOMAIN m'.heap = 1..Len(m'.heap)
  BY <1>4, SeqDomain DEF Linked
<1>7. DeclinesIn(m'.heap) => SetDeclines'
  <2> SUFFICES ASSUME DeclinesIn(m'.heap) PROVE SetDeclines'
    OBVIOUS
  <2>1. PICK i \in 1..Len(m'.heap) : \/ m'.heap[i].t = "table" /\ Declining(At(m'.heap[i].slots, "_set"))
                                     \/ m'.heap[i].t = "class" /\ Declining(At(m'.heap[i].meta, "_set"))
    BY DEF DeclinesIn
  <2>2. Declining(At(Slots(i)', "_set"))
    BY <2>1 DEF Slots
  <2> QED BY <1>6, <2>2 DEF SetDeclines, Declining
<1>8. NotCallableIn(m'.heap) => NotCallable'
  BY <1>6 DEF NotCallableIn, NotCallable, Tables, TablesOf
<1>9. Len(x.stack) \in Nat
  BY <1>2, SeqDomain DEF IsMachine
<1>10. Len(x.stack) = n => ret'.extra = 0
  BY <1>1, <1>9
<1>11. Len(x.stack) # n => SetDeclines' /\ ret'.set
  <2>1. ret'.set = (op \in {"set", "scriptset"})
    BY <1>1
  <2> QED BY <1>3, <1>7, <2>1 DEF Settles
<1>12. ret'.ok = ok /\ ret'.fresh = (x.err # "stale") /\ ok \in BOOLEAN
  BY <1>1 DEF Settles
<1>13. EndsCleanly'
  BY <1>3, <1>8, <1>10, <1>11, <1>12 DEF EndsCleanly, Settles
<1> QED BY <1>3, <1>4, <1>5, <1>13 DEF Stepped


----------------------------------------------------------------------------
(* Operations that leave the heap alone.                                   *)

LEMMA QuietStill ==
  ASSUME NEW x, NEW r, Quiet(x, r)
  PROVE  Still(x, r.m)
BY DEF Quiet, Still

LEMMA IsEqualIs ==
  ASSUME NEW x, IsMachine(x), Linked(x.heap), NEW a, IsRef(x, a), NEW b
  PROVE  Quiet(x, IsEqual(x, a, b))
<1> DEFINE mm == GetMetaMethod(x, a, "_eq")
           c == CallMetaMethod(x, mm, <<a, b>>)
           e == IsEqual(x, a, b)
<1>1. "_eq" \in MetaMethods /\ IsSeq(<<a, b>>) /\ Still(x, x)
  BY TupleSeq, StillSelf DEF MetaMethods
<1>2. mm # Absent => Quiet(x, c)
  BY <1>1, CallMetaMethodIs
<1>3. CASE a.t # b.t \/ (a.t = b.t /\ (a = b \/ mm = Absent))
  <2> DEFINE u == Bool(FALSE)
             v == Bool(a = b)
  <2>1. e \in {R(x, TRUE, u), R(x, TRUE, v)}
    BY <1>3 DEF IsEqual
  <2> HIDE DEF e, u, v
  <2>2. Quiet(x, e)
    BY ONLY <1>1, <2>1, DoneIs
  <2> QED BY <2>2 DEF e
<1>4. CASE a.t = b.t /\ a # b /\ mm # Absent
  <2>1. e = CASE ~c.ok -> R(c.m, TRUE, Bool(FALSE))
              [] c.ok /\ c.v.t # "bool" -> Fail(c.m)
              [] OTHER -> R(c.m, TRUE, Bool(~c.v.b))
    BY <1>4 DEF IsEqual
  <2>2. Still(x, c.m)
    BY <1>2, <1>4, QuietStill
  <2> HIDE DEF e, c, mm
  <2>3. e \in {R(c.m, TRUE, Bool(FALSE)), Fail(c.m), R(c.m, TRUE, Bool(~c.v.b))}
    BY <2>1
  <2>4. Quiet(x, e)
    BY <2>2, <2>3, DoneIs, FailIs
  <2> QED BY <2>4 DEF e
<1> QED BY <1>3, <1>4

LEMMA ObjCmpIs ==
  ASSUME NEW x, IsMachine(x), Linked(x.heap), NEW a, IsRef(x, a), NEW b
  PROVE  Quiet(x, ObjCmp(x, a, b))
<1> DEFINE mm == GetMetaMethod(x, a, "_cmp")
           c == CallMetaMethod(x, mm, <<a, b>>)
           e == ObjCmp(x, a, b)
           n == IF a.t \in {"table", "instance", "class"} /\ a.id > b.id THEN 1 ELSE -1
           k == IF a = Null THEN -1 ELSE 1
<1>1. "_cmp" \in MetaMethods /\ IsSeq(<<a, b>>) /\ Still(x, x)
  BY TupleSeq, StillSelf DEF MetaMethods
<1>2. mm # Absent => Quiet(x, c)
  BY <1>1, CallMetaMethodIs
<1>3. CASE a # b /\ a.t = b.t /\ mm # Absent
  <2>1. e = IF c.ok /\ c.v.t # "integer" THEN Fail(c.m) ELSE c
    BY <1>3 DEF ObjCmp
  <2>2. Still(x, c.m)
    BY <1>2, <1>3, QuietStill
  <2> HIDE DEF e, c, mm
  <2>3. Quiet(x, e)
    BY <1>2, <1>3, <2>1, <2>2, FailIs
  <2> QED BY <2>3 DEF e
<1>4. CASE ~(a # b /\ a.t = b.t /\ mm # Absent)
  <2>1. e \in {R(x, TRUE, Num(0)), R(x, TRUE, Num(n)), R(x, TRUE, Num(k)), Fail(x)}
    BY <1>4 DEF ObjCmp
  <2> HIDE DEF e, n, k
  <2>2. Quiet(x, e)
    BY <1>1, <2>1, DoneIs, FailIs
  <2> QED BY <2>2 DEF e
<1> QED BY <1>3, <1>4

LEMMA ToStrIs ==
  ASSUME NEW x, IsMachine(x), Linked(x.heap), NEW o, IsRef(x, o)
  PROVE  Quiet(x, ToStr(x, o)) /\ Quiet(x, TypeOf(x, o)) /\ Quiet(x, NEG_OP(x, o))
<1>1. {"_tostring", "_typeof", "_unm"} \subseteq MetaMethods /\ IsSeq(<<o>>) /\ Still(x, x)
  BY TupleSeq, StillSelf DEF MetaMethods
<1>2. \A k \in MetaMethods : GetMetaMethod(x, o, k) # Absent => Quiet(x, CallMetaMethod(x, GetMetaMethod(x, o, k), <<o>>))
  BY <1>1, CallMetaMethodIs
<1>3. Quiet(x, ToStr(x, o))
  <2> DEFINE mm == GetMetaMethod(x, o, "_tostring")
             c == CallMetaMethod(x, mm, <<o>>)
             e == ToStr(x, o)
  <2>1. e = IF mm = Absent THEN R(x, TRUE, Str) ELSE IF c.ok THEN R(c.m, TRUE, Str) ELSE c
    BY DEF ToStr
  <2>2. mm # Absent => Quiet(x, c) /\ Still(x, c.m)
    BY <1>1, <1>2, QuietStill
  <2> HIDE DEF e, c, mm
  <2>3. Quiet(x, e)
    BY <1>1, <2>1, <2>2, DoneIs
  <2> QED BY <2>3 DEF e
<1>4. Quiet(x, TypeOf(x, o))
  <2> DEFINE mm == GetMetaMethod(x, o, "_typeof")
             c == CallMetaMethod(x, mm, <<o>>)
             e == TypeOf(x, o)
  <2>1. e = IF mm = Absent THEN R(x, TRUE, Str) ELSE c
    BY DEF TypeOf
  <2>2. mm # Absent => Quiet(x, c)
    BY <1>1, <1>2
  <2> HIDE DEF e, c, mm
  <2>3. Quiet(x, e)
    BY <1>1, <2>1, <2>2, DoneIs
  <2> QED BY <2>3 DEF e
<1>5. Quiet(x, NEG_OP(x, o))
  <2> DEFINE mm == GetMetaMethod(x, o, "_unm")
             c == CallMetaMethod(x, mm, <<o>>)
             e == NEG_OP(x, o)
  <2>1. e = IF mm = Absent THEN Fail(x) ELSE c
    BY DEF NEG_OP
  <2>2. mm # Absent => Quiet(x, c)
    BY <1>1, <1>2
  <2> HIDE DEF e, c, mm
  <2>3. Quiet(x, e)
    BY <1>1, <2>1, <2>2, FailIs
  <2> QED BY <2>3 DEF e
<1> QED BY <1>3, <1>4, <1>5

LEMMA ArithIs ==
  ASSUME NEW x, IsMachine(x), Linked(x.heap), NEW a, IsRef(x, a), NEW b
  PROVE  Quiet(x, ArithMetaMethod(x, a, b))
<1> DEFINE mm == GetMetaMethod(x, a, "_add")
           c == CallMetaMethod(x, mm, <<a, b>>)
           e == ArithMetaMethod(x, a, b)
<1>1. "_add" \in MetaMethods /\ IsSeq(<<a, b>>) /\ Still(x, x)
  BY TupleSeq, StillSelf DEF MetaMethods
<1>2. mm # Absent => Quiet(x, c)
  BY <1>1, CallMetaMethodIs
<1>3. e = IF mm = Absent THEN Fail(x) ELSE c
  BY DEF ArithMetaMethod
<1> HIDE DEF e, c, mm
<1>4. Quiet(x, e)
  BY <1>1, <1>2, <1>3, FailIs
<1> QED BY <1>4 DEF e

\* A host function starts with its arguments on the stack.
LEMMA Starts ==
  ASSUME IInv, NEW a, IsSeq(a)
  PROVE  LET x == Host(a)
         IN /\ IsMachine(x) /\ x.heap = m.heap /\ x.stack = a /\ Linked(x.heap) /\ Fits(x.heap)
            /\ \A o \in Objects : IsRef(x, o) /\ Obj(x, o) = m.heap[o.id]
<1> DEFINE x == Host(a)
<1>1. IsMachine(x) /\ x.heap = m.heap /\ x.stack = a
  BY HostIs
<1> HIDE DEF x
<1>2. \A o \in Objects : IsRef(x, o) /\ Obj(x, o) = m.heap[o.id]
  BY <1>1, ObjectIs DEF IsRef, Obj
<1>3. Linked(x.heap) /\ Fits(x.heap)
  BY <1>1 DEF IInv
<1> QED BY <1>1, <1>2, <1>3 DEF x


----------------------------------------------------------------------------
(* On the way to the return of a call.                                     *)

\* A call has come to machine y, with n values on the stack.
Reaches(y, n) == IsMachine(y) /\ Steps(m.heap, y.heap) /\ Len(y.stack) = n

LEMMA ReachStart ==
  ASSUME IInv, NEW y, IsMachine(y), y.heap = m.heap, NEW n, Len(y.stack) = n
  PROVE  Reaches(y, n)
<1>1. Steps(m.heap, y.heap)
  BY StepsNone DEF IInv
<1> QED BY <1>1 DEF Reaches

LEMMA ReachPop ==
  ASSUME NEW y, NEW n, Reaches(y, n), NEW k \in Nat, k <= n
  PROVE  Reaches(Pop(y, k), n - k) /\ Pop(y, k).heap = y.heap /\ Pop(y, k).err = y.err
<1>1. IsMachine(y) /\ Steps(m.heap, y.heap) /\ Len(y.stack) = n
  BY DEF Reaches
<1>2. Len(y.stack) \in Nat
  BY <1>1, SeqDomain DEF IsMachine
<1>3. Restacked(y, Pop(y, k), -k)
  BY <1>1, PopIs
<1> QED BY <1>1, <1>2, <1>3 DEF Restacked, Reaches

LEMMA ReachPush ==
  ASSUME NEW y, NEW n, Reaches(y, n), NEW v
  PROVE  Reaches(Push(y, v), n + 1) /\ Push(y, v).heap = y.heap /\ Push(y, v).err = y.err
<1>1. IsMachine(y) /\ Steps(m.heap, y.heap) /\ Len(y.stack) = n
  BY DEF Reaches
<1> DEFINE k == 1
<1>2. Restacked(y, Push(y, v), k)
  BY <1>1, PushIs
<1> HIDE DEF k
<1>3. Reaches(Push(y, v), n + k) /\ Push(y, v).heap = y.heap /\ Push(y, v).err = y.err
  BY <1>1, <1>2 DEF Restacked, Reaches
<1> QED BY <1>3 DEF k

LEMMA ReachRaise ==
  ASSUME NEW y, NEW n, Reaches(y, n)
  PROVE  Reaches(Raise(y), n) /\ Raise(y).heap = y.heap /\ Raise(y).err = "raised"
BY RaiseIs DEF Reaches

\* The first object a call assigns to.
LEMMA ReachPut ==
  ASSUME IInv, NEW y, NEW n, Reaches(y, n), y.heap = m.heap, NEW o, o.id \in 1..Len(m.heap), NEW p, Grows(m.heap[o.id], p),
         m.heap[o.id].t = "class" => p.locked = m.heap[o.id].locked
  PROVE  Reaches(Put(y, o, p), n) /\ Put(y, o, p).err = y.err
<1>1. IsMachine(y) /\ Len(y.stack) = n
  BY DEF Reaches
<1> DEFINE z == Put(y, o, p)
<1>2. IsMachine(z) /\ z.heap = [y.heap EXCEPT ![o.id] = p] /\ z.stack = y.stack /\ z.err = y.err
  BY ONLY <1>1, PutIs
<1>3. Steps(m.heap, [m.heap EXCEPT ![o.id] = p])
  BY StepsPut DEF IInv
<1> HIDE DEF z
<1>4. Reaches(z, n) /\ z.err = y.err
  BY <1>1, <1>2, <1>3 DEF Reaches
<1> QED BY <1>4 DEF z

LEMMA ReachReturn ==
  ASSUME IInv, NEW op, NEW y, NEW n, Reaches(y, n), NEW ok \in BOOLEAN, ok \/ y.err # "stale" \/ NotCallableIn(y.heap),
         Return(op, y, ok, n)
  PROVE  Stepped
<1>1. Settles(op, y, ok, n)
  BY DEF Settles, Reaches
<1>2. n \in Nat
  BY SeqDomain DEF Reaches, IsMachine
<1> QED BY <1>1, <1>2, Returned

\* What an operation that leaves the heap alone comes to.
LEMMA ReachQuiet ==
  ASSUME IInv, NEW x, x.heap = m.heap, NEW n, Len(x.stack) = n, NEW r, Quiet(x, r)
  PROVE  /\ Reaches(r.m, n) /\ r.m.heap = m.heap /\ r.ok \in BOOLEAN
         /\ r.ok \/ r.m.err # "stale" \/ NotCallableIn(m.heap)
<1>1. IsMachine(r.m) /\ r.m.heap = m.heap /\ Len(r.m.stack) = n
  BY DEF Quiet
<1>2. r.ok \in BOOLEAN /\ (r.ok \/ r.m.err # "stale" \/ NotCallableIn(m.heap))
  BY DEF Quiet
<1>3. Reaches(r.m, n)
  BY <1>1, ReachStart
<1> QED BY <1>1, <1>2, <1>3

LEMMA GetStep ==
  ASSUME IInv, sq_get
  PROVE  Stepped
<1>1. PICK o \in Objects, k \in keys :
        LET g == Get(Host(<<o, k>>), o, k, FALSE, FALSE)
        IN IF g.ok THEN Return("get", Push(Pop(g.m, 1), g.v), TRUE, 2) ELSE Return("get", Pop(g.m, 1), FALSE, 1)
  BY DEF sq_get
<1> DEFINE x == Host(<<o, k>>)
           no == FALSE
           g == Get(x, o, k, FALSE, no)
           w == g.m
           y == Pop(w, 1)
           z == Push(y, g.v)
<1>2. IF g.ok THEN Return("get", z, TRUE, 2) ELSE Return("get", y, FALSE, 1)
  BY <1>1
<1>3. IsSeq(<<o, k>>) /\ Len(<<o, k>>) = 2
  BY TupleSeq
<1>4. IsMachine(x) /\ x.heap = m.heap /\ Len(x.stack) = 2 /\ Linked(x.heap) /\ IsRef(x, o)
  BY <1>3, Starts
<1> HIDE DEF x, no
<1>5. Quiet(x, g)
  BY <1>4, GetIs
<1> HIDE DEF g
<1>6. Reaches(w, 2) /\ w.heap = m.heap /\ g.ok \in BOOLEAN /\ (g.ok \/ w.err # "stale" \/ NotCallableIn(m.heap))
  BY <1>4, <1>5, ReachQuiet
<1> HIDE DEF w
<1>7. Reaches(y, 1) /\ y.heap = m.heap /\ y.err = w.err
  BY <1>6, ReachPop
<1> HIDE DEF y
<1>8. Reaches(z, 2)
  BY <1>7, ReachPush
<1> HIDE DEF z
<1>9. CASE g.ok
  BY <1>2, <1>8, <1>9, ReachReturn
<1>10. CASE ~g.ok
  BY <1>2, <1>6, <1>7, <1>10, ReachReturn
<1> QED BY <1>9, <1>10

LEMMA RawGetStep ==
  ASSUME IInv, sq_rawget
  PROVE  Stepped
<1>1. PICK o \in Objects, k \in keys :
        LET x == Pop(Host(<<o, k>>), 1)
            v == Own(x, o, k)
        IN IF v # Absent THEN Return("rawget", Push(x, v), TRUE, 2) ELSE Return("rawget", Raise(x), FALSE, 1)
  BY DEF sq_rawget
<1> DEFINE x == Host(<<o, k>>)
           y == Pop(x, 1)
           v == Own(y, o, k)
           z == Push(y, v)
           e == Raise(y)
<1>2. Return("rawget", z, TRUE, 2) \/ Return("rawget", e, FALSE, 1)
  BY <1>1
<1>3. IsSeq(<<o, k>>) /\ Len(<<o, k>>) = 2
  BY TupleSeq
<1>4. IsMachine(x) /\ x.heap = m.heap /\ Len(x.stack) = 2
  BY <1>3, Starts
<1> HIDE DEF x, v
<1>5. Reaches(x, 2)
  BY <1>4, ReachStart
<1>6. Reaches(y, 1)
  BY <1>5, ReachPop
<1> HIDE DEF y
<1>7. Reaches(z, 2) /\ Reaches(e, 1) /\ e.err = "raised"
  BY <1>6, ReachPush, ReachRaise
<1> HIDE DEF z, e
<1> QED BY <1>2, <1>7, ReachReturn

LEMMA ScriptGetStep ==
  ASSUME IInv, ScriptGet
  PROVE  Stepped
<1>1. PICK o \in Objects, k \in keys :
        LET g == Get(Host(<<o>>), o, k, FALSE, TRUE) IN Return("scriptget", g.m, g.ok, 1)
  BY DEF ScriptGet
<1> DEFINE x == Host(<<o>>)
           yes == TRUE
           g == Get(x, o, k, FALSE, yes)
           w == g.m
           ok == g.ok
<1>2. Return("scriptget", w, ok, 1)
  BY <1>1
<1>3. IsSeq(<<o>>) /\ Len(<<o>>) = 1
  BY TupleSeq
<1>4. IsMachine(x) /\ x.heap = m.heap /\ Len(x.stack) = 1 /\ Linked(x.heap) /\ IsRef(x, o)
  BY <1>3, Starts
<1> HIDE DEF x, yes
<1>5. Quiet(x, g)
  BY <1>4, GetIs
<1> HIDE DEF g
<1>6. Reaches(w, 1) /\ w.heap = m.heap /\ ok \in BOOLEAN /\ (ok \/ w.err # "stale" \/ NotCallableIn(m.heap))
  BY <1>4, <1>5, ReachQuiet
<1> HIDE DEF w, ok
<1> QED BY <1>2, <1>6, ReachReturn

LEMMA GetDelegateStep ==
  ASSUME IInv, sq_getdelegate
  PROVE  Stepped
<1>1. PICK o \in Objects :
        LET x == Host(<<o>>)
            d == Obj(x, o).delegate
        IN IF o.t # "table" THEN Return("getdelegate", Raise(x), FALSE, 1)
           ELSE Return("getdelegate", Push(x, IF d = 0 THEN Null ELSE Ref("table", d)), TRUE, 2)
  BY DEF sq_getdelegate
<1> DEFINE x == Host(<<o>>)
           v == IF Obj(x, o).delegate = 0 THEN Null ELSE Ref("table", Obj(x, o).delegate)
           z == Push(x, v)
           e == Raise(x)
<1>2. Return("getdelegate", e, FALSE, 1) \/ Return("getdelegate", z, TRUE, 2)
  BY <1>1
<1>3. IsSeq(<<o>>) /\ Len(<<o>>) = 1
  BY TupleSeq
<1>4. IsMachine(x) /\ x.heap = m.heap /\ Len(x.stack) = 1
  BY <1>3, Starts
<1> HIDE DEF x, v
<1>5. Reaches(x, 1)
  BY <1>4, ReachStart
<1>6. Reaches(z, 2) /\ Reaches(e, 1) /\ e.err = "raised"
  BY <1>5, ReachPush, ReachRaise
<1> HIDE DEF z, e
<1> QED BY <1>2, <1>6, ReachReturn

LEMMA CmpStep ==
  ASSUME IInv, sq_cmp
  PROVE  Stepped
<1>1. PICK a \in Objects, b \in Objects : Return("cmp", ObjCmp(Host(<<a, b>>), a, b).m, TRUE, 2)
  BY DEF sq_cmp
<1> DEFINE x == Host(<<a, b>>)
           r == ObjCmp(x, a, b)
           w == r.m
<1>2. Return("cmp", w, TRUE, 2)
  BY <1>1
<1>3. IsSeq(<<a, b>>) /\ Len(<<a, b>>) = 2
  BY TupleSeq
<1>4. IsMachine(x) /\ x.heap = m.heap /\ Len(x.stack) = 2 /\ Linked(x.heap) /\ IsRef(x, a)
  BY <1>3, Starts
<1> HIDE DEF x
<1>5. Quiet(x, r)
  BY <1>4, ObjCmpIs
<1> HIDE DEF r
<1>6. Reaches(w, 2)
  BY <1>4, <1>5, ReachQuiet
<1> HIDE DEF w
<1> QED BY <1>2, <1>6, ReachReturn

LEMMA ScriptEqStep ==
  ASSUME IInv, ScriptEq
  PROVE  Stepped
<1>1. PICK a \in Objects, b \in Objects : LET e == IsEqual(Host(<<a, b>>), a, b) IN Return("eq", e.m, e.ok, 2)
  BY DEF ScriptEq
<1> DEFINE x == Host(<<a, b>>)
           r == IsEqual(x, a, b)
           w == r.m
           ok == r.ok
<1>2. Return("eq", w, ok, 2)
  BY <1>1
<1>3. IsSeq(<<a, b>>) /\ Len(<<a, b>>) = 2
  BY TupleSeq
<1>4. IsMachine(x) /\ x.heap = m.heap /\ Len(x.stack) = 2 /\ Linked(x.heap) /\ IsRef(x, a)
  BY <1>3, Starts
<1> HIDE DEF x
<1>5. Quiet(x, r)
  BY <1>4, IsEqualIs
<1> HIDE DEF r
<1>6. Reaches(w, 2) /\ w.heap = m.heap /\ ok \in BOOLEAN /\ (ok \/ w.err # "stale" \/ NotCallableIn(m.heap))
  BY <1>4, <1>5, ReachQuiet
<1> HIDE DEF w, ok
<1> QED BY <1>2, <1>6, ReachReturn

LEMMA ScriptArithStep ==
  ASSUME IInv, ScriptArith
  PROVE  Stepped
<1>1. PICK a \in Objects, b \in Objects :
        \E r \in {ArithMetaMethod(Host(<<a, b>>), a, b), NEG_OP(Host(<<a, b>>), a)} : Return("arith", r.m, r.ok, 2)
  BY DEF ScriptArith
<1> DEFINE x == Host(<<a, b>>)
<1>2. PICK r \in {ArithMetaMethod(x, a, b), NEG_OP(x, a)} : Return("arith", r.m, r.ok, 2)
  BY <1>1
<1>3. IsSeq(<<a, b>>) /\ Len(<<a, b>>) = 2
  BY TupleSeq
<1>4. IsMachine(x) /\ x.heap = m.heap /\ Len(x.stack) = 2 /\ Linked(x.heap) /\ IsRef(x, a)
  BY <1>3, Starts
<1> HIDE DEF x
<1>5. Quiet(x, r)
  BY <1>2, <1>4, ArithIs, ToStrIs
<1> DEFINE w == r.m
           ok == r.ok
<1>6. Return("arith", w, ok, 2)
  BY <1>2
<1>7. Reaches(w, 2) /\ w.heap = m.heap /\ ok \in BOOLEAN /\ (ok \/ w.err # "stale" \/ NotCallableIn(m.heap))
  BY <1>4, <1>5, ReachQuiet
<1> HIDE DEF w, ok
<1> QED BY <1>6, <1>7, ReachReturn

LEMMA ToStringStep ==
  ASSUME IInv, sq_tostring
  PROVE  Stepped
<1>1. PICK o \in Objects :
        \E r \in {ToStr(Host(<<o>>), o), TypeOf(Host(<<o>>), o)} :
          IF r.ok THEN Return("tostring", Push(r.m, r.v), TRUE, 2) ELSE Return("tostring", r.m, FALSE, 1)
  BY DEF sq_tostring
<1> DEFINE x == Host(<<o>>)
<1>2. PICK r \in {ToStr(x, o), TypeOf(x, o)} :
          IF r.ok THEN Return("tostring", Push(r.m, r.v), TRUE, 2) ELSE Return("tostring", r.m, FALSE, 1)
  BY <1>1
<1>3. IsSeq(<<o>>) /\ Len(<<o>>) = 1
  BY TupleSeq
<1>4. IsMachine(x) /\ x.heap = m.heap /\ Len(x.stack) = 1 /\ Linked(x.heap) /\ IsRef(x, o)
  BY <1>3, Starts
<1> HIDE DEF x
<1>5. Quiet(x, r)
  BY <1>2, <1>4, ToStrIs
<1> DEFINE w == r.m
           z == Push(w, r.v)
<1>6. IF r.ok THEN Return("tostring", z, TRUE, 2) ELSE Return("tostring", w, FALSE, 1)
  BY <1>2
<1>7. Reaches(w, 1) /\ w.heap = m.heap /\ r.ok \in BOOLEAN /\ (r.ok \/ w.err # "stale" \/ NotCallableIn(m.heap))
  BY <1>4, <1>5, ReachQuiet
<1> HIDE DEF w
<1>8. Reaches(z, 2)
  BY <1>7, ReachPush
<1> HIDE DEF z
<1>9. CASE r.ok
  BY <1>6, <1>8, <1>9, ReachReturn
<1>10. CASE ~r.ok
  BY <1>6, <1>7, <1>10, ReachReturn
<1> QED BY <1>9, <1>10

LEMMA GetAttributesStep ==
  ASSUME IInv, sq_getattributes
  PROVE  Stepped
<1>1. PICK o \in Of({"class"}), k \in Keys :
        LET x == Host(<<o, k>>)
            a == IF k = NullKey THEN Obj(x, o).attrs ELSE GetAttributes(Obj(x, o), k)
        IN IF a = Absent THEN Return("getattributes", Raise(x), FALSE, 2)
           ELSE Return("getattributes", Push(Pop(x, 1), a), TRUE, 2)
  BY DEF sq_getattributes
<1> DEFINE x == Host(<<o, k>>)
           a == IF k = NullKey THEN Obj(x, o).attrs ELSE GetAttributes(Obj(x, o), k)
           e == Raise(x)
           y == Pop(x, 1)
           z == Push(y, a)
<1>2. Return("getattributes", e, FALSE, 2) \/ Return("getattributes", z, TRUE, 2)
  BY <1>1
<1>3. IsSeq(<<o, k>>) /\ Len(<<o, k>>) = 2
  BY TupleSeq
<1>4. IsMachine(x) /\ x.heap = m.heap /\ Len(x.stack) = 2
  BY <1>3, Starts
<1> HIDE DEF x, a
<1>5. Reaches(x, 2)
  BY <1>4, ReachStart
<1>6. Reaches(y, 1) /\ Reaches(e, 2) /\ e.err = "raised"
  BY <1>5, ReachPop, ReachRaise
<1> HIDE DEF y, e
<1>7. Reaches(z, 2)
  BY <1>6, ReachPush
<1> HIDE DEF z
<1> QED BY <1>2, <1>6, <1>7, ReachReturn

LEMMA GetMemberHandleStep ==
  ASSUME IInv, sq_getmemberhandle
  PROVE  Stepped /\ m'.heap = m.heap
<1>1. PICK o \in Of({"class"}), k \in keys :
        \/ Return("getmemberhandle", Raise(Host(<<o, k>>)), FALSE, 2)
        \/ Return("getmemberhandle", Pop(Host(<<o, k>>), 1), TRUE, 1)
  BY DEF sq_getmemberhandle
<1> DEFINE x == Host(<<o, k>>)
           y == Pop(x, 1)
           e == Raise(x)
<1>2. Return("getmemberhandle", e, FALSE, 2) \/ Return("getmemberhandle", y, TRUE, 1)
  BY <1>1
<1>3. IsSeq(<<o, k>>) /\ Len(<<o, k>>) = 2
  BY TupleSeq
<1>4. IsMachine(x) /\ x.heap = m.heap /\ Len(x.stack) = 2
  BY <1>3, Starts
<1> HIDE DEF x
<1>5. Reaches(x, 2)
  BY <1>4, ReachStart
<1>6. Reaches(y, 1) /\ y.heap = m.heap
  BY <1>4, <1>5, ReachPop
<1>7. Reaches(e, 2) /\ e.err = "raised"
  BY <1>5, ReachRaise
<1>8. e.heap = m.heap
  BY <1>4, <1>5, ReachRaise
<1> HIDE DEF y, e
<1>9. m'.heap = m.heap
  BY <1>2, <1>6, <1>7, <1>8 DEF Return, Reaches, IsMachine
<1> QED BY <1>2, <1>6, <1>7, <1>9, ReachReturn

----------------------------------------------------------------------------
(* Assignments.                                                            *)

LEMMA SetStep ==
  ASSUME IInv, sq_set
  PROVE  Stepped
<1>1. PICK o \in Objects, k \in keys, v \in Values :
        LET s == Set(Host(<<o, k, v>>), o, k, v, FALSE)
        IN IF s.ok THEN Return("set", Pop(s.m, 2), TRUE, 1) ELSE Return("set", s.m, FALSE, 3)
  BY DEF sq_set
<1> DEFINE x == Host(<<o, k, v>>)
           no == FALSE
           s == Set(x, o, k, v, no)
           w == s.m
           y == Pop(w, 2)
<1>2. IF s.ok THEN Return("set", y, TRUE, 1) ELSE Return("set", w, FALSE, 3)
  BY <1>1
<1>3. IsSeq(<<o, k, v>>) /\ Len(<<o, k, v>>) = 3
  BY TupleSeq
<1>4. IsMachine(x) /\ x.heap = m.heap /\ Len(x.stack) = 3 /\ Linked(x.heap) /\ Fits(x.heap) /\ IsRef(x, o)
  BY <1>3, Starts
<1>5. IsValue(v)
  BY ValueIs
<1> HIDE DEF x, no
<1>6. Writes(x, k, s)
  BY <1>4, <1>5, SetIs
<1> HIDE DEF s
<1>7. /\ IsMachine(w) /\ Steps(m.heap, w.heap) /\ 3 <= Len(w.stack) /\ (Len(w.stack) = 3 \/ DeclinesIn(w.heap))
      /\ s.ok \in BOOLEAN /\ (s.ok \/ w.err # "stale" \/ (w.heap = m.heap /\ NotCallableIn(m.heap)))
  BY <1>4, <1>6 DEF Writes
<1> HIDE DEF w
<1>8. Len(w.stack) \in Nat
  BY <1>7, SeqDomain DEF IsMachine
<1>9. 2 <= Len(w.stack)
  BY <1>7, <1>8
<1>10. IsMachine(y) /\ y.heap = w.heap /\ Len(y.stack) = Len(w.stack) - 2
  BY <1>7, <1>9, Pop2Is
<1> HIDE DEF y
<1>11. CASE s.ok
  <2>1. Settles("set", y, TRUE, 1)
    BY <1>7, <1>8, <1>10 DEF Settles
  <2> QED BY <1>2, <1>11, <2>1, Returned
<1>12. CASE ~s.ok
  <2>1. Settles("set", w, FALSE, 3)
    BY <1>7, <1>12 DEF Settles
  <2> QED BY <1>2, <1>12, <2>1, Returned
<1> QED BY <1>7, <1>11, <1>12

LEMMA ScriptSetStep ==
  ASSUME IInv, ScriptSet
  PROVE  Stepped
<1>1. PICK o \in Objects, k \in keys, v \in Values :
        LET s == Set(Host(<<o>>), o, k, v, TRUE) IN Return("scriptset", s.m, s.ok, 1)
  BY DEF ScriptSet
<1> DEFINE x == Host(<<o>>)
           yes == TRUE
           s == Set(x, o, k, v, yes)
           w == s.m
           ok == s.ok
<1>2. Return("scriptset", w, ok, 1)
  BY <1>1
<1>3. IsSeq(<<o>>) /\ Len(<<o>>) = 1
  BY TupleSeq
<1>4. IsMachine(x) /\ x.heap = m.heap /\ Len(x.stack) = 1 /\ Linked(x.heap) /\ Fits(x.heap) /\ IsRef(x, o)
  BY <1>3, Starts
<1>5. IsValue(v)
  BY ValueIs
<1> HIDE DEF x, yes
<1>6. Writes(x, k, s)
  BY <1>4, <1>5, SetIs
<1> HIDE DEF s
<1>7. /\ IsMachine(w) /\ Steps(m.heap, w.heap) /\ (Len(w.stack) = 1 \/ DeclinesIn(w.heap))
      /\ ok \in BOOLEAN /\ (ok \/ w.err # "stale" \/ (w.heap = m.heap /\ NotCallableIn(m.heap)))
  BY <1>4, <1>6 DEF Writes
<1> HIDE DEF w, ok
<1>8. Settles("scriptset", w, ok, 1)
  BY <1>7 DEF Settles
<1> QED BY <1>2, <1>8, Returned

\* The slots of a table are assigned.
LEMMA SlotsGrow ==
  ASSUME IInv, NEW y, NEW n, Reaches(y, n), y.heap = m.heap, NEW o \in Objects, o.t = "table",
         NEW s, \A k \in DOMAIN s : IsValue(s[k])
  PROVE  Reaches(Put(y, o, [Obj(y, o) EXCEPT !.slots = s]), n)
<1> DEFINE p == [Obj(y, o) EXCEPT !.slots = s]
<1>1. Obj(y, o) = m.heap[o.id] /\ IsTable(m.heap[o.id]) /\ o.id \in 1..Len(m.heap)
  BY ObjectIs DEF Obj
<1>2. Grows(m.heap[o.id], p) /\ m.heap[o.id].t = "table"
  BY <1>1, TableGrows DEF IsTable
<1> HIDE DEF p
<1>3. Reaches(Put(y, o, p), n)
  BY <1>1, <1>2, ReachPut
<1> QED BY <1>3 DEF p

LEMMA WithIs ==
  ASSUME NEW s, \A k \in DOMAIN s : IsValue(s[k]), NEW k, NEW v, IsValue(v)
  PROVE  /\ \A l \in DOMAIN With(s, k, v) : IsValue(With(s, k, v)[l])
         /\ \A l \in DOMAIN Without(s, k) : IsValue(Without(s, k)[l])
BY DEF With, Without

LEMMA RawDeleteSlotStep ==
  ASSUME IInv, sq_rawdeleteslot
  PROVE  Stepped
<1>1. PICK o \in Of({"table"}), k \in keys :
        LET x == Host(<<o, k>>)
        IN Return("rawdeleteslot", Pop(Put(x, o, [Obj(x, o) EXCEPT !.slots = Without(@, k)]), 1), TRUE, 1)
  BY DEF sq_rawdeleteslot
<1> DEFINE x == Host(<<o, k>>)
           s == Without(Obj(x, o).slots, k)
           y == Put(x, o, [Obj(x, o) EXCEPT !.slots = s])
           z == Pop(y, 1)
<1>2. Return("rawdeleteslot", z, TRUE, 1)
  BY <1>1
<1>3. IsSeq(<<o, k>>) /\ Len(<<o, k>>) = 2 /\ o \in Objects /\ o.t = "table"
  BY TupleSeq DEF Of
<1>4. IsMachine(x) /\ x.heap = m.heap /\ Len(x.stack) = 2 /\ Obj(x, o) = m.heap[o.id]
  BY <1>3, Starts
<1> HIDE DEF x
<1>5. \A l \in DOMAIN s : IsValue(s[l])
  BY <1>3, <1>4, ObjectIs DEF IsTable, Without
<1>6. Reaches(x, 2)
  BY <1>4, ReachStart
<1> HIDE DEF s
<1>7. Reaches(y, 2)
  BY <1>3, <1>4, <1>5, <1>6, SlotsGrow
<1> HIDE DEF y
<1>8. Reaches(z, 1)
  BY <1>7, ReachPop
<1> HIDE DEF z
<1> QED BY <1>2, <1>8, ReachReturn

LEMMA ClearStep ==
  ASSUME IInv, sq_clear
  PROVE  Stepped
<1>1. PICK o \in Objects :
        LET x == Host(<<o>>)
        IN IF o.t = "table" THEN Return("clear", Put(x, o, [Obj(x, o) EXCEPT !.slots = EmptyFcn]), TRUE, 1)
           ELSE Return("clear", Raise(x), FALSE, 1)
  BY DEF sq_clear
<1> DEFINE x == Host(<<o>>)
           s == EmptyFcn
           y == Put(x, o, [Obj(x, o) EXCEPT !.slots = s])
           e == Raise(x)
<1>2. IF o.t = "table" THEN Return("clear", y, TRUE, 1) ELSE Return("clear", e, FALSE, 1)
  BY <1>1
<1>3. IsSeq(<<o>>) /\ Len(<<o>>) = 1
  BY TupleSeq
<1>4. IsMachine(x) /\ x.heap = m.heap /\ Len(x.stack) = 1
  BY <1>3, Starts
<1> HIDE DEF x
<1>5. \A l \in DOMAIN s : IsValue(s[l])
  BY DEF EmptyFcn
<1> HIDE DEF s
<1>6. Reaches(x, 1)
  BY <1>4, ReachStart
<1>7. Reaches(e, 1) /\ e.err = "raised"
  BY <1>6, ReachRaise
<1>8. o.t = "table" => Reaches(y, 1)
  BY <1>4, <1>5, <1>6, SlotsGrow
<1> HIDE DEF y, e
<1> QED BY <1>2, <1>7, <1>8, ReachReturn

LEMMA SetClassUDSizeStep ==
  ASSUME IInv, sq_setclassudsize
  PROVE  Stepped
<1>1. PICK o \in Of({"class"}) :
        LET x == Host(<<o>>)
        IN IF Obj(x, o).locked THEN Return("setclassudsize", Raise(x), FALSE, 1)
           ELSE Return("setclassudsize", Put(x, o, [Obj(x, o) EXCEPT !.udsize = 1]), TRUE, 1)
  BY DEF sq_setclassudsize
<1> DEFINE x == Host(<<o>>)
           p == [Obj(x, o) EXCEPT !.udsize = 1]
           y == Put(x, o, p)
           e == Raise(x)
<1>2. IF Obj(x, o).locked THEN Return("setclassudsize", e, FALSE, 1) ELSE Return("setclassudsize", y, TRUE, 1)
  BY <1>1
<1>3. IsSeq(<<o>>) /\ Len(<<o>>) = 1 /\ o \in Objects /\ o.t = "class"
  BY TupleSeq DEF Of
<1>4. IsMachine(x) /\ x.heap = m.heap /\ Len(x.stack) = 1 /\ Obj(x, o) = m.heap[o.id]
  BY <1>3, Starts
<1> HIDE DEF x
<1>5. o.id \in 1..Len(m.heap) /\ IsClass(m.heap[o.id])
  BY <1>3, ObjectIs
<1>6. Reaches(x, 1)
  BY <1>4, ReachStart
<1>7. Reaches(e, 1) /\ e.err = "raised"
  BY <1>6, ReachRaise
<1> HIDE DEF e
<1>8. CASE Obj(x, o).locked
  BY <1>2, <1>7, <1>8, ReachReturn
<1>9. CASE ~Obj(x, o).locked
  <2> DEFINE c == m.heap[o.id]
  <2>1. p = [c EXCEPT !.udsize = 1] /\ IsClass(c) /\ ~c.locked
    BY <1>4, <1>5, <1>9
  <2> HIDE DEF p, c
  <2>2. DOMAIN p = DOMAIN c /\ p.t = c.t /\ p.base = c.base /\ p.locked = c.locked /\ p.members = c.members /\ p.ctor = c.ctor
        /\ p.defaults = c.defaults /\ p.methods = c.methods /\ p.meta = c.meta
    BY <2>1 DEF IsClass
  <2>3. Grows(c, p)
    BY <2>1, <2>2, ClassOther DEF IsClass
  <2>4. Grows(m.heap[o.id], p) /\ p.locked = m.heap[o.id].locked
    BY <2>2, <2>3 DEF c
  <2>5. Reaches(y, 1)
    BY <1>4, <1>5, <1>6, <2>4, ReachPut
  <2> HIDE DEF y
  <2> QED BY <1>2, <1>9, <2>5, ReachReturn
<1> QED BY <1>8, <1>9

LEMMA SetAttributesStep ==
  ASSUME IInv, sq_setattributes
  PROVE  Stepped
<1>1. PICK o \in Of({"class"}), k \in Keys :
        LET x == Host(<<o, k, Num(1)>>)
            c == Obj(x, o)
            old == IF k = NullKey THEN c.attrs ELSE GetAttributes(c, k)
            new == IF k = NullKey THEN [c EXCEPT !.attrs = Num(1)] ELSE SetAttributes(c, k, Num(1))
        IN IF old = Absent THEN Return("setattributes", Raise(x), FALSE, 3)
           ELSE Return("setattributes", Push(Pop(Put(x, o, new), 2), old), TRUE, 2)
  BY DEF sq_setattributes
<1> DEFINE v == Num(1)
           x == Host(<<o, k, v>>)
           c == Obj(x, o)
           old == IF k = NullKey THEN c.attrs ELSE GetAttributes(c, k)
           new == IF k = NullKey THEN [c EXCEPT !.attrs = v] ELSE SetAttributes(c, k, v)
           e == Raise(x)
           u == Put(x, o, new)
           y == Pop(u, 2)
           z == Push(y, old)
<1>2. Return("setattributes", e, FALSE, 3) \/ Return("setattributes", z, TRUE, 2)
  BY <1>1
<1> HIDE DEF v
<1>3. IsSeq(<<o, k, v>>) /\ Len(<<o, k, v>>) = 3 /\ o \in Objects /\ o.t = "class"
  BY TupleSeq DEF Of
<1>4. IsMachine(x) /\ x.heap = m.heap /\ Len(x.stack) = 3 /\ c = m.heap[o.id]
  BY <1>3, Starts
<1>5. o.id \in 1..Len(m.heap) /\ IsClass(c)
  BY <1>3, <1>4, ObjectIs
<1> HIDE DEF x, c, old
<1>6. Grows(c, new) /\ new.locked = c.locked
  <2>1. CASE k = NullKey
    <3> DEFINE p == [c EXCEPT !.attrs = v]
    <3>1. DOMAIN p = DOMAIN c /\ p.t = c.t /\ p.base = c.base /\ p.locked = c.locked /\ p.members = c.members /\ p.ctor = c.ctor
          /\ p.defaults = c.defaults /\ p.methods = c.methods /\ p.meta = c.meta /\ p.udsize = c.udsize
      BY <1>5 DEF IsClass
    <3>2. p = new
      BY <2>1
    <3> HIDE DEF p, new
    <3>3. Grows(c, p)
      BY <1>5, <3>1, ClassOther DEF IsClass
    <3> QED BY <3>1, <3>2, <3>3
  <2>2. CASE k # NullKey
    BY <1>5, <2>2, SetAttributesGrows
  <2> QED BY <2>1, <2>2
<1> HIDE DEF new
<1>7. Reaches(x, 3)
  BY <1>4, ReachStart
<1>8. Reaches(e, 3) /\ e.err = "raised"
  BY <1>7, ReachRaise
<1>9. Reaches(u, 3)
  BY <1>4, <1>5, <1>6, <1>7, ReachPut
<1> HIDE DEF e, u
<1>10. Reaches(y, 1)
  BY <1>9, ReachPop
<1> HIDE DEF y
<1>11. Reaches(z, 2)
  BY <1>10, ReachPush
<1> HIDE DEF z
<1> QED BY <1>2, <1>8, <1>11, ReachReturn

----------------------------------------------------------------------------
(* Slots and members are made and deleted.                                 *)

\* The result r of an operation, with n values on the stack.
Answers(r, n) ==
  /\ DOMAIN r = {"m", "ok", "v"} /\ r.ok \in BOOLEAN
  /\ Reaches(r.m, n)
  /\ r.ok \/ r.m.err # "stale" \/ NotCallableIn(r.m.heap)

LEMMA AnswersQuiet ==
  ASSUME IInv, NEW x, x.heap = m.heap, NEW n, Len(x.stack) = n, NEW r, Quiet(x, r)
  PROVE  Answers(r, n)
<1>1. /\ Reaches(r.m, n) /\ r.m.heap = m.heap /\ r.ok \in BOOLEAN
      /\ r.ok \/ r.m.err # "stale" \/ NotCallableIn(m.heap)
  BY ReachQuiet
<1>2. DOMAIN r = {"m", "ok", "v"}
  BY DEF Quiet
<1> QED BY <1>1, <1>2 DEF Answers

LEMMA AnswersDone ==
  ASSUME NEW y, NEW n, Reaches(y, n), NEW v
  PROVE  Answers(R(y, TRUE, v), n)
<1> DEFINE r == R(y, TRUE, v)
<1>1. DOMAIN r = {"m", "ok", "v"} /\ r.ok = TRUE /\ r.m = y
  BY DEF R
<1> HIDE DEF r
<1>2. Answers(r, n)
  BY <1>1 DEF Answers
<1> QED BY <1>2 DEF r

LEMMA AnswersFail ==
  ASSUME NEW y, NEW n, Reaches(y, n)
  PROVE  Answers(Fail(y), n)
<1> DEFINE r == Fail(y)
<1>1. DOMAIN r = {"m", "ok", "v"} /\ r.ok = FALSE /\ r.m = Raise(y)
  BY DEF R, Fail
<1>2. Reaches(Raise(y), n) /\ Raise(y).err = "raised"
  BY ReachRaise
<1> HIDE DEF r
<1>3. Answers(r, n)
  BY <1>1, <1>2 DEF Answers
<1> QED BY <1>3 DEF r

\* Objects keep growing.
LEMMA ClassGrowsTwice ==
  ASSUME NEW c, NEW p, NEW q, c.t = "class", Grows(c, p), Grows(p, q)
  PROVE  Grows(c, q)
BY DEF Grows

LEMMA NewSlotIs ==
  ASSUME IInv, NEW x, IsMachine(x), x.heap = m.heap, NEW n, Len(x.stack) = n, NEW o \in Objects,
         NEW k, NEW v \in Values, NEW st \in BOOLEAN
  PROVE  Answers(NewSlot(x, o, k, v, st), n)
<1> DEFINE b == Obj(x, o)
           mm == GetMetaMethod(x, o, "_newslot")
           a == <<o, k, v>>
           c == CallMetaMethod(x, mm, a)
           cl == ClassNewSlot(b, k, v, st)
           s == With(b.slots, k, v)
           r == NewSlot(x, o, k, v, st)
<1>1. b = m.heap[o.id] /\ IsRef(x, o) /\ Linked(x.heap) /\ o.id \in 1..Len(m.heap)
  BY ObjectIs DEF Obj, IsRef, IInv
<1>2. IsStored(v) /\ IsValue(v) /\ IsSeq(a) /\ "_newslot" \in MetaMethods
  BY ValueIs, TupleSeq DEF MetaMethods
<1>3. Reaches(x, n)
  BY ReachStart
<1> DEFINE y == Put(x, o, [b EXCEPT !.slots = s])
           z == Put(x, o, cl)
<1>4. \/ r = Fail(x) \/ (mm # Absent /\ r = c)
      \/ (o.t = "table" /\ r = R(y, TRUE, Null)) \/ (o.t = "class" /\ cl # Absent /\ r = R(z, TRUE, Null))
  BY DEF NewSlot
<1> HIDE DEF r, y, z, cl, mm, c
<1>5. CASE r = Fail(x)
  BY <1>3, <1>5, AnswersFail DEF r
<1>6. CASE mm # Absent /\ r = c
  <2>1. Quiet(x, c)
    BY <1>1, <1>2, <1>6, CallMetaMethodIs DEF mm, c
  <2>2. Answers(c, n)
    BY <2>1, AnswersQuiet
  <2> QED BY <1>6, <2>2 DEF r
<1>7. CASE o.t = "table" /\ r = R(y, TRUE, Null)
  <2>1. \A l \in DOMAIN b.slots : IsValue(b.slots[l])
    BY <1>1, <1>7, ObjectIs DEF IsTable
  <2>2. \A l \in DOMAIN s : IsValue(s[l])
    BY <1>2, <2>1, WithIs
  <2> HIDE DEF s
  <2>3. Reaches(y, n)
    BY <1>3, <1>7, <2>2, SlotsGrow DEF y
  <2>4. Answers(r, n)
    BY <1>7, <2>3, AnswersDone
  <2> QED BY <2>4 DEF r
<1>8. CASE o.t = "class" /\ cl # Absent /\ r = R(z, TRUE, Null)
  <2>1. IsClass(b)
    BY <1>1, <1>8, ObjectIs
  <2>2. Grows(b, cl) /\ cl.locked = b.locked
    BY <1>2, <1>8, <2>1, ClassNewSlotGrows DEF cl
  <2>3. Reaches(z, n)
    BY <1>1, <1>3, <2>2, ReachPut DEF z
  <2>4. Answers(r, n)
    BY <1>8, <2>3, AnswersDone
  <2> QED BY <2>4 DEF r
<1> QED BY <1>4, <1>5, <1>6, <1>7, <1>8

LEMMA NewSlotStep ==
  ASSUME IInv, sq_newslot
  PROVE  Stepped
<1>1. PICK o \in Objects, k \in Keys, v \in Values : \E static \in IF o.t = "class" THEN BOOLEAN ELSE {FALSE} :
        LET x == Host(<<o, k, v>>)
        IN IF o.t \notin {"table", "class"} THEN Return("none", x, TRUE, 3)
           ELSE IF k = NullKey THEN Return("newslot", Raise(x), FALSE, 3)
           ELSE Return("newslot", Pop(NewSlot(x, o, k, v, static).m, 2), TRUE, 1)
  BY DEF sq_newslot
<1> DEFINE x == Host(<<o, k, v>>)
<1>2. PICK st \in BOOLEAN :
        IF o.t \notin {"table", "class"} THEN Return("none", x, TRUE, 3)
        ELSE IF k = NullKey THEN Return("newslot", Raise(x), FALSE, 3)
        ELSE Return("newslot", Pop(NewSlot(x, o, k, v, st).m, 2), TRUE, 1)
  BY <1>1
<1> DEFINE r == NewSlot(x, o, k, v, st)
           w == r.m
           y == Pop(w, 2)
           e == Raise(x)
<1>3. Return("none", x, TRUE, 3) \/ Return("newslot", e, FALSE, 3) \/ Return("newslot", y, TRUE, 1)
  BY <1>2
<1>4. IsSeq(<<o, k, v>>) /\ Len(<<o, k, v>>) = 3
  BY TupleSeq
<1>5. IsMachine(x) /\ x.heap = m.heap /\ Len(x.stack) = 3
  BY <1>4, Starts
<1> HIDE DEF x
<1>6. Reaches(x, 3)
  BY <1>5, ReachStart
<1>7. Reaches(e, 3) /\ e.err = "raised"
  BY <1>6, ReachRaise
<1>8. Answers(r, 3)
  BY <1>5, NewSlotIs
<1> HIDE DEF e, r
<1>9. Reaches(w, 3)
  BY <1>8 DEF Answers
<1> HIDE DEF w
<1>10. Reaches(y, 1)
  BY <1>9, ReachPop
<1> HIDE DEF y
<1> QED BY <1>3, <1>6, <1>7, <1>10, ReachReturn

LEMMA NewSlotAIs ==
  ASSUME IInv, NEW x, IsMachine(x), x.heap = m.heap, NEW n, Len(x.stack) = n, NEW o \in Objects, o.t = "class",
         NEW k, NEW v \in Values, NEW at, NEW st \in BOOLEAN, NEW raw \in BOOLEAN
  PROVE  Answers(NewSlotA(x, o, k, v, at, st, raw), n)
<1> DEFINE b == Obj(x, o)
           mm == At(b.meta, "_newmember")
           q == Bool(st)
           a == <<o, k, v, at, q>>
           c == CallMetaMethod(x, mm, a)
           s == NewSlot(x, o, k, v, st)
           y == Put(s.m, o, SetAttributes(Obj(s.m, o), k, at))
           r == NewSlotA(x, o, k, v, at, st, raw)
<1>1. b = m.heap[o.id] /\ o.id \in 1..Len(m.heap) /\ IsClass(b)
  BY ObjectIs DEF Obj
<1>2. IsStored(v) /\ IsSeq(a)
  BY ValueIs, TupleSeq
<1>3. Answers(s, n)
  BY NewSlotIs
<1>4. r = s \/ (mm # Absent /\ r = c) \/ (s.ok /\ r = [s EXCEPT !.m = y])
  BY DEF NewSlotA
<1>5. s.ok => LET cl == ClassNewSlot(b, k, v, st) IN cl # Absent /\ s.m = Put(x, o, cl)
  BY DEF NewSlot, Fail, R
<1> HIDE DEF s, r, mm
<1>6. CASE r = s
  BY <1>3, <1>6 DEF r
<1>7. CASE mm # Absent /\ r = c
  <2>1. IsValue(mm) /\ mm.t = "closure"
    BY <1>1, <1>7 DEF mm, At, IsClass
  <2> HIDE DEF a
  <2>2. Quiet(x, c)
    BY <1>2, <2>1, RunIs
  <2> HIDE DEF c
  <2>3. Answers(c, n)
    BY <2>2, AnswersQuiet
  <2> QED BY <1>7, <2>3 DEF r
<1>8. CASE s.ok /\ r = [s EXCEPT !.m = y]
  <2> DEFINE cl == ClassNewSlot(b, k, v, st)
             w == s.m
             p == SetAttributes(cl, k, at)
  <2>1. cl # Absent /\ w = Put(x, o, cl)
    BY <1>5, <1>8
  <2>2. Grows(b, cl) /\ cl.locked = b.locked
    BY <1>1, <1>2, <2>1, ClassNewSlotGrows
  <2> HIDE DEF cl, w
  <2>3. IsMachine(w) /\ w.heap = [x.heap EXCEPT ![o.id] = cl] /\ w.stack = x.stack /\ w.err = x.err
    BY <2>1, PutIs
  <2>4. IsSeq(x.heap) /\ o.id \in 1..Len(x.heap)
    BY <1>1 DEF IInv, Linked
  <2>5. Obj(w, o) = cl
    BY <2>3, <2>4, ExceptSeq DEF Obj
  <2>6. IsClass(cl)
    BY <1>1, <2>2 DEF Grows, IsObject, IsTable, IsInstance, IsClass
  <2>7. Grows(cl, p) /\ p.locked = cl.locked
    BY <2>6, SetAttributesGrows
  <2>8. y = Put(w, o, p)
    BY <2>5 DEF w
  <2> HIDE DEF p, y, b
  <2>9. Grows(b, p) /\ p.locked = b.locked
    BY <1>1, <2>2, <2>7, ClassGrowsTwice DEF IsClass
  <2>10. Put(w, o, p) = Put(x, o, p)
    BY <2>1, <2>4 DEF Put, IsMachine
  <2>11. Reaches(x, n)
    BY ReachStart
  <2>12. Reaches(Put(x, o, p), n)
    BY <1>1, <2>9, <2>11, ReachPut
  <2>13. DOMAIN r = {"m", "ok", "v"} /\ r.ok = TRUE /\ r.m = y
    BY <1>3, <1>8 DEF Answers
  <2>14. Answers(r, n)
    BY <2>8, <2>10, <2>12, <2>13 DEF Answers
  <2> QED BY <2>14 DEF r
<1> QED BY <1>4, <1>6, <1>7, <1>8

LEMMA NewMemberStep ==
  ASSUME IInv, NEW raw \in BOOLEAN, sq_newmember(raw)
  PROVE  Stepped
<1>1. PICK o \in Of({"class"}), k \in Keys, v \in Values, st \in BOOLEAN, a \in {Null, Num(1)} :
        LET x == Host(<<o, k, v, a>>)
            n == NewSlotA(x, o, k, v, a, st, raw)
        IN IF k = NullKey THEN Return("newmember", Raise(x), FALSE, 4) ELSE Return("newmember", n.m, n.ok, 4)
  BY DEF sq_newmember
<1> DEFINE x == Host(<<o, k, v, a>>)
           r == NewSlotA(x, o, k, v, a, st, raw)
           w == r.m
           ok == r.ok
           e == Raise(x)
<1>2. Return("newmember", e, FALSE, 4) \/ Return("newmember", w, ok, 4)
  BY <1>1
<1>3. IsSeq(<<o, k, v, a>>) /\ Len(<<o, k, v, a>>) = 4 /\ o \in Objects /\ o.t = "class"
  BY TupleSeq DEF Of
<1>4. IsMachine(x) /\ x.heap = m.heap /\ Len(x.stack) = 4
  BY <1>3, Starts
<1> HIDE DEF x
<1>5. Reaches(x, 4)
  BY <1>4, ReachStart
<1>6. Reaches(e, 4) /\ e.err = "raised"
  BY <1>5, ReachRaise
<1>7. Answers(r, 4)
  BY <1>3, <1>4, NewSlotAIs
<1> HIDE DEF e, r
<1>8. Reaches(w, 4) /\ ok \in BOOLEAN /\ (ok \/ w.err # "stale" \/ NotCallableIn(w.heap))
  BY <1>7 DEF Answers
<1> HIDE DEF w, ok
<1> QED BY <1>2, <1>6, <1>8, ReachReturn

LEMMA DeleteSlotIs ==
  ASSUME IInv, NEW x, IsMachine(x), x.heap = m.heap, NEW n, Len(x.stack) = n, NEW o \in Objects, o.t = "table", NEW k
  PROVE  Answers(DeleteSlot(x, o, k), n)
<1> DEFINE b == Obj(x, o)
           mm == GetMetaMethod(x, o, "_delslot")
           a == <<o, k>>
           c == CallMetaMethod(x, mm, a)
           s == Without(b.slots, k)
           y == Put(x, o, [b EXCEPT !.slots = s])
           u == b.slots[k]
           r == DeleteSlot(x, o, k)
<1>1. b = m.heap[o.id] /\ IsTable(b) /\ IsRef(x, o) /\ Linked(x.heap)
  BY ObjectIs DEF Obj, IsRef, IInv
<1>2. IsSeq(a) /\ "_delslot" \in MetaMethods
  BY TupleSeq DEF MetaMethods
<1>3. Reaches(x, n)
  BY ReachStart
<1>4. r = Fail(x) \/ (mm # Absent /\ r = c) \/ r = R(y, TRUE, u)
  BY DEF DeleteSlot
<1>5. \A l \in DOMAIN s : IsValue(s[l])
  BY <1>1 DEF IsTable, Without
<1> HIDE DEF s
<1>6. Reaches(y, n)
  BY <1>3, <1>5, SlotsGrow
<1> HIDE DEF r, y, u, mm, c
<1>7. CASE r = Fail(x)
  BY <1>3, <1>7, AnswersFail DEF r
<1>8. CASE mm # Absent /\ r = c
  <2>1. Quiet(x, c)
    BY <1>1, <1>2, <1>8, CallMetaMethodIs DEF mm, c
  <2>2. Answers(c, n)
    BY <2>1, AnswersQuiet
  <2> QED BY <1>8, <2>2 DEF r
<1>9. CASE r = R(y, TRUE, u)
  BY <1>6, <1>9, AnswersDone DEF r
<1> QED BY <1>4, <1>7, <1>8, <1>9

LEMMA DeleteSlotStep ==
  ASSUME IInv, sq_deleteslot
  PROVE  Stepped
<1>1. PICK o \in Of({"table"}), k \in Keys, pushval \in BOOLEAN :
        LET x == Host(<<o, k>>)
            d == DeleteSlot(x, o, k)
        IN IF k = NullKey THEN Return("deleteslot", Raise(x), FALSE, 2)
           ELSE IF ~d.ok THEN Return("deleteslot", Pop(d.m, 1), FALSE, 1)
           ELSE IF pushval THEN Return("deleteslot", Push(Pop(d.m, 1), d.v), TRUE, 2)
           ELSE Return("deleteslot", Pop(d.m, 1), TRUE, 1)
  BY DEF sq_deleteslot
<1> DEFINE x == Host(<<o, k>>)
           r == DeleteSlot(x, o, k)
           e == Raise(x)
           w == r.m
           y == Pop(w, 1)
           u == r.v
           z == Push(y, u)
<1>2. \/ Return("deleteslot", e, FALSE, 2) \/ (~r.ok /\ Return("deleteslot", y, FALSE, 1))
      \/ Return("deleteslot", z, TRUE, 2) \/ Return("deleteslot", y, TRUE, 1)
  BY <1>1
<1>3. IsSeq(<<o, k>>) /\ Len(<<o, k>>) = 2 /\ o \in Objects /\ o.t = "table"
  BY TupleSeq DEF Of
<1>4. IsMachine(x) /\ x.heap = m.heap /\ Len(x.stack) = 2
  BY <1>3, Starts
<1> HIDE DEF x
<1>5. Reaches(x, 2)
  BY <1>4, ReachStart
<1>6. Reaches(e, 2) /\ e.err = "raised"
  BY <1>5, ReachRaise
<1>7. Answers(r, 2)
  BY <1>3, <1>4, DeleteSlotIs
<1> HIDE DEF e, r, u
<1>8. Reaches(w, 2) /\ (r.ok \/ w.err # "stale" \/ NotCallableIn(w.heap))
  BY <1>7 DEF Answers
<1> HIDE DEF w
<1>9. Reaches(y, 1) /\ y.heap = w.heap /\ y.err = w.err
  BY <1>8, ReachPop
<1> HIDE DEF y
<1>10. Reaches(z, 2)
  BY <1>9, ReachPush
<1> HIDE DEF z
<1> QED BY <1>2, <1>6, <1>8, <1>9, <1>10, ReachReturn

\* A field of an instance is assigned.
LEMMA InstanceSetGrows ==
  ASSUME NEW x, NEW b, IsInstance(b), NEW k, NEW v, InstanceSet(x, b, k, v) # Absent
  PROVE  Grows(b, InstanceSet(x, b, k, v))
<1> DEFINE i == At(x.heap[b.class].members, k).idx
<1>1. InstanceSet(x, b, k, v) = [b EXCEPT !.values[i] = v]
  BY DEF InstanceSet
<1> HIDE DEF i
<1> QED BY <1>1, InstanceGrows

LEMMA RawSetStep ==
  ASSUME IInv, sq_rawset
  PROVE  Stepped
<1>1. PICK o \in Objects, k \in Keys, v \in Values :
       LET x == Host(<<o, k, v>>)
           y == Obj(x, o)
           c == ClassNewSlot(y, k, v, FALSE)
           i == InstanceSet(x, y, k, v)
           Ok(z) == Return("rawset", Pop(z, 2), TRUE, 1)
       IN CASE k = NullKey -> Return("rawset", Raise(Pop(x, 2)), FALSE, 1)
            [] k # NullKey /\ o.t = "table" -> Ok(Put(x, o, [y EXCEPT !.slots = With(@, k, v)]))
            [] k # NullKey /\ o.t = "class" -> Ok(IF c = Absent THEN x ELSE Put(x, o, c))
            [] OTHER -> IF i = Absent THEN Return("rawset", Raise(x), FALSE, 3) ELSE Ok(Put(x, o, i))
  BY DEF sq_rawset
<1> DEFINE x == Host(<<o, k, v>>)
           b == Obj(x, o)
           no == FALSE
           c == ClassNewSlot(b, k, v, no)
           i == InstanceSet(x, b, k, v)
           s == With(b.slots, k, v)
           e == Raise(x)
           u == Pop(x, 2)
           f == Raise(u)
           t == Put(x, o, [b EXCEPT !.slots = s])
           d == Put(x, o, c)
           j == Put(x, o, i)
<1>2. \/ Return("rawset", f, FALSE, 1) \/ Return("rawset", e, FALSE, 3) \/ Return("rawset", Pop(x, 2), TRUE, 1)
      \/ o.t = "table" /\ Return("rawset", Pop(t, 2), TRUE, 1)
      \/ o.t = "class" /\ c # Absent /\ Return("rawset", Pop(d, 2), TRUE, 1)
      \/ o.t \notin {"table", "class"} /\ i # Absent /\ Return("rawset", Pop(j, 2), TRUE, 1)
  BY <1>1
<1>3. IsSeq(<<o, k, v>>) /\ Len(<<o, k, v>>) = 3 /\ no \in BOOLEAN
  BY TupleSeq
<1>4. IsMachine(x) /\ x.heap = m.heap /\ Len(x.stack) = 3 /\ b = m.heap[o.id]
  BY <1>3, Starts
<1>5. IsStored(v) /\ IsValue(v) /\ o.id \in 1..Len(m.heap)
  BY ValueIs, ObjectIs
<1> HIDE DEF x, no
<1>6. Reaches(x, 3)
  BY <1>4, ReachStart
<1>7. Reaches(u, 1) /\ Reaches(e, 3) /\ e.err = "raised"
  BY <1>6, ReachPop, ReachRaise
<1> HIDE DEF u, e
<1>8. Reaches(f, 1) /\ f.err = "raised"
  BY <1>7, ReachRaise
<1> HIDE DEF f
<1>9. ASSUME NEW z, Reaches(z, 3), Return("rawset", Pop(z, 2), TRUE, 1) PROVE Stepped
  <2> DEFINE y == Pop(z, 2)
  <2>1. Reaches(y, 1)
    BY <1>9, ReachPop
  <2>2. Return("rawset", y, TRUE, 1)
    BY <1>9
  <2> HIDE DEF y
  <2> QED BY <2>1, <2>2, ReachReturn
<1>10. o.t = "table" => Reaches(t, 3)
  <2> SUFFICES ASSUME o.t = "table" PROVE Reaches(t, 3)
    OBVIOUS
  <2>1. \A l \in DOMAIN b.slots : IsValue(b.slots[l])
    BY <1>4, ObjectIs DEF IsTable
  <2>2. \A l \in DOMAIN s : IsValue(s[l])
    BY <1>5, <2>1, WithIs
  <2> HIDE DEF s
  <2> QED BY <1>4, <1>6, <2>2, SlotsGrow
<1>11. o.t = "class" /\ c # Absent => Reaches(d, 3)
  <2> SUFFICES ASSUME o.t = "class", c # Absent PROVE Reaches(d, 3)
    OBVIOUS
  <2>1. IsClass(b)
    BY <1>4, ObjectIs
  <2>2. Grows(b, c) /\ c.locked = b.locked
    BY <1>3, <1>5, <2>1, ClassNewSlotGrows
  <2> HIDE DEF c
  <2> QED BY <1>4, <1>5, <1>6, <2>2, ReachPut
<1>12. o.t \notin {"table", "class"} /\ i # Absent => Reaches(j, 3)
  <2> SUFFICES ASSUME o.t \notin {"table", "class"}, i # Absent PROVE Reaches(j, 3)
    OBVIOUS
  <2>1. IsInstance(b)
    BY <1>4, ObjectIs
  <2>2. Grows(b, i)
    BY <2>1, InstanceSetGrows
  <2>3. b.t # "class"
    BY <2>1 DEF IsInstance
  <2> HIDE DEF i
  <2> QED BY <1>4, <1>5, <1>6, <2>2, <2>3, ReachPut
<1> HIDE DEF t, d, j
<1>13. CASE Return("rawset", f, FALSE, 1)
  BY <1>8, <1>13, ReachReturn
<1>14. CASE Return("rawset", e, FALSE, 3)
  BY <1>7, <1>14, ReachReturn
<1> QED BY <1>2, <1>6, <1>9, <1>10, <1>11, <1>12, <1>13, <1>14

LEMMA SetByHandleStep ==
  ASSUME IInv, sq_setbyhandle
  PROVE  Stepped
<1>1. PICK h \in handles, o \in Of({"class", "instance"}) :
       LET x == Host(<<o, Num(1)>>)
           y == Obj(x, o)
           c == IF o.t = "class" THEN o.id ELSE y.class
           z == CASE ~h.field -> [x EXCEPT !.heap[c].methods[h.idx].val = Num(1)]
                  [] h.field /\ o.t = "class" -> [x EXCEPT !.heap[c].defaults[h.idx].val = Num(1)]
                  [] OTHER -> [x EXCEPT !.heap[o.id].values[h.idx] = Num(1)]
       IN /\ Serves(h, c)
          /\ Return("setbyhandle", Pop(z, 1), TRUE, 1)
  BY DEF sq_setbyhandle
<1> DEFINE v == Num(1)
           x == Host(<<o, v>>)
           c == IF o.t = "class" THEN o.id ELSE Obj(x, o).class
           k == m.heap[c]
           p == [k EXCEPT !.methods[h.idx].val = v]
           q == [k EXCEPT !.defaults[h.idx].val = v]
           s == [m.heap[o.id] EXCEPT !.values[h.idx] = v]
           z == CASE ~h.field -> [x EXCEPT !.heap[c].methods[h.idx].val = v]
                  [] h.field /\ o.t = "class" -> [x EXCEPT !.heap[c].defaults[h.idx].val = v]
                  [] OTHER -> [x EXCEPT !.heap[o.id].values[h.idx] = v]
           y == Pop(z, 1)
<1>2. Serves(h, c) /\ Return("setbyhandle", y, TRUE, 1)
  BY <1>1
<1>3. IsValue(v)
  BY DEF IsValue, Num
<1> HIDE DEF v
<1>4. IsSeq(<<o, v>>) /\ Len(<<o, v>>) = 2 /\ o \in Objects /\ o.t \in {"class", "instance"}
  BY TupleSeq DEF Of
<1>5. IsMachine(x) /\ x.heap = m.heap /\ Len(x.stack) = 2 /\ Obj(x, o) = m.heap[o.id]
  BY <1>4, Starts
<1> HIDE DEF x
<1>6. o.id \in 1..Len(m.heap) /\ c \in 1..Len(m.heap) /\ k.t = "class" /\ (o.t = "instance" => IsInstance(m.heap[o.id]))
  <2>1. o.id \in 1..Len(m.heap) /\ o.t = m.heap[o.id].t /\ (o.t = "class" => IsClass(m.heap[o.id]))
    BY <1>4, ObjectIs
  <2>2. Linked(m.heap) /\ Fits(m.heap)
    BY DEF IInv
  <2>3. CASE o.t = "class"
    BY <1>5, <2>1, <2>3
  <2>4. CASE o.t = "instance"
    <3>1. c = m.heap[o.id].class
      BY <1>5, <2>4
    <3>2. m.heap[o.id].class \in 1..Len(m.heap) /\ IsClass(m.heap[m.heap[o.id].class]) /\ IsInstance(m.heap[o.id])
      BY <2>1, <2>2, <2>4, InstanceClass
    <3> QED BY <2>1, <2>4, <3>1, <3>2 DEF IsClass
  <2> QED BY <1>4, <2>3, <2>4
<1>7. IsClass(k) /\ DOMAIN m.heap = 1..Len(m.heap)
  BY <1>6, TypedObject, SeqDomain DEF IInv, Linked
<1>8. c \in Classes
  BY <1>6, <1>7 DEF Classes, ClassesOf
<1>9. /\ h.idx \in Nat \ {0}
      /\ IF h.field THEN h.key \in DOMAIN k.members /\ k.members[h.key] = [field |-> TRUE, idx |-> h.idx] ELSE h.idx <= Len(k.methods)
  BY <1>2, <1>8 DEF IInv, HandlesKept, HandleKept
<1> DEFINE u == Ref("class", c)
           i == h.idx
<1>10. u.id = c
  BY DEF Ref
<1>11. Reaches(x, 2)
  BY <1>5, ReachStart
<1>12. z = CASE ~h.field -> Put(x, u, p) [] h.field /\ o.t = "class" -> Put(x, u, q) [] OTHER -> Put(x, o, s)
  BY <1>5, <1>10 DEF Put
<1>13. m.heap[u.id] = k /\ u.id \in 1..Len(m.heap)
  BY <1>6, <1>10
<1>14. /\ p = [k EXCEPT !.methods[i].val = v] /\ q = [k EXCEPT !.defaults[i].val = v]
       /\ s = [m.heap[o.id] EXCEPT !.values[i] = v]
  OBVIOUS
<1> HIDE DEF c, k, u, z, p, q, s
<1>15. Len(k.methods) \in Nat /\ Len(k.defaults) \in Nat
  BY <1>7, SeqDomain DEF IsClass, IsMembers
<1>16. h.field => i \in 1..Len(k.defaults)
  <2> SUFFICES ASSUME h.field PROVE i \in 1..Len(k.defaults)
    OBVIOUS
  <2> DEFINE e == k.members[h.key]
  <2>1. h.key \in DOMAIN k.members /\ e.field = TRUE /\ e.idx = i /\ i \in Nat \ {0}
    BY <1>9
  <2>2. e.idx <= Len(IF e.field THEN k.defaults ELSE k.methods)
    BY <1>7, <2>1 DEF IsClass
  <2> HIDE DEF e
  <2> QED BY <1>15, <2>1, <2>2
<1>17. ~h.field => i \in 1..Len(k.methods)
  BY <1>9, <1>15
<1> HIDE DEF i
<1>18. Reaches(z, 2)
  <2>1. CASE ~h.field
    <3>1. Grows(k, p) /\ p.locked = k.locked
      BY <1>3, <1>7, <1>14, <1>17, <2>1, ClassAssign
    <3>2. Reaches(Put(x, u, p), 2)
      BY <1>5, <1>11, <1>13, <3>1, ReachPut
    <3> QED BY <1>12, <2>1, <3>2
  <2>2. CASE h.field /\ o.t = "class"
    <3>1. Grows(k, q) /\ q.locked = k.locked
      BY <1>3, <1>7, <1>14, <1>16, <2>2, ClassAssign
    <3>2. Reaches(Put(x, u, q), 2)
      BY <1>5, <1>11, <1>13, <3>1, ReachPut
    <3> QED BY <1>12, <2>2, <3>2
  <2>3. CASE h.field /\ o.t # "class"
    <3>1. Grows(m.heap[o.id], s) /\ m.heap[o.id].t # "class"
      BY <1>4, <1>6, <1>14, <2>3, InstanceGrows DEF IsInstance
    <3>2. Reaches(Put(x, o, s), 2)
      BY <1>5, <1>6, <1>11, <3>1, ReachPut
    <3> QED BY <1>12, <2>3, <3>2
  <2> QED BY <2>1, <2>2, <2>3
<1>19. Reaches(y, 1)
  BY <1>18, ReachPop
<1> HIDE DEF y
<1> QED BY <1>2, <1>19, ReachReturn

----------------------------------------------------------------------------
(* Objects are made.                                                       *)

LEMMA ReachNew ==
  ASSUME IInv, NEW y, NEW n, Reaches(y, n), y.heap = m.heap, NEW p, Made(m.heap, Append(m.heap, p), p)
  PROVE  Reaches(New(y, p), n) /\ New(y, p).heap = Append(m.heap, p) /\ New(y, p).err = y.err
<1>1. IsMachine(y) /\ Len(y.stack) = n
  BY DEF Reaches
<1> DEFINE z == New(y, p)
<1>2. IsMachine(z) /\ z.heap = Append(y.heap, p) /\ z.stack = y.stack /\ z.err = y.err
  BY ONLY <1>1, NewIs
<1>3. Steps(m.heap, Append(m.heap, p))
  BY StepsNew DEF IInv
<1> HIDE DEF z
<1>4. Reaches(z, n) /\ z.heap = Append(m.heap, p) /\ z.err = y.err
  BY <1>1, <1>2, <1>3 DEF Reaches
<1> QED BY <1>4 DEF z

LEMMA NewTableStep ==
  ASSUME IInv, sq_newtable
  PROVE  Stepped
<1> DEFINE a == <<>>
           x == Host(a)
           p == NewTable
           y == New(x, p)
           u == Ref("table", Len(y.heap))
           z == Push(y, u)
<1>1. Return("newtable", z, TRUE, 1)
  BY DEF sq_newtable
<1>2. IsSeq(a) /\ Len(a) = 0
  BY TupleSeq
<1> HIDE DEF a
<1>3. IsMachine(x) /\ x.heap = m.heap /\ Len(x.stack) = 0
  BY <1>2, Starts
<1> HIDE DEF x
<1>4. Reaches(x, 0)
  BY <1>3, ReachStart
<1>5. Made(m.heap, Append(m.heap, p), p)
  BY DEF Made, NewTable, IsObject, IsTable, EmptyFcn
<1> HIDE DEF p
<1>6. Reaches(y, 0)
  BY <1>3, <1>4, <1>5, ReachNew
<1> HIDE DEF y, u
<1>7. Reaches(z, 1)
  BY <1>6, ReachPush
<1> HIDE DEF z
<1> QED BY <1>1, <1>7, ReachReturn

\* A class starts empty, or with the members of its base.
LEMMA NewClassMade ==
  ASSUME NEW x, Linked(x.heap), NEW b, b = 0 \/ (b \in 1..Len(x.heap) /\ x.heap[b].t = "class"), NEW g
  PROVE  Made(x.heap, g, NewClass(x, b))
<1> DEFINE p == NewClass(x, b)
<1>1. CASE b = 0
  <2>1. /\ DOMAIN p = {"t", "base", "members", "defaults", "methods", "meta", "attrs", "locked", "ctor", "udsize", "typetag"}
        /\ p.t = "class" /\ p.base = 0 /\ p.members = EmptyFcn /\ p.defaults = <<>> /\ p.methods = <<>> /\ p.meta = EmptyFcn
        /\ p.locked = FALSE /\ p.ctor = -1
    BY <1>1 DEF NewClass
  <2> HIDE DEF p
  <2> DEFINE e == p.defaults
  <2>2. IsSeq(e) /\ Len(e) = 0 /\ p.methods = e
    BY <2>1, TupleSeq
  <2>3. DOMAIN p.members = {} /\ DOMAIN p.meta = {} /\ p.locked \in BOOLEAN /\ p.ctor \in Int /\ p.ctor <= 0
    <3>1. DOMAIN EmptyFcn = {}
      BY DEF EmptyFcn
    <3>2. DOMAIN p.members = {} /\ DOMAIN p.meta = {}
      BY <2>1, <3>1
    <3>3. p.locked \in BOOLEAN
      BY <2>1
    <3>4. p.ctor \in Int /\ p.ctor <= 0
      BY <2>1
    <3> QED BY <3>2, <3>3, <3>4
  <2> HIDE DEF e
  <2>4. IsClass(p)
    <3>1. IsMembers(e)
      BY <2>2 DEF IsMembers
    <3>2. p.t = "class" /\ DOMAIN p = {"t", "base", "members", "defaults", "methods", "meta", "attrs", "locked", "ctor", "udsize", "typetag"}
      BY <2>1
    <3>3. p.ctor <= Len(p.methods) /\ IsMembers(p.defaults) /\ IsMembers(p.methods)
      BY <2>2, <2>3, <3>1 DEF e
    <3> QED BY <2>3, <3>2, <3>3 DEF IsClass
  <2>5. Made(x.heap, g, p)
    BY <2>1, <2>4 DEF Made, IsObject
  <2> QED BY <2>5 DEF p
<1>2. CASE b # 0
  <2> DEFINE c == x.heap[b]
  <2>1. IsClass(c) /\ b \in 1..Len(x.heap) /\ c.t = "class"
    BY <1>2, TypedObject
  <2>2. p = [c EXCEPT !.base = b, !.attrs = Null, !.locked = FALSE, !.typetag = 0]
    BY <1>2 DEF NewClass
  <2> HIDE DEF p
  <2>3. /\ DOMAIN p = DOMAIN c /\ p.t = c.t /\ p.base = b /\ p.members = c.members /\ p.defaults = c.defaults
        /\ p.methods = c.methods /\ p.meta = c.meta /\ p.locked = FALSE /\ p.ctor = c.ctor
    BY <2>1, <2>2 DEF IsClass
  <2> HIDE DEF c
  <2>4. IsClass(p)
    <3>1. /\ \A l \in DOMAIN c.members :
               /\ c.members[l] \in [field : BOOLEAN, idx : Nat \ {0}]
               /\ c.members[l].idx <= Len(IF c.members[l].field THEN c.defaults ELSE c.methods)
               /\ \A n \in DOMAIN c.members : c.members[l] = c.members[n] => l = n
          /\ \A l \in DOMAIN c.meta : IsValue(c.meta[l]) /\ c.meta[l].t = "closure"
          /\ IsMembers(c.defaults) /\ IsMembers(c.methods) /\ c.ctor \in Int /\ c.ctor <= Len(c.methods)
          /\ DOMAIN c = {"t", "base", "members", "defaults", "methods", "meta", "attrs", "locked", "ctor", "udsize", "typetag"}
      BY ONLY <2>1 DEF IsClass
    <3> QED BY ONLY <2>1, <2>3, <3>1 DEF IsClass
  <2>5. Made(x.heap, g, p)
    BY <2>1, <2>3, <2>4 DEF Made, IsObject, c
  <2> QED BY <2>5 DEF p
<1> QED BY <1>1, <1>2

LEMMA NewClassStep ==
  ASSUME IInv, sq_newclass
  PROVE  Stepped
<1>1. PICK b \in {0} \cup {o.id : o \in Of({"class"})} :
       LET x == Host(IF b = 0 THEN <<>> ELSE <<Ref("class", b)>>)
           n == New(x, NewClass(x, b))
       IN Return("newclass", Push(Pop(n, Len(x.stack)), Ref("class", Len(n.heap))), TRUE, 1)
  BY DEF sq_newclass
<1> DEFINE a == IF b = 0 THEN <<>> ELSE <<Ref("class", b)>>
           x == Host(a)
           k == Len(x.stack)
           p == NewClass(x, b)
           y == New(x, p)
           w == Pop(y, k)
           u == Ref("class", Len(y.heap))
           z == Push(w, u)
<1>2. Return("newclass", z, TRUE, 1)
  BY <1>1
<1>3. IsSeq(a)
  BY TupleSeq
<1>4. b = 0 \/ (b \in 1..Len(m.heap) /\ m.heap[b].t = "class")
  BY <1>1, ObjectIs DEF Of
<1> HIDE DEF a
<1>5. IsMachine(x) /\ x.heap = m.heap /\ Linked(x.heap)
  BY <1>3, Starts
<1> HIDE DEF x
<1>6. k \in Nat
  BY <1>5, SeqDomain DEF IsMachine
<1>7. Reaches(x, k)
  BY <1>5, ReachStart
<1> DEFINE g == Append(m.heap, p)
<1>8. Made(x.heap, g, p)
  <2> HIDE DEF g
  <2> QED BY <1>4, <1>5, NewClassMade
<1>9. Made(m.heap, Append(m.heap, p), p)
  BY <1>5, <1>8
<1> HIDE DEF k, p, g
<1>10. Reaches(y, k)
  BY <1>5, <1>7, <1>9, ReachNew
<1> HIDE DEF y, u
<1>11. Reaches(w, k - k)
  BY <1>6, <1>10, ReachPop
<1>12. Reaches(w, 0)
  BY <1>6, <1>11
<1> HIDE DEF w
<1>13. Reaches(z, 1)
  BY <1>12, ReachPush
<1> HIDE DEF z
<1> QED BY <1>2, <1>13, ReachReturn

\* A copy of a table or of an instance.
LEMMA CopyMade ==
  ASSUME IInv, NEW o \in Objects, o.t \in {"table", "instance"}
  PROVE  Made(m.heap, Append(m.heap, m.heap[o.id]), m.heap[o.id])
<1> DEFINE p == m.heap[o.id]
           g == Append(m.heap, p)
<1>1. o.id \in 1..Len(m.heap) /\ p.t = o.t /\ IsSeq(m.heap)
  BY ObjectIs DEF IInv, Linked
<1>2. \A i \in 1..Len(m.heap) : g[i] = m.heap[i]
  BY <1>1, AppendSeq
<1>3. IsObject(p)
  BY <1>1 DEF IInv, Linked
<1> HIDE DEF g
<1>4. p.t = "instance" => p.class \in 1..Len(m.heap) /\ m.heap[p.class].t = "class"
  BY <1>1 DEF IInv, Linked
<1>5. p.t = "instance" => Len(p.values) = Len(m.heap[p.class].defaults) /\ p.ud = m.heap[p.class].udsize /\ m.heap[p.class].locked
  BY <1>1 DEF IInv, Fits
<1>6. p.t = "table" => \E j \in 1..Len(m.heap) : m.heap[j].t = "table" /\ p.delegate = m.heap[j].delegate
  BY <1>1
<1> HIDE DEF p
<1>7. Made(m.heap, g, p)
  BY <1>1, <1>2, <1>3, <1>4, <1>5, <1>6 DEF Made
<1> QED BY <1>7 DEF g, p

LEMMA CloneIs ==
  ASSUME IInv, NEW x, IsMachine(x), x.heap = m.heap, NEW n, Len(x.stack) = n, NEW o \in Objects
  PROVE  Answers(Clone(x, o), n)
<1> DEFINE p == Obj(x, o)
           y == New(x, p)
           copy == Ref(o.t, Len(y.heap))
           mm == GetMetaMethod(y, copy, "_cloned")
           a == <<copy, o>>
           c == CallMetaMethod(y, mm, a)
           r == Clone(x, o)
<1>1. Reaches(x, n)
  BY ReachStart
<1>2. \/ r = Fail(x) \/ (o.t \in {"table", "instance"} /\ r = R(y, TRUE, copy))
      \/ (o.t \in {"table", "instance"} /\ mm # Absent /\ r = [c EXCEPT !.v = copy])
  BY DEF Clone
<1>3. CASE r = Fail(x)
  BY <1>1, <1>3, AnswersFail
<1>4. CASE o.t \in {"table", "instance"}
  <2>1. p = m.heap[o.id] /\ o.id \in 1..Len(m.heap) /\ p.t = o.t
    BY ObjectIs DEF Obj
  <2>2. Made(m.heap, Append(m.heap, p), p)
    BY <1>4, <2>1, CopyMade
  <2> HIDE DEF p
  <2>3. Reaches(y, n) /\ y.heap = Append(m.heap, p)
    BY <1>1, <2>2, ReachNew
  <2>4. IsMachine(y) /\ Linked(y.heap) /\ Len(y.stack) = n
    BY <2>3, StepsLinked DEF Reaches, IInv
  <2>5. IsSeq(m.heap) /\ Len(m.heap) \in Nat
    BY SeqDomain DEF IInv, Linked
  <2>6. Len(y.heap) = Len(m.heap) + 1 /\ y.heap[Len(m.heap) + 1] = p
    BY <2>3, <2>5, AppendSeq
  <2> HIDE DEF y
  <2>7. copy.id = Len(y.heap) /\ copy.t = o.t
    BY DEF Ref
  <2> HIDE DEF copy
  <2>8. IsRef(y, copy)
    BY <2>1, <2>5, <2>6, <2>7 DEF IsRef
  <2>9. CASE r = R(y, TRUE, copy)
    <3>1. Answers(R(y, TRUE, copy), n)
      BY <2>3, AnswersDone
    <3> QED BY <2>9, <3>1
  <2>10. CASE mm # Absent /\ r = [c EXCEPT !.v = copy]
    <3>1. IsSeq(a) /\ "_cloned" \in MetaMethods
      BY TupleSeq DEF MetaMethods
    <3> HIDE DEF a
    <3>2. Quiet(y, c)
      BY <2>4, <2>8, <2>10, <3>1, CallMetaMethodIs
    <3> HIDE DEF c, r, mm
    <3>3. DOMAIN r = {"m", "ok", "v"} /\ r.ok = c.ok /\ r.m = c.m
      BY <2>10, <3>2 DEF Quiet
    <3>4. IsMachine(c.m) /\ c.m.heap = y.heap /\ Len(c.m.stack) = n /\ c.ok \in BOOLEAN
          /\ (c.ok \/ c.m.err # "stale" \/ NotCallableIn(y.heap))
      BY <2>4, <3>2 DEF Quiet
    <3>5. Reaches(c.m, n)
      BY <2>3, <3>4 DEF Reaches
    <3>6. Answers(r, n)
      BY <3>3, <3>4, <3>5 DEF Answers
    <3> QED BY <3>6 DEF r
  <2>11. CASE r = Fail(x)
    BY <1>3, <2>11
  <2> QED BY <1>2, <2>9, <2>10, <2>11
<1> QED BY <1>2, <1>3, <1>4

LEMMA StackSet ==
  ASSUME NEW w, IsMachine(w), NEW u
  PROVE  LET z == [w EXCEPT !.stack[2] = u] IN IsMachine(z) /\ z.heap = w.heap /\ Len(z.stack) = Len(w.stack)
<1> DEFINE s == w.stack
           i == 2
           t == [s EXCEPT ![i] = u]
           z == [w EXCEPT !.stack = t]
<1>1. DOMAIN w = {"heap", "stack", "err", "entered"} /\ IsSeq(s) /\ w.entered \in Nat
  BY DEF IsMachine
<1>2. z = [w EXCEPT !.stack[2] = u]
  BY <1>1
<1> HIDE DEF s, i
<1>3. IsSeq(t) /\ Len(t) = Len(s)
  BY <1>1, ExceptSeq
<1> HIDE DEF t
<1>4. DOMAIN z = DOMAIN w /\ z.heap = w.heap /\ z.entered = w.entered /\ z.stack = t
  BY <1>1
<1> HIDE DEF z
<1>5. IsMachine(z) /\ z.heap = w.heap /\ Len(z.stack) = Len(s)
  BY <1>1, <1>3, <1>4 DEF IsMachine
<1> QED BY <1>2, <1>5 DEF s

LEMMA CloneStep ==
  ASSUME IInv, sq_clone
  PROVE  Stepped
<1>1. PICK o \in Objects :
       LET c == Clone(Push(Host(<<o>>), Null), o)
       IN IF c.ok THEN Return("clone", [c.m EXCEPT !.stack[2] = c.v], TRUE, 2)
          ELSE Return("clone", Pop(c.m, 1), FALSE, 1)
  BY DEF sq_clone
<1> DEFINE v == Null
           x == Host(<<o>>)
           y == Push(x, v)
           r == Clone(y, o)
           w == r.m
           u == r.v
           z == [w EXCEPT !.stack[2] = u]
           e == Pop(w, 1)
<1>2. Return("clone", z, TRUE, 2) \/ (~r.ok /\ Return("clone", e, FALSE, 1))
  BY <1>1
<1>3. IsSeq(<<o>>) /\ Len(<<o>>) = 1
  BY TupleSeq
<1>4. IsMachine(x) /\ x.heap = m.heap /\ Len(x.stack) = 1
  BY <1>3, Starts
<1> HIDE DEF x, v
<1>5. Reaches(x, 1)
  BY <1>4, ReachStart
<1>6. Reaches(y, 2) /\ y.heap = m.heap
  BY <1>4, <1>5, ReachPush
<1>7. IsMachine(y) /\ Len(y.stack) = 2
  BY <1>6 DEF Reaches
<1> HIDE DEF y
<1>8. Answers(r, 2)
  BY <1>6, <1>7, CloneIs
<1> HIDE DEF r, u
<1>9. Reaches(w, 2) /\ (r.ok \/ w.err # "stale" \/ NotCallableIn(w.heap))
  BY <1>8 DEF Answers
<1> HIDE DEF w
<1>10. Reaches(e, 1) /\ e.heap = w.heap /\ e.err = w.err
  BY <1>9, ReachPop
<1>11. IsMachine(z) /\ z.heap = w.heap /\ Len(z.stack) = Len(w.stack)
  BY <1>9, StackSet DEF Reaches
<1> HIDE DEF z, e
<1>12. Reaches(z, 2)
  BY <1>9, <1>11 DEF Reaches
<1> QED BY <1>2, <1>9, <1>10, <1>12, ReachReturn

LEMMA LockGrows ==
  ASSUME NEW c, IsClass(c)
  PROVE  LET p == [c EXCEPT !.locked = TRUE] IN Grows(c, p) /\ p.locked /\ p.defaults = c.defaults /\ p.udsize = c.udsize
<1> DEFINE p == [c EXCEPT !.locked = TRUE]
<1>1. /\ DOMAIN p = DOMAIN c /\ p.t = c.t /\ p.base = c.base /\ p.members = c.members /\ p.defaults = c.defaults
      /\ p.methods = c.methods /\ p.meta = c.meta /\ p.locked = TRUE /\ p.ctor = c.ctor /\ p.udsize = c.udsize
  BY DEF IsClass
<1> HIDE DEF p
<1>2. IsClass(p)
  <2>1. p.locked \in BOOLEAN
    BY <1>1
  <2>2. /\ DOMAIN p = DOMAIN c /\ p.t = c.t /\ p.members = c.members /\ p.defaults = c.defaults
        /\ p.methods = c.methods /\ p.meta = c.meta /\ p.ctor = c.ctor
    BY <1>1
  <2> QED BY ONLY IsClass(c), <2>1, <2>2 DEF IsClass
<1>3. Len(c.methods) \in Nat
  BY SeqDomain DEF IsClass, IsMembers
<1>4. Grows(c, p)
  BY <1>1, <1>2, <1>3 DEF Grows, IsObject, IsClass
<1> QED BY <1>1, <1>4 DEF p

\* An instance is made of a class that is locked then, with its bases.
LEMMA InstanceSteps ==
  ASSUME NEW h, Linked(h), Fits(h), NEW g, IsSeq(g), Len(g) = Len(h), NEW c \in 1..Len(h), h[c].t = "class",
         \A i \in 1..Len(h) : Grows(h[i], g[i]) /\ (h[i].t = "class" /\ g[i].locked /\ h[i].base # 0 => g[h[i].base].locked),
         g[c].locked,
         NEW p, IsInstance(p), p.class = c, Len(p.values) = Len(g[c].defaults), p.ud = g[c].udsize
  PROVE  Steps(h, Append(g, p))
<1> DEFINE f == Append(g, p)
<1>1. IsSeq(f) /\ Len(f) = Len(h) + 1 /\ f[Len(h) + 1] = p /\ \A i \in 1..Len(h) : f[i] = g[i]
  BY AppendSeq
<1>2. Len(h) \in Nat
  BY SeqDomain DEF Linked
<1> HIDE DEF f
<1>3. Made(h, f, p)
  BY <1>1 DEF Made, IsObject, IsInstance
<1>4. \A i \in 1..Len(h) : h[i].t = "class" /\ h[i].base # 0 => h[i].base \in 1..Len(h)
  BY DEF Linked
<1>5. \A i \in 1..Len(h) : Grows(h[i], f[i]) /\ (h[i].t = "class" /\ f[i].locked /\ h[i].base # 0 => f[h[i].base].locked)
  BY <1>1, <1>4
<1>6. Steps(h, f)
  BY <1>1, <1>2, <1>3, <1>5 DEF Steps
<1> QED BY <1>6 DEF f

LEMMA CreateInstanceIs ==
  ASSUME IInv, NEW x, IsMachine(x), x.heap = m.heap, NEW n, Len(x.stack) = n, NEW c \in 1..Len(m.heap), m.heap[c].t = "class"
  PROVE  Reaches(CreateInstance(x, c), n)
<1> DEFINE y == IF x.heap[c].locked THEN x ELSE Lock(x, c)
           d == y.heap[c]
           val == [i \in DOMAIN d.defaults |-> d.defaults[i].val]
           p == [t |-> "instance", class |-> c, values |-> val, ud |-> d.udsize, up |-> 0]
           z == New(y, p)
           h == m.heap
           up == Ancestors(x, c)
<1>1. CreateInstance(x, c) = z
  BY DEF CreateInstance
<1>2. Linked(h) /\ Fits(h) /\ x.heap = h /\ IsSeq(h) /\ DOMAIN h = 1..Len(h)
  BY SeqDomain DEF IInv, Linked
<1>3. c \in ClassesOf(x) /\ h[c].t = "class"
  BY <1>2 DEF ClassesOf
<1> HIDE DEF h
<1>4. c \in up /\ up \subseteq ClassesOf(x)
  BY <1>2, <1>3, AncestorsBelow
<1>5. /\ IsMachine(y) /\ IsSeq(y.heap) /\ Len(y.heap) = Len(h) /\ y.stack = x.stack
      /\ y.heap[c].locked
      /\ \A i \in 1..Len(h) : Grows(h[i], y.heap[i]) /\ (h[i].t = "class" /\ y.heap[i].locked /\ h[i].base # 0 => y.heap[h[i].base].locked)
  <2>1. CASE x.heap[c].locked
    <3>1. y = x
      BY <2>1
    <3> HIDE DEF y
    <3>2. \A i \in 1..Len(h) : Grows(h[i], h[i])
      BY <1>2, GrowsSelf DEF Linked
    <3>3. \A i \in 1..Len(h) : h[i].t = "class" /\ h[i].locked /\ h[i].base # 0 => h[h[i].base].locked
      BY <1>2 DEF Fits
    <3> QED BY <1>2, <2>1, <3>1, <3>2, <3>3
  <2>2. CASE ~x.heap[c].locked
    <3> DEFINE g == [i \in DOMAIN h |-> IF i \in up THEN [h[i] EXCEPT !.locked = TRUE] ELSE h[i]]
    <3>1. y = [x EXCEPT !.heap = g]
      BY <1>2, <2>2 DEF Lock
    <3> HIDE DEF y
    <3>2. IsMachine(y) /\ y.heap = g /\ y.stack = x.stack
      BY <3>1 DEF IsMachine
    <3>3. /\ IsSeq(g) /\ Len(g) = Len(h)
          /\ \A i \in 1..Len(h) : g[i] = IF i \in up THEN [h[i] EXCEPT !.locked = TRUE] ELSE h[i]
      BY <1>2 DEF IsSeq
    <3> HIDE DEF g, up
    <3>4. \A i \in up : i \in 1..Len(h) /\ IsClass(h[i])
      BY <1>2, <1>4, TypedObject DEF ClassesOf
    <3>5. \A i \in up : Grows(h[i], g[i]) /\ g[i].locked
      BY <3>3, <3>4, LockGrows
    <3>6. \A i \in 1..Len(h) : i \notin up => Grows(h[i], g[i]) /\ g[i] = h[i]
      <4>1. \A i \in 1..Len(h) : i \notin up => g[i] = h[i]
        BY ONLY <3>3
      <4>2. \A i \in 1..Len(h) : IsObject(h[i])
        BY ONLY <1>2 DEF Linked
      <4>3. \A i \in 1..Len(h) : Grows(h[i], h[i])
        BY ONLY <4>2, GrowsSelf
      <4> QED BY ONLY <4>1, <4>3
    <3>7. ASSUME NEW i \in 1..Len(h), h[i].t = "class", g[i].locked, h[i].base # 0 PROVE g[h[i].base].locked
      <4> DEFINE b == h[i].base
      <4>1. b \in 1..Len(h)
        BY <1>2, <3>7 DEF Linked
      <4>2. CASE i \in up
        <5>1. b \in up
          BY <1>2, <1>3, <3>7, <4>2, AncestorsClosed DEF up
        <5> QED BY <3>5, <5>1
      <4>3. CASE i \notin up
        <5>1. h[b].locked
          BY <1>2, <3>6, <3>7, <4>3 DEF Fits
        <5> HIDE DEF b
        <5>2. g[b].locked
          BY <3>5, <3>6, <4>1, <5>1
        <5> QED BY <5>2 DEF b
      <4> QED BY <4>2, <4>3
    <3>8. c \in 1..Len(h)
      BY DEF h
    <3>9. g[c].locked
      BY <1>4, <3>5
    <3>10. \A i \in 1..Len(h) : Grows(h[i], g[i])
      BY <3>5, <3>6
    <3> QED BY <3>2, <3>3, <3>7, <3>9, <3>10
  <2> QED BY <2>1, <2>2
<1> HIDE DEF y
<1>6. c \in 1..Len(h)
  BY DEF h
<1>7. IsClass(h[c])
  BY <1>2, <1>3, <1>6, TypedObject
<1>8. IsClass(d)
  <2>1. Grows(h[c], d)
    BY <1>5, <1>6
  <2> HIDE DEF d
  <2> QED BY <1>7, <2>1 DEF Grows, IsObject, IsTable, IsInstance, IsClass
<1>9. IsSeq(val) /\ Len(val) = Len(d.defaults)
  <2> DEFINE s == d.defaults
  <2>1. IsSeq(s)
    BY <1>8 DEF IsClass, IsMembers
  <2> HIDE DEF d, s
  <2>2. DOMAIN s = 1..Len(s) /\ Len(s) \in Nat
    BY <2>1, SeqDomain
  <2>3. val = [i \in 1..Len(s) |-> s[i].val]
    BY <2>2 DEF s
  <2> HIDE DEF val
  <2>4. IsSeq(val) /\ Len(val) = Len(s)
    BY <2>2, <2>3 DEF IsSeq
  <2> QED BY <2>4 DEF s
<1>10. DOMAIN p = {"t", "class", "values", "ud", "up"} /\ p.t = "instance" /\ p.class = c /\ p.values = val /\ p.ud = d.udsize
  OBVIOUS
<1> HIDE DEF p, val
<1>11. IsInstance(p)
  BY <1>9, <1>10 DEF IsInstance
<1> DEFINE g == y.heap
<1>12. /\ IsSeq(g) /\ Len(g) = Len(h) /\ g[c].locked /\ Len(p.values) = Len(g[c].defaults) /\ p.ud = g[c].udsize
       /\ \A i \in 1..Len(h) : Grows(h[i], g[i]) /\ (h[i].t = "class" /\ g[i].locked /\ h[i].base # 0 => g[h[i].base].locked)
  BY <1>5, <1>9, <1>10
<1> HIDE DEF g
<1>13. Steps(h, Append(g, p))
  BY <1>2, <1>3, <1>6, <1>10, <1>11, <1>12, InstanceSteps
<1>14. IsMachine(z) /\ z.heap = Append(g, p) /\ z.stack = y.stack
  BY <1>5, NewIs DEF g
<1> HIDE DEF z
<1>15. Reaches(z, n)
  BY <1>5, <1>13, <1>14 DEF Reaches, h
<1> QED BY <1>1, <1>15

LEMMA CreateInstanceStep ==
  ASSUME IInv, sq_createinstance
  PROVE  Stepped
<1>1. PICK c \in Of({"class"}) :
       LET n == CreateInstance(Host(<<c>>), c.id)
       IN Return("createinstance", Push(n, Ref("instance", Len(n.heap))), TRUE, 2)
  BY DEF sq_createinstance
<1> DEFINE x == Host(<<c>>)
           i == c.id
           y == CreateInstance(x, i)
           u == Ref("instance", Len(y.heap))
           z == Push(y, u)
<1>2. Return("createinstance", z, TRUE, 2)
  BY <1>1
<1>3. IsSeq(<<c>>) /\ Len(<<c>>) = 1 /\ c \in Objects /\ c.t = "class"
  BY TupleSeq DEF Of
<1>4. IsMachine(x) /\ x.heap = m.heap /\ Len(x.stack) = 1
  BY <1>3, Starts
<1>5. i \in 1..Len(m.heap) /\ m.heap[i].t = "class"
  BY <1>3, ObjectIs
<1> HIDE DEF x, i
<1>6. Reaches(y, 1)
  BY <1>4, <1>5, CreateInstanceIs
<1> HIDE DEF y, u
<1>7. Reaches(z, 2)
  BY <1>6, ReachPush
<1> HIDE DEF z
<1> QED BY <1>2, <1>7, ReachReturn

----------------------------------------------------------------------------
(* Delegates are set.                                                      *)

\* A table is followed by its delegate and what follows the delegate.
LEMMA DelegatesStep ==
  ASSUME NEW x, Linked(x.heap), NEW c \in TablesOf(x)
  PROVE  Delegates(x, c) = {c} \cup (IF x.heap[c].delegate = 0 THEN {} ELSE Delegates(x, x.heap[c].delegate))
<1> DEFINE D == TablesOf(x)
           next == [i \in D |-> x.heap[i].delegate]
           q == [op |-> "up", next |-> next]
           E(f) == [i \in D |-> {i} \cup IF x.heap[i].delegate = 0 THEN {} ELSE f[x.heap[i].delegate]]
<1>1. \A n \in D : \A v : Via(q, n, v) = {n} \cup (IF next[n] = 0 THEN {} ELSE v)
  BY DEF Via
<1>2. \E f : f = [n \in D |-> Via(q, n, f[next[n]])]
  <2>1. Ends(D, next)
    BY DelegatesEnd
  <2>2. Closed(q, D, next)
    <3>1. \A n \in D : next[n] \notin D => next[n] = 0
      BY DelegatesEnd
    <3> HIDE DEF q, next, D
    <3> QED BY <1>1, <3>1 DEF Closed
  <2> HIDE DEF D, next, q
  <2> QED BY <2>1, <2>2, Recursion
<1>3. \E f : f = E(f)
  <2>1. PICK f : f = [n \in D |-> Via(q, n, f[next[n]])]
    BY <1>2
  <2>2. \A n \in D : f[n] = {n} \cup (IF next[n] = 0 THEN {} ELSE f[next[n]])
    <3> HIDE DEF q, D, next
    <3> QED BY <1>1, <2>1
  <2>3. f = [n \in D |-> f[n]]
    <3> HIDE DEF q, D, next
    <3> QED BY <2>1
  <2>4. f = E(f)
    <3>1. \A n \in D : f[n] = {n} \cup IF x.heap[n].delegate = 0 THEN {} ELSE f[x.heap[n].delegate]
      BY <2>2
    <3> HIDE DEF D
    <3> QED BY <2>3, <3>1
  <2> QED BY <2>4
<1> DEFINE up == CHOOSE f : f = E(f)
<1>4. up = E(up)
  <2> HIDE DEF E
  <2> QED BY <1>3
<1>5. \A i : Delegates(x, i) = IF i = 0 THEN {} ELSE up[i]
  BY DEF Delegates
<1>6. \A i \in D : up[i] = {i} \cup IF x.heap[i].delegate = 0 THEN {} ELSE up[x.heap[i].delegate]
  <2> HIDE DEF up
  <2> QED BY <1>4
<1>7. c # 0
  BY DelegatesEnd
<1> HIDE DEF up
<1> QED BY <1>5, <1>6, <1>7

\* What follows a table are tables, and includes, with each, its delegate.
LEMMA DelegatesClosed ==
  ASSUME NEW x, Linked(x.heap), NEW c \in TablesOf(x)
  PROVE  /\ c \in Delegates(x, c)
         /\ \A j \in Delegates(x, c) : j \in TablesOf(x) /\ (x.heap[j].delegate # 0 => x.heap[j].delegate \in Delegates(x, c))
<1> DEFINE G == {i \in TablesOf(x) :
                   \A j \in Delegates(x, i) : j \in TablesOf(x) /\ (x.heap[j].delegate # 0 => x.heap[j].delegate \in Delegates(x, i))}
<1>1. ASSUME NEW i \in TablesOf(x), x.heap[i].delegate # 0 => x.heap[i].delegate \in G PROVE i \in G
  <2> DEFINE b == x.heap[i].delegate
  <2>1. Delegates(x, i) = {i} \cup (IF b = 0 THEN {} ELSE Delegates(x, b))
    BY DelegatesStep
  <2>2. b # 0 => b \in TablesOf(x)
    BY DelegatesEnd
  <2>3. b # 0 => b \in Delegates(x, b)
    BY <2>2, DelegatesStep
  <2>4. b # 0 => \A j \in Delegates(x, b) : j \in TablesOf(x) /\ (x.heap[j].delegate # 0 => x.heap[j].delegate \in Delegates(x, b))
    BY <1>1
  <2> QED BY <2>1, <2>3, <2>4
<1>2. TablesOf(x) \subseteq G
  <2> HIDE DEF G
  <2> QED BY <1>1, DelegateInduction
<1>3. c \in Delegates(x, c)
  BY DelegatesStep
<1> QED BY <1>2, <1>3

\* SetDelegate closes no cycle.
LEMMA SetDelegateLinked ==
  ASSUME NEW x, Linked(x.heap), NEW i \in TablesOf(x), NEW d \in {0} \cup TablesOf(x), i \notin Delegates(x, d)
  PROVE  LET g == [x.heap EXCEPT ![i] = [x.heap[i] EXCEPT !.delegate = d]]
         IN /\ Linked(g) /\ Len(g) = Len(x.heap)
            /\ g[i].t = "table" /\ \A j \in 1..Len(x.heap) : j # i => g[j] = x.heap[j]
<1> DEFINE h == x.heap
           p == [h[i] EXCEPT !.delegate = d]
           g == [h EXCEPT ![i] = p]
           T == TablesOf(x)
<1>1. /\ T = {j \in 1..Len(h) : h[j].t = "table"} /\ 0 \notin T
      /\ \A j \in T : h[j].delegate # 0 => h[j].delegate \in T
  BY DelegatesEnd
<1>2. IsSeq(h) /\ h # <<>> /\ h[1].t = "table" /\ Len(h) \in Nat /\ i \in 1..Len(h)
  BY <1>1, SeqDomain DEF Linked
<1>3. IsTable(h[i])
  BY <1>1, TypedObject
<1>4. IsTable(p) /\ p.t = "table" /\ p.delegate = d
  <2>1. DOMAIN p = DOMAIN h[i] /\ p.t = h[i].t /\ p.slots = h[i].slots /\ p.delegate = d
    BY <1>3 DEF IsTable
  <2> HIDE DEF p
  <2> QED BY <1>3, <2>1 DEF IsTable
<1> HIDE DEF p
<1>5. IsSeq(g) /\ Len(g) = Len(h) /\ g[i] = p /\ \A j \in 1..Len(h) : j # i => g[j] = h[j]
  <2>1. g = Assigned(h, i, p)
    BY DEF Assigned
  <2> HIDE DEF g, h
  <2> QED BY ONLY <1>2, <2>1, ExceptAt
<1> HIDE DEF g
<1>6. \A j \in 1..Len(h) : g[j].t = h[j].t
  BY <1>3, <1>4, <1>5 DEF IsTable
<1>7. T = {j \in 1..Len(g) : g[j].t = "table"}
  BY <1>1, <1>5, <1>6
<1>8. ASSUME NEW j \in 1..Len(g)
      PROVE  /\ IsObject(g[j])
             /\ g[j].t = "table" => g[j].delegate \in {0} \cup {l \in 1..Len(g) : g[l].t = "table"}
             /\ g[j].t = "class" => g[j].base \in {0} \cup {l \in 1..Len(g) : l < j /\ g[l].t = "class"}
             /\ g[j].t = "instance" => g[j].class \in {l \in 1..Len(g) : g[l].t = "class"}
  <2>1. CASE j = i
    BY <1>4, <1>5, <1>7, <2>1 DEF IsObject
  <2>2. CASE j # i
    <3>1. g[j] = h[j] /\ j \in 1..Len(h)
      BY <1>5, <2>2
    <3>2. /\ IsObject(h[j])
          /\ h[j].t = "table" => h[j].delegate \in {0} \cup T
          /\ h[j].t = "class" => h[j].base \in {0} \cup {l \in 1..Len(h) : l < j /\ h[l].t = "class"}
          /\ h[j].t = "instance" => h[j].class \in {l \in 1..Len(h) : h[l].t = "class"}
      BY <1>1, <3>1 DEF Linked
    <3>3. h[j].t = "class" => h[j].base \in {0} \cup {l \in 1..Len(g) : l < j /\ g[l].t = "class"}
      BY <1>5, <1>6, <3>2
    <3>4. h[j].t = "instance" => h[j].class \in {l \in 1..Len(g) : g[l].t = "class"}
      BY <1>5, <1>6, <3>2
    <3> QED BY <1>7, <3>1, <3>2, <3>3, <3>4
  <2> QED BY <2>1, <2>2
<1>9. ASSUME NEW S \in SUBSET T, S # {} PROVE \E j \in S : g[j].delegate \notin S
  <2> SUFFICES ASSUME \A j \in S : g[j].delegate \in S PROVE FALSE
    OBVIOUS
  <2>1. \A j \in S : j \in 1..Len(h) /\ (j # i => h[j].delegate \in S)
    BY <1>1, <1>5
  <2>2. \A R1 \in SUBSET T : R1 # {} => \E j \in R1 : h[j].delegate \notin R1
    BY <1>1 DEF Linked
  <2>3. i \in S
    BY <1>9, <2>1, <2>2
  <2>4. d \in S /\ d \in T
    BY <1>4, <1>5, <2>3
  <2> DEFINE F == Delegates(x, d) \cap S
  <2>5. d \in Delegates(x, d) /\ \A j \in Delegates(x, d) : h[j].delegate # 0 => h[j].delegate \in Delegates(x, d)
    BY <2>4, DelegatesClosed
  <2>6. F \in SUBSET T /\ F # {}
    BY <2>4, <2>5
  <2>7. PICK j \in F : h[j].delegate \notin F
    BY <2>2, <2>6
  <2>8. j # i /\ h[j].delegate \in S /\ h[j].delegate # 0
    BY <1>1, <2>1, <2>7
  <2> QED BY <2>5, <2>7, <2>8
<1>10. g # <<>> /\ g[1].t = "table"
  <2>1. Len(h) # 0
    BY <1>2
  <2>2. Len(<<>>) = 0
    BY TupleSeq
  <2>3. g # <<>>
    BY <1>5, <2>1, <2>2
  <2>4. 1 \in 1..Len(h)
    BY <1>2
  <2> QED BY <1>2, <1>6, <2>3, <2>4
<1>11. Linked(g)
  BY <1>5, <1>7, <1>8, <1>9, <1>10 DEF Linked
<1> QED BY <1>4, <1>5, <1>11 DEF g, p

LEMMA SetDelegateStep ==
  ASSUME IInv, sq_setdelegate
  PROVE  Stepped
<1>1. PICK o \in Objects, d \in Objects \cup {Null} :
       LET x == Host(<<o, d>>)
           s == IF d = Null THEN SetDelegate(x, o, 0) ELSE SetDelegate(x, o, d.id)
       IN IF o.t = "table" /\ d.t \in {"table", "null"} /\ s # Absent
          THEN Return("setdelegate", Pop(s, 1), TRUE, 1)
          ELSE Return("setdelegate", Raise(x), FALSE, 2)
  BY DEF sq_setdelegate
<1> DEFINE x == Host(<<o, d>>)
           i == o.id
           e == IF d = Null THEN 0 ELSE d.id
           p == [m.heap[i] EXCEPT !.delegate = e]
           y == Put(x, o, p)
           z == Pop(y, 1)
           f == Raise(x)
           h == m.heap
           g == [h EXCEPT ![i] = p]
<1>2. IsSeq(<<o, d>>) /\ Len(<<o, d>>) = 2
  BY TupleSeq
<1>3. IsMachine(x) /\ x.heap = h /\ Len(x.stack) = 2 /\ Linked(x.heap) /\ Fits(x.heap) /\ Obj(x, o) = h[i]
  BY <1>2, Starts
<1>4. \/ /\ o.t = "table" /\ d.t \in {"table", "null"} /\ i \notin Delegates(x, e)
         /\ Return("setdelegate", z, TRUE, 1)
      \/ Return("setdelegate", f, FALSE, 2)
  <2> HIDE DEF x
  <2> QED BY <1>1, <1>3 DEF SetDelegate, x
<1> HIDE DEF x
<1>5. Reaches(x, 2)
  BY <1>3, ReachStart
<1>6. Reaches(f, 2) /\ f.err = "raised"
  BY <1>5, ReachRaise
<1>7. CASE Return("setdelegate", f, FALSE, 2)
  <2> HIDE DEF f
  <2> QED BY <1>6, <1>7, ReachReturn
<1>8. CASE o.t = "table" /\ d.t \in {"table", "null"} /\ i \notin Delegates(x, e) /\ Return("setdelegate", z, TRUE, 1)
  <2>1. i \in 1..Len(h) /\ h[i].t = "table" /\ DOMAIN h = 1..Len(h)
    BY <1>8, ObjectIs, SeqDomain DEF IInv, Linked
  <2>2. i \in TablesOf(x)
    BY <1>3, <2>1 DEF TablesOf
  <2>3. e \in {0} \cup TablesOf(x)
    <3>1. CASE d = Null
      BY <3>1
    <3>2. CASE d # Null
      <4>1. d \in Objects
        BY <3>2
      <4>2. d.id \in 1..Len(h) /\ d.t = h[d.id].t /\ d.t = "table"
        BY <1>8, <4>1, ObjectIs
      <4> QED BY <1>3, <2>1, <3>2, <4>2 DEF TablesOf
    <3> QED BY <3>1, <3>2
  <2>4. /\ Linked(g) /\ Len(g) = Len(h) /\ g[i].t = "table" /\ \A j \in 1..Len(h) : j # i => g[j] = h[j]
    <3> HIDE DEF e, i
    <3> QED BY <1>3, <1>8, <2>2, <2>3, SetDelegateLinked
  <2>5. IsMachine(y) /\ y.heap = g /\ y.stack = x.stack
    <3> HIDE DEF p
    <3> QED BY <1>3, PutIs
  <2> HIDE DEF y, g, p
  <2>6. Len(y.stack) = 2 /\ 1 <= Len(y.stack)
    <3> DEFINE s == x.stack
    <3>1. Len(s) = 2 /\ y.stack = s
      BY <1>3, <2>5
    <3> HIDE DEF s
    <3> QED BY ONLY <3>1
  <2>7. IsMachine(z) /\ z.heap = g /\ Len(z.stack) = Len(y.stack) - 1
    BY <2>5, <2>6, Pop1Is
  <2>8. Len(z.stack) = 1
    BY ONLY <2>6, <2>7
  <2> HIDE DEF z
  <2>9. /\ m' = [z EXCEPT !.stack = <<>>, !.entered = 0, !.err = IF @ = "none" THEN @ ELSE "raised"]
        /\ ret' = [ok |-> TRUE, fresh |-> z.err # "stale", extra |-> Len(z.stack) - 1, set |-> "setdelegate" \in {"set", "scriptset"}]
    BY <1>8 DEF Return
  <2>10. IsMachine(m') /\ m'.heap = g
    BY <2>7, <2>9, TupleSeq DEF IsMachine
  <2>11. EndsCleanly'
    <3>1. ret'.extra = 0 /\ ret'.ok = TRUE
      BY <2>8, <2>9
    <3> QED BY <3>1 DEF EndsCleanly
  <2> HIDE DEF h, i
  <2>12. Linked(h) /\ Fits(h)
    BY <1>3
  <2>13. Fits(g)
    <3>1. \A j \in 1..Len(h) : h[j].t = "instance" => h[j].class \in 1..Len(h) /\ h[h[j].class].t = "class"
      BY <2>12 DEF Linked
    <3>2. \A j \in 1..Len(h) : h[j].t = "class" /\ h[j].base # 0 => h[j].base \in 1..Len(h) /\ h[h[j].base].t = "class"
      BY <2>12 DEF Linked
    <3>3. \A j \in 1..Len(h) : h[j].t # "table" => g[j] = h[j]
      BY <2>1, <2>4
    <3>4. \A j \in 1..Len(h) : g[j].t # "table" => h[j].t # "table" /\ g[j] = h[j]
      BY <2>1, <2>4
    <3>5. ASSUME NEW j \in 1..Len(g)
          PROVE  /\ g[j].t = "instance" => /\ Len(g[j].values) = Len(g[g[j].class].defaults)
                                           /\ g[j].ud = g[g[j].class].udsize
                                           /\ g[g[j].class].locked
                 /\ g[j].t = "class" /\ g[j].locked /\ g[j].base # 0 => g[g[j].base].locked
      <4>1. j \in 1..Len(h)
        BY <2>4
      <4>2. CASE g[j].t = "instance"
        <5>1. g[j] = h[j]
          BY <3>4, <4>1, <4>2
        <5>2. g[h[j].class] = h[h[j].class]
          BY <3>1, <3>3, <4>1, <4>2, <5>1
        <5> QED BY <2>12, <4>1, <4>2, <5>1, <5>2 DEF Fits
      <4>3. CASE g[j].t = "class"
        <5>1. g[j] = h[j]
          BY <3>4, <4>1, <4>3
        <5>2. h[j].base # 0 => g[h[j].base] = h[h[j].base]
          BY <3>2, <3>3, <4>1, <4>3, <5>1
        <5> QED BY <2>12, <4>1, <4>3, <5>1, <5>2 DEF Fits
      <4> QED BY <4>2, <4>3
    <3> QED BY <3>5 DEF Fits
  <2>14. ClassSteps(h, g)
    <3>1. Len(h) \in Nat
      BY <2>12, SeqDomain DEF Linked
    <3>2. \A j \in 1..Len(h) : g[j].t = h[j].t
      BY <2>1, <2>4
    <3>3. \A j \in 1..Len(h) : h[j].t = "class" => g[j] = h[j] /\ Len(h[j].methods) \in Nat
      BY <2>1, <2>4, <2>12, TypedObject, SeqDomain DEF IsClass, IsMembers
    <3> QED BY <2>4, <3>1, <3>2, <3>3 DEF ClassSteps
  <2> QED BY <2>4, <2>10, <2>11, <2>13, <2>14 DEF Stepped, h
<1> QED BY <1>4, <1>7, <1>8

----------------------------------------------------------------------------
(* Handles stay good.                                                      *)

\* Serves and HandleKept, in machine x.
ServesIn(x, h, c) ==
  h.class \in Ancestors(x, c) /\ \A d \in Ancestors(x, c) \ Ancestors(x, h.class) : d > h.before

KeptIn(x, h) ==
  /\ h.class \in ClassesOf(x) /\ h.before \in Nat /\ h.idx \in Nat \ {0} /\ h.before <= Len(x.heap)
  /\ \A c \in ClassesOf(x) : ServesIn(x, h, c) =>
       IF h.field THEN h.key \in DOMAIN x.heap[c].members /\ x.heap[c].members[h.key] = [field |-> TRUE, idx |-> h.idx]
       ELSE h.idx <= Len(x.heap[c].methods)

LEMMA KeptHere == ASSUME NEW h PROVE HandleKept(h) <=> KeptIn(m, h)
BY DEF HandleKept, KeptIn, ServesIn, Serves, Classes

LEMMA KeptThere == ASSUME NEW h PROVE HandleKept(h)' <=> KeptIn(m', h)
BY DEF HandleKept, KeptIn, ServesIn, Serves, Classes

\* A call leaves the handles good: old classes keep their fields and lose no method, and a
\* new class that a handle serves has what its base has.
LEMMA KeptStep ==
  ASSUME NEW x, NEW y, Linked(x.heap), Linked(y.heap), ClassSteps(x.heap, y.heap), NEW h, KeptIn(x, h)
  PROVE  KeptIn(y, h)
<1> DEFINE p == x.heap
           q == y.heap
<1>1. Len(p) \in Nat /\ DOMAIN p = 1..Len(p) /\ DOMAIN q = 1..Len(q) /\ Len(q) \in {Len(p), Len(p) + 1}
  BY SeqDomain DEF Linked, ClassSteps
<1>2. ClassesOf(x) = {i \in 1..Len(p) : p[i].t = "class"} /\ ClassesOf(y) = {i \in 1..Len(q) : q[i].t = "class"}
  BY <1>1 DEF ClassesOf
<1>3. \A c \in ClassesOf(x) :
        /\ c \in ClassesOf(y) /\ q[c].base = p[c].base /\ Len(p[c].methods) <= Len(q[c].methods)
        /\ \A k \in DOMAIN p[c].members : p[c].members[k].field => k \in DOMAIN q[c].members /\ q[c].members[k] = p[c].members[k]
  BY <1>1, <1>2 DEF ClassSteps
<1>4. \A c \in ClassesOf(x) : Ancestors(y, c) = Ancestors(x, c)
  BY <1>3, AncestorsSame
<1>5. /\ h.class \in ClassesOf(x) /\ h.before \in Nat /\ h.idx \in Nat \ {0} /\ h.before <= Len(p)
      /\ \A c \in ClassesOf(x) : ServesIn(x, h, c) =>
           IF h.field THEN h.key \in DOMAIN p[c].members /\ p[c].members[h.key] = [field |-> TRUE, idx |-> h.idx]
           ELSE h.idx <= Len(p[c].methods)
  BY DEF KeptIn
<1>6. \A c \in ClassesOf(x) : Len(p[c].methods) \in Nat
  BY <1>2, TypedObject, SeqDomain DEF IsClass, IsMembers
<1>7. \A c \in ClassesOf(y) : Len(q[c].methods) \in Nat
  BY <1>2, TypedObject, SeqDomain DEF IsClass, IsMembers
<1>8. ASSUME NEW c \in ClassesOf(y), ServesIn(y, h, c)
      PROVE  IF h.field THEN h.key \in DOMAIN q[c].members /\ q[c].members[h.key] = [field |-> TRUE, idx |-> h.idx]
             ELSE h.idx <= Len(q[c].methods)
  <2>1. CASE c \in ClassesOf(x)
    <3>1. ServesIn(x, h, c)
      BY <1>4, <1>5, <1>8, <2>1 DEF ServesIn
    <3>2. IF h.field THEN h.key \in DOMAIN p[c].members /\ p[c].members[h.key] = [field |-> TRUE, idx |-> h.idx]
          ELSE h.idx <= Len(p[c].methods)
      BY <1>5, <2>1, <3>1
    <3> HIDE DEF p, q
    <3>3. CASE h.field
      <4> DEFINE e == p[c].members[h.key]
      <4>1. h.key \in DOMAIN p[c].members /\ e = [field |-> TRUE, idx |-> h.idx] /\ e.field
        BY <3>2, <3>3
      <4>2. h.key \in DOMAIN q[c].members /\ q[c].members[h.key] = e
        BY <1>3, <2>1, <4>1
      <4> QED BY <3>3, <4>1, <4>2
    <3>4. CASE ~h.field
      <4>1. h.idx <= Len(p[c].methods) /\ Len(p[c].methods) <= Len(q[c].methods)
        BY <1>3, <2>1, <3>2, <3>4
      <4>2. Len(p[c].methods) \in Nat /\ Len(q[c].methods) \in Nat /\ h.idx \in Nat
        BY <1>5, <1>6, <1>7, <2>1
      <4> DEFINE u == Len(p[c].methods)
                 w == Len(q[c].methods)
                 i == h.idx
      <4>3. i \in Nat /\ u \in Nat /\ w \in Nat /\ i <= u /\ u <= w
        BY <4>1, <4>2
      <4> HIDE DEF u, w, i
      <4>4. i <= w
        BY <4>3
      <4> QED BY <3>4, <4>4 DEF i, w
    <3> QED BY <3>3, <3>4
  <2>2. CASE c \notin ClassesOf(x)
    <3>1. Len(q) = Len(p) + 1 /\ c = Len(q) /\ q[c].t = "class"
      <4>1. c \in 1..Len(q) /\ q[c].t = "class"
        BY <1>2
      <4>2. c \in 1..Len(p) => p[c].t = "class"
        BY <4>1 DEF ClassSteps
      <4>3. c \notin 1..Len(p)
        BY <1>2, <2>2, <4>2
      <4> QED BY <1>1, <4>1, <4>3
    <3> DEFINE b == q[c].base
    <3>2. b = 0 \/ (b \in ClassesOf(x) /\ q[c].members = p[b].members /\ Len(q[c].methods) = Len(p[b].methods))
      BY <1>2, <3>1 DEF ClassSteps
    <3>3. Ancestors(y, c) = {c} \cup (IF b = 0 THEN {} ELSE Ancestors(y, b))
      BY <1>8, AncestorsStep
    <3>4. h.class # c
      BY <1>5, <2>2
    <3>5. b # 0 /\ h.class \in Ancestors(y, b)
      BY <1>8, <3>3, <3>4 DEF ServesIn
    <3>6. ServesIn(x, h, b)
      BY <1>4, <1>5, <1>8, <3>2, <3>3, <3>5 DEF ServesIn
    <3> HIDE DEF b
    <3>7. IF h.field THEN h.key \in DOMAIN p[b].members /\ p[b].members[h.key] = [field |-> TRUE, idx |-> h.idx]
          ELSE h.idx <= Len(p[b].methods)
      BY <1>5, <3>2, <3>5, <3>6
    <3> QED BY <3>2, <3>5, <3>7
  <2> QED BY <2>1, <2>2
<1>9. h.before <= Len(q)
  BY <1>1, <1>5
<1> QED BY <1>3, <1>5, <1>8, <1>9 DEF KeptIn

\* A new handle serves the class it was asked of, and no other that there is.
LEMMA KeptNew ==
  ASSUME NEW x, Linked(x.heap), NEW c \in ClassesOf(x), NEW k, NEW h, At(x.heap[c].members, k) # Absent,
         h.class = c, h.key = k, h.before = Len(x.heap),
         h.field = At(x.heap[c].members, k).field, h.idx = At(x.heap[c].members, k).idx
  PROVE  KeptIn(x, h)
<1> DEFINE e == At(x.heap[c].members, k)
           n == Len(x.heap)
<1>1. n \in Nat /\ ClassesOf(x) = {i \in 1..n : x.heap[i].t = "class"}
  BY SeqDomain DEF Linked, ClassesOf
<1>2. IsClass(x.heap[c])
  BY <1>1, TypedObject
<1> DEFINE o == x.heap[c]
<1>3. /\ k \in DOMAIN o.members /\ e = o.members[k] /\ e \in [field : BOOLEAN, idx : Nat \ {0}]
      /\ ~e.field => e.idx \in 1..Len(o.methods)
  <2>1. IsClass(o) /\ At(o.members, k) # Absent /\ e = At(o.members, k)
    BY <1>2
  <2> HIDE DEF o, e
  <2> QED BY <2>1, MemberIs
<1>4. ASSUME NEW d \in ClassesOf(x), ServesIn(x, h, d) PROVE d = c
  <2>1. c \in Ancestors(x, d) /\ \A a \in Ancestors(x, d) \ Ancestors(x, c) : a > n
    BY <1>4 DEF ServesIn
  <2>2. d \in Ancestors(x, d) /\ c <= d
    BY <1>4, <2>1, AncestorsBelow
  <2>3. d \in 1..n /\ c \in 1..n
    BY <1>1
  <2>4. d \in Ancestors(x, c)
    BY <1>1, <2>1, <2>2, <2>3
  <2>5. d <= c
    BY <2>4, AncestorsBelow
  <2> HIDE DEF n
  <2> QED BY <1>1, <2>2, <2>3, <2>5
<1>5. e = [field |-> e.field, idx |-> e.idx] /\ e.field \in BOOLEAN /\ e.idx \in Nat \ {0}
  BY <1>3
<1> HIDE DEF e, o
<1>6. IF h.field THEN h.key \in DOMAIN o.members /\ o.members[h.key] = [field |-> TRUE, idx |-> h.idx]
      ELSE h.idx <= Len(o.methods)
  <2>1. h.field = e.field /\ h.idx = e.idx
    BY DEF e
  <2>2. CASE e.field
    BY <1>3, <1>5, <2>1, <2>2
  <2>3. CASE ~e.field
    BY <1>3, <2>1, <2>3
  <2> QED BY <2>2, <2>3
<1>7. h.class \in ClassesOf(x) /\ h.before \in Nat /\ h.before <= Len(x.heap) /\ h.idx \in Nat \ {0}
  BY <1>1, <1>5 DEF e
<1> QED BY <1>4, <1>6, <1>7 DEF KeptIn, o

----------------------------------------------------------------------------
(* The invariant holds.                                                    *)

\* The heap of a machine that has just been opened, in which only the root table is, is one a
\* behaviour may start from.
LEMMA FreshHeap == Linked(<<NewTable>>) /\ Fits(<<NewTable>>)
<1> DEFINE n == NewTable
           h == <<n>>
<1>1. n.t = "table" /\ n.delegate = 0 /\ IsTable(n)
  BY DEF NewTable, IsTable, EmptyFcn
<1> HIDE DEF n
<1>2. IsSeq(h) /\ Len(h) = 1 /\ h[1] = n /\ h # <<>>
  BY TupleSeq
<1> HIDE DEF h
<1>3. 1..Len(h) = {1} /\ \A i \in 1..Len(h) : h[i].t = "table" /\ h[i].delegate = 0 /\ IsObject(h[i])
  BY <1>1, <1>2 DEF IsObject
<1>4. \A S \in SUBSET {j \in 1..Len(h) : h[j].t = "table"} : S # {} => \E i \in S : h[i].delegate \notin S
  <2> SUFFICES ASSUME NEW S, S \subseteq 1..Len(h), NEW i \in S PROVE h[i].delegate \notin S
    OBVIOUS
  <2>1. h[i].delegate = 0 /\ 0 \notin 1..Len(h)
    BY <1>3
  <2> QED BY <2>1
<1>5. Linked(h)
  BY <1>1, <1>2, <1>3, <1>4 DEF Linked
<1>6. Fits(h)
  BY <1>3 DEF Fits
<1> QED BY <1>5, <1>6 DEF h, n

LEMMA InitIInv ==
  ASSUME Init
  PROVE  IInv
<1>1. PICK s \in Settings : does = s.does /\ m = [heap |-> s.heap, stack |-> <<>>, err |-> "none", entered |-> 0]
  BY DEF Init
<1>2. s.does \in Outcomes /\ Linked(s.heap) /\ Fits(s.heap)
  BY SettingsAssumption
<1>3. DOMAIN m = {"heap", "stack", "err", "entered"} /\ m.heap = s.heap /\ m.stack = <<>> /\ m.entered = 0
  BY <1>1
<1> DEFINE e == <<>>
<1>4. IsMachine(m)
  <2>1. IsSeq(e)
    BY TupleSeq
  <2>2. m.stack = e
    BY <1>3
  <2> HIDE DEF e
  <2> QED BY <1>3, <2>1, <2>2 DEF IsMachine
<1>5. HandlesKept
  BY DEF Init, HandlesKept
<1>6. ret.ok = TRUE /\ ret.extra = 0
  BY DEF Init
<1>7. EndsCleanly
  BY <1>6 DEF EndsCleanly
<1> QED BY <1>1, <1>2, <1>3, <1>4, <1>5, <1>7 DEF IInv

\* Each call takes the machine to one that the invariant allows.
LEMMA NextStepped ==
  ASSUME IInv, Next
  PROVE  Stepped
<1>1. sq_newmember(TRUE) => Stepped
  <2> DEFINE raw == TRUE
  <2>1. raw \in BOOLEAN /\ (sq_newmember(TRUE) => sq_newmember(raw))
    OBVIOUS
  <2> HIDE DEF raw
  <2> QED BY <2>1, NewMemberStep
<1>2. sq_newmember(FALSE) => Stepped
  <2> DEFINE raw == FALSE
  <2>1. raw \in BOOLEAN /\ (sq_newmember(FALSE) => sq_newmember(raw))
    OBVIOUS
  <2> HIDE DEF raw
  <2> QED BY <2>1, NewMemberStep
<1> QED BY <1>1, <1>2, NewTableStep, NewClassStep, CreateInstanceStep, NewSlotStep, DeleteSlotStep, RawDeleteSlotStep,
           SetStep, RawSetStep, GetStep, RawGetStep, ScriptGetStep, ScriptSetStep, SetDelegateStep, GetDelegateStep,
           CloneStep, CmpStep, ScriptEqStep, ScriptArithStep, ToStringStep, ClearStep, SetAttributesStep,
           GetAttributesStep, GetMemberHandleStep, SetByHandleStep, SetClassUDSizeStep DEF Next

\* A call takes one handle at most, on a member the class has.
LEMMA NextHandles ==
  ASSUME IInv, Next
  PROVE  \A h \in handles' : h \in handles \/ (m'.heap = m.heap /\ KeptIn(m, h))
<1>1. CASE sq_getmemberhandle
  <2>1. PICK o \in Of({"class"}), k \in keys :
         LET x == Host(<<o, k>>)
             i == At(Obj(x, o).members, k)
         IN \/ handles' = handles
            \/ /\ i # Absent
               /\ handles' = handles \cup {[class |-> o.id, key |-> k, field |-> i.field, idx |-> i.idx, before |-> Len(x.heap)]}
    BY <1>1 DEF sq_getmemberhandle
  <2> DEFINE x == Host(<<o, k>>)
             c == o.id
             i == At(m.heap[c].members, k)
             n == [class |-> c, key |-> k, field |-> i.field, idx |-> i.idx, before |-> Len(m.heap)]
  <2>2. IsSeq(<<o, k>>) /\ o \in Objects /\ o.t = "class"
    BY TupleSeq DEF Of
  <2>3. x.heap = m.heap /\ Obj(x, o) = m.heap[c]
    BY <2>2, Starts
  <2>4. handles' = handles \/ (i # Absent /\ handles' = handles \cup {n})
    BY <2>1, <2>3
  <2>5. c \in ClassesOf(m) /\ Linked(m.heap)
    BY <2>2, ObjectIs, SeqDomain DEF ClassesOf, IInv, Linked
  <2>6. n.class = c /\ n.key = k /\ n.before = Len(m.heap) /\ n.field = i.field /\ n.idx = i.idx
    OBVIOUS
  <2> HIDE DEF n, c
  <2>7. i # Absent => KeptIn(m, n)
    BY <2>5, <2>6, KeptNew
  <2>8. m'.heap = m.heap
    BY <1>1, GetMemberHandleStep
  <2> QED BY <2>4, <2>7, <2>8
<1>2. CASE ~sq_getmemberhandle
  <2>1. handles' = handles
    BY <1>2 DEF Next, sq_newtable, sq_newclass, sq_createinstance, sq_newslot, sq_deleteslot, sq_rawdeleteslot, sq_set,
                sq_rawset, sq_newmember, sq_get, sq_rawget, ScriptGet, ScriptSet, sq_setdelegate, sq_getdelegate, sq_clone,
                sq_cmp, ScriptEq, ScriptArith, sq_tostring, sq_clear, sq_setattributes, sq_getattributes, sq_setbyhandle,
                sq_setclassudsize
  <2> QED BY <2>1
<1> QED BY <1>1, <1>2

LEMMA NextDoes ==
  ASSUME Next
  PROVE  does' = does
BY DEF Next, sq_newtable, sq_newclass, sq_createinstance, sq_newslot, sq_deleteslot, sq_rawdeleteslot, sq_set,
       sq_rawset, sq_newmember, sq_get, sq_rawget, ScriptGet, ScriptSet, sq_setdelegate, sq_getdelegate, sq_clone,
       sq_cmp, ScriptEq, ScriptArith, sq_tostring, sq_clear, sq_setattributes, sq_getattributes, sq_getmemberhandle,
       sq_setbyhandle, sq_setclassudsize

LEMMA NextIInv ==
  ASSUME IInv, [Next]_vars
  PROVE  IInv'
<1>1. CASE Next
  <2>1. IsMachine(m') /\ Linked(m'.heap) /\ Fits(m'.heap) /\ ClassSteps(m.heap, m'.heap) /\ EndsCleanly'
    BY <1>1, NextStepped DEF Stepped
  <2>2. does' \in Outcomes
    BY <1>1, NextDoes DEF IInv
  <2>3. Linked(m.heap) /\ HandlesKept
    BY DEF IInv
  <2>4. \A h \in handles' : KeptIn(m, h)
    BY <1>1, <2>3, NextHandles, KeptHere DEF HandlesKept
  <2>5. \A h \in handles' : KeptIn(m', h)
    BY <2>1, <2>3, <2>4, KeptStep
  <2>6. HandlesKept'
    BY <2>5, KeptThere DEF HandlesKept
  <2> QED BY <2>1, <2>2, <2>6 DEF IInv
<1>2. CASE UNCHANGED vars
  <2>1. does' = does /\ m' = m /\ handles' = handles /\ ret' = ret
    BY <1>2 DEF vars
  <2>2. HandlesKept'
    BY <2>1, KeptHere, KeptThere DEF IInv, HandlesKept
  <2>3. EndsCleanly'
    BY <2>1 DEF IInv, EndsCleanly, SetDeclines, NotCallable, Slots, Tables, TablesOf
  <2> QED BY <2>1, <2>2, <2>3 DEF IInv
<1> QED BY <1>1, <1>2

\* In every state, objects are linked and laid out as the invariant says, handles name what
\* they named, and the last call ended as it should.
THEOREM Invariance == Spec => []IInv
<1>1. Init => IInv
  BY InitIInv
<1>2. IInv /\ [Next]_vars => IInv'
  BY NextIInv
<1> QED BY <1>1, <1>2, PTL DEF Spec

----------------------------------------------------------------------------
(* The properties.                                                         *)

\* Get and Set, which call themselves for the delegate of a table, come to an end: no sequence
\* of calls makes a table delegate to itself, however long the way round, for any number of
\* tables. The test SetDelegate makes before it links two tables suffices.
THEOREM DelegatesNeverCycle == Spec => []DelegatesAcyclic
<1>1. IInv => DelegatesAcyclic
  <2> SUFFICES ASSUME IInv PROVE DelegatesAcyclic
    OBVIOUS
  <2>1. Linked(m.heap)
    BY DEF IInv
  <2>2. \A i \in TablesOf(m) : m.heap[i].delegate \in {0} \cup TablesOf(m)
    BY <2>1, DelegatesEnd
  <2>3. \A S \in SUBSET TablesOf(m) : S # {} => \E i \in S : m.heap[i].delegate \notin S
    BY <2>1, DelegatesEnd DEF Linked
  <2> QED BY <2>2, <2>3 DEF DelegatesAcyclic, Tables
<1> QED BY <1>1, Invariance, PTL

\* The fields of an instance are where its class says, whatever is done to the class after the
\* instance was made: SQClass::Lock locks the class and every base of it, and the functions
\* that add members to a class respect the lock. The members of a class never share a place.
THEOREM InstancesAlwaysFit == Spec => []InstancesFit
<1>1. IInv => InstancesFit
  <2> SUFFICES ASSUME IInv PROVE InstancesFit
    OBVIOUS
  <2>1. Linked(m.heap) /\ Fits(m.heap) /\ DOMAIN m.heap = 1..Len(m.heap)
    BY SeqDomain DEF IInv, Linked
  <2>2. ASSUME NEW i \in Instances
        PROVE  LET o == m.heap[i] c == m.heap[o.class]
               IN Len(o.values) = Len(c.defaults) /\ o.ud = c.udsize /\ \A b \in Ancestors(m, o.class) : m.heap[b].locked
    <3> DEFINE c == m.heap[i].class
               S == {j \in ClassesOf(m) : m.heap[j].locked}
    <3>1. i \in 1..Len(m.heap) /\ m.heap[i].t = "instance"
      BY <2>1 DEF Instances
    <3>2. c \in 1..Len(m.heap) /\ m.heap[c].t = "class"
      BY <2>1, <3>1 DEF Linked
    <3>3. Len(m.heap[i].values) = Len(m.heap[c].defaults) /\ m.heap[i].ud = m.heap[c].udsize /\ m.heap[c].locked
      BY <2>1, <3>1 DEF Fits
    <3>4. c \in ClassesOf(m) /\ c \in S
      BY <2>1, <3>2, <3>3 DEF ClassesOf
    <3>5. \A j \in S \cap ClassesOf(m) : m.heap[j].base # 0 => m.heap[j].base \in S
      <4> SUFFICES ASSUME NEW j \in S, m.heap[j].base # 0 PROVE m.heap[j].base \in S
        OBVIOUS
      <4>1. j \in 1..Len(m.heap) /\ m.heap[j].t = "class" /\ m.heap[j].locked /\ j \in ClassesOf(m)
        BY <2>1 DEF ClassesOf
      <4>2. m.heap[j].base \in ClassesOf(m)
        BY <2>1, <4>1, BasesEnd
      <4>3. m.heap[m.heap[j].base].locked
        BY <2>1, <4>1 DEF Fits
      <4> QED BY <4>2, <4>3
    <3>6. Ancestors(m, c) \subseteq S
      <4> HIDE DEF c, S
      <4> QED BY <2>1, <3>4, <3>5, AncestorsWithin
    <3> QED BY <3>3, <3>6
  <2>3. ASSUME NEW c \in Classes
        PROVE  LET f == m.heap[c].members
               IN /\ \A k, l \in DOMAIN f : f[k] = f[l] => k = l
                  /\ m.heap[c].ctor <= Len(m.heap[c].methods)
    <3>1. c \in 1..Len(m.heap) /\ m.heap[c].t = "class"
      BY <2>1 DEF Classes, ClassesOf
    <3>2. IsClass(m.heap[c])
      BY <2>1, <3>1, TypedObject
    <3> QED BY <3>2 DEF IsClass
  <2> QED BY <2>2, <2>3 DEF InstancesFit
<1> QED BY <1>1, Invariance, PTL

\* A handle that sq_getmemberhandle gave can be used as long as the host keeps it: it never
\* reaches past the methods or the fields of a class or an instance it may be used with, and
\* the handle of a field still names that field, although classes grow and are derived from.
THEOREM HandlesStaySound == Spec => []HandlesSound
<1>1. IInv => HandlesSound
  <2> SUFFICES ASSUME IInv, NEW h \in handles, NEW c \in Classes, Serves(h, c)
               PROVE  LET o == m.heap[c]
                      IN IF h.field THEN /\ h.idx <= Len(o.defaults)
                                         /\ o.members[h.key] = [field |-> TRUE, idx |-> h.idx]
                                         /\ \A i \in Instances : m.heap[i].class = c => h.idx <= Len(m.heap[i].values)
                         ELSE h.idx <= Len(o.methods)
    BY DEF HandlesSound
  <2>1. Linked(m.heap) /\ Fits(m.heap) /\ DOMAIN m.heap = 1..Len(m.heap)
    BY SeqDomain DEF IInv, Linked
  <2> DEFINE o == m.heap[c]
  <2>2. IF h.field THEN h.key \in DOMAIN o.members /\ o.members[h.key] = [field |-> TRUE, idx |-> h.idx]
        ELSE h.idx <= Len(o.methods)
    BY DEF IInv, HandlesKept, HandleKept
  <2>3. IsClass(o)
    BY <2>1, TypedObject DEF Classes, ClassesOf
  <2>4. \A i \in Instances : m.heap[i].class = c => Len(m.heap[i].values) = Len(o.defaults)
    BY <2>1 DEF Fits, Instances
  <2> HIDE DEF o
  <2>5. h.field => h.idx <= Len(o.defaults)
    <3> SUFFICES ASSUME h.field PROVE h.idx <= Len(o.defaults)
      OBVIOUS
    <3> DEFINE e == o.members[h.key]
    <3>1. h.key \in DOMAIN o.members /\ e.field = TRUE /\ e.idx = h.idx
      BY <2>2
    <3>2. e.idx <= Len(IF e.field THEN o.defaults ELSE o.methods)
      BY <2>3, <3>1 DEF IsClass
    <3> HIDE DEF e
    <3> QED BY <3>1, <3>2
  <2>6. CASE h.field
    BY <2>2, <2>4, <2>5, <2>6 DEF o
  <2>7. CASE ~h.field
    BY <2>2, <2>7 DEF o
  <2> QED BY <2>6, <2>7
<1> QED BY <1>1, Invariance, PTL

\* However many metamethods a call runs along the delegates, and however they end, the stack of
\* the host function is as its caller expects and a failure has set _lasterror, but for the two
\* exceptions that EndsCleanly names.
THEOREM CallsEndCleanly == Spec => []EndsCleanly
<1>1. IInv => EndsCleanly
  BY DEF IInv
<1> QED BY <1>1, Invariance, PTL

----------------------------------------------------------------------------
(* What is assigned is read back.                                          *)

\* Get and Set on an object whose delegate gives g or s, without the fall back to the root table.
GetAt(x, o, key, g) == GetFrom(x, o, key, FALSE, FALSE, g)
SetAt(x, o, key, val, s) == SetFrom(x, o, key, val, FALSE, s)

\* What the host gets and sets.
GetHere(x, o, key) == Get(x, o, key, FALSE, FALSE)
SetHere(x, o, key, val) == Set(x, o, key, val, FALSE)
Gives(r, v) == r.ok = TRUE /\ r.v = v

\* An assignment in which no metamethod ran found the slot in the object itself, or is the one
\* that its delegate made.
LEMMA SetFromOk ==
  ASSUME NEW x, IsMachine(x), Linked(x.heap), Fits(x.heap), NEW o, IsRef(x, o), NEW key, NEW val, IsValue(val), NEW s,
         o.t = "table" /\ Obj(x, o).delegate # 0 =>
           Writes(x, key, s) /\ (key \in DOMAIN x.heap[Obj(x, o).delegate].slots => s.ok),
         NEW r, r = SetAt(x, o, key, val, s), r.ok, r.m.entered = x.entered
  PROVE  /\ o.t \in {"table", "instance"}
         /\ \/ SetOwn(x, o, key, val) # Absent /\ r.m = SetOwn(x, o, key, val)
            \/ /\ SetOwn(x, o, key, val) = Absent /\ o.t = "table" /\ Obj(x, o).delegate # 0
               /\ s.ok /\ r.m = s.m
<1> DEFINE own == SetOwn(x, o, key, val)
           f == FallBackSet(x, o, key, val, s)
<1>1. r.ok /\ r.m.entered = x.entered
  OBVIOUS
<1>2. /\ r = Fail(x) \/ o.t \in {"table", "instance"}
      /\ o.t \in {"table", "instance"} /\ own # Absent => r = R(own, TRUE, Null)
      /\ o.t \in {"table", "instance"} /\ own = Absent /\ f.fb = "ok" => r = R(f.r.m, TRUE, Null)
      /\ o.t \in {"table", "instance"} /\ own = Absent /\ f.fb = "error" => r = f.r
      /\ o.t \in {"table", "instance"} /\ own = Absent /\ f.fb = "no match" => r = Fail(f.r.m)
  BY DEF SetAt, SetFrom
<1> HIDE DEF own
<1>3. o.t \in {"table", "instance"}
  <2>1. Fail(x).ok = FALSE
    BY DEF Fail, R
  <2> QED BY <1>1, <1>2, <2>1
<1>4. /\ f.fb \in {"ok", "error", "no match"}
      /\ f.fb = "error" => ~f.r.ok
      /\ f.fb = "ok" /\ f.r.m.entered = x.entered => o.t = "table" /\ Obj(x, o).delegate # 0 /\ s.ok /\ f.r = s
  BY <1>3, FallBackSetIs
<1> HIDE DEF f
<1>5. \A y : Fail(y).ok = FALSE /\ R(y, TRUE, Null).m = y
  BY DEF Fail, R
<1>6. CASE own # Absent
  <2>1. r.m = own
    BY <1>2, <1>3, <1>5, <1>6
  <2> QED BY <1>3, <1>6, <2>1 DEF own
<1>7. CASE own = Absent
  <2>1. f.fb = "ok" /\ r.m = f.r.m
    BY <1>1, <1>2, <1>3, <1>4, <1>5, <1>7
  <2>2. o.t = "table" /\ Obj(x, o).delegate # 0 /\ s.ok /\ r.m = s.m
    BY <1>1, <1>4, <2>1
  <2> QED BY <1>7, <2>2 DEF own
<1> QED BY <1>6, <1>7

\* Where a table is assigned to.
LEMMA SetOwnTable ==
  ASSUME NEW x, IsMachine(x), Linked(x.heap), NEW o, IsRef(x, o), o.t = "table", NEW key, NEW val
  PROVE  LET y == SetOwn(x, o, key, val)
             h == x.heap
         IN /\ y = Absent <=> key \notin DOMAIN h[o.id].slots
            /\ y # Absent =>
                 /\ key \in DOMAIN y.heap[o.id].slots /\ y.heap[o.id].slots[key] = val
                 /\ \A i \in TablesOf(x) : DOMAIN y.heap[i].slots = DOMAIN h[i].slots
<1> DEFINE h == x.heap
           i == o.id
           s == [h[i].slots EXCEPT ![key] = val]
           p == [h[i] EXCEPT !.slots = s]
           z == Put(x, o, p)
           y == SetOwn(x, o, key, val)
<1>1. i \in 1..Len(h) /\ h[i].t = "table" /\ IsSeq(h) /\ IsTable(h[i])
  BY TypedObject DEF IsRef, Linked
<1>2. y = IF key \in DOMAIN h[i].slots THEN z ELSE Absent
  BY DEF SetOwn, Obj
<1>3. key \in DOMAIN h[i].slots => DOMAIN s = DOMAIN h[i].slots /\ s[key] = val
  OBVIOUS
<1> HIDE DEF s
<1>4. p.slots = s
  BY <1>1 DEF IsTable
<1> HIDE DEF p
<1>5. IsMachine(z) /\ z.heap = [h EXCEPT ![i] = p]
  BY PutIs
<1>6. z # Absent
  BY <1>5, NotAbsent
<1> HIDE DEF z, i, h
<1>7. z.heap[i] = p /\ \A j \in 1..Len(h) : j # i => z.heap[j] = h[j]
  BY <1>1, <1>5, ExceptSeq
<1>8. TablesOf(x) \subseteq 1..Len(h)
  BY DelegatesEnd DEF h
<1>9. key \in DOMAIN h[i].slots => /\ key \in DOMAIN z.heap[i].slots /\ z.heap[i].slots[key] = val
                                   /\ \A j \in TablesOf(x) : DOMAIN z.heap[j].slots = DOMAIN h[j].slots
  BY <1>3, <1>4, <1>7, <1>8
<1> HIDE DEF y
<1>10. /\ y = Absent <=> key \notin DOMAIN h[i].slots
       /\ y # Absent => /\ key \in DOMAIN y.heap[i].slots /\ y.heap[i].slots[key] = val
                        /\ \A j \in TablesOf(x) : DOMAIN y.heap[j].slots = DOMAIN h[j].slots
  BY <1>2, <1>6, <1>9
<1> QED BY <1>10 DEF h, i, y

\* A value that the object itself has is what Get gives.
LEMMA GetOwn ==
  ASSUME NEW x, NEW o, NEW key, NEW g, Own(x, o, key) # Absent
  PROVE  GetAt(x, o, key, g).ok = TRUE /\ GetAt(x, o, key, g).v = Own(x, o, key)
<1> DEFINE r == GetAt(x, o, key, g)
           v == Own(x, o, key)
<1>1. r = R(x, TRUE, v)
  BY DEF GetAt, GetFrom
<1> HIDE DEF r
<1>2. r.ok = TRUE /\ r.v = v
  BY <1>1 DEF R
<1> QED BY <1>2 DEF r

\* What Get gives for the delegate is what it gives for a table without the slot.
LEMMA GetDelegated ==
  ASSUME NEW x, NEW o, o.t = "table", Obj(x, o).delegate # 0, NEW key, key \notin DOMAIN Obj(x, o).slots,
         NEW g, g.ok = TRUE
  PROVE  GetAt(x, o, key, g) = g
<1> DEFINE f == FallBackGet(x, o, key, g)
<1>1. f = [r |-> g, fb |-> "ok"]
  BY DEF FallBackGet
<1>2. Own(x, o, key) = Absent
  BY DEF Own, At
<1> HIDE DEF f
<1>3. f.r = g /\ f.fb = "ok"
  BY <1>1
<1>4. GetAt(x, o, key, g) = f.r
  BY <1>2, <1>3 DEF GetAt, GetFrom, f
<1> QED BY <1>3, <1>4

\* An assignment in which no metamethod ran leaves every table the slots it had.
LEMMA SetKeepsSlots ==
  ASSUME NEW x, IsMachine(x), Linked(x.heap), Fits(x.heap), NEW key, NEW val, IsValue(val), NEW at, SetSolves(x, key, val, at),
         NEW i \in TablesOf(x), at[i].ok, at[i].m.entered = x.entered
  PROVE  \A j \in TablesOf(x) : DOMAIN at[i].m.heap[j].slots = DOMAIN x.heap[j].slots
<1> DEFINE Ok(n) == at[n].ok /\ at[n].m.entered = x.entered
           Same(n) == \A j \in TablesOf(x) : DOMAIN at[n].m.heap[j].slots = DOMAIN x.heap[j].slots
           G == {n \in TablesOf(x) : Ok(n) => Same(n)}
<1>1. ASSUME NEW n \in TablesOf(x), x.heap[n].delegate # 0 => x.heap[n].delegate \in G PROVE n \in G
  <2> SUFFICES ASSUME Ok(n) PROVE Same(n)
    OBVIOUS
  <2> DEFINE o == Ref("table", n)
             d == x.heap[n].delegate
             s == at[d]
             own == SetOwn(x, o, key, val)
             r == at[n]
  <2>1. IsRef(x, o) /\ Obj(x, o) = x.heap[n] /\ o.t = "table" /\ o.id = n
    BY DelegatesEnd DEF IsRef, Ref, Obj
  <2>2. r = SetAt(x, o, key, val, s)
    BY DEF SetSolves, SetAt
  <2>3. d # 0 => d \in TablesOf(x) /\ Writes(x, key, s) /\ (key \in DOMAIN x.heap[d].slots => s.ok)
    BY DelegatesEnd, SetAllIs
  <2>4. Obj(x, o).delegate = d
    BY <2>1
  <2>5. r.ok /\ r.m.entered = x.entered
    OBVIOUS
  <2> HIDE DEF o, d, s, r
  <2>6. \/ own # Absent /\ r.m = own
        \/ d # 0 /\ s.ok /\ r.m = s.m
    BY ONLY IsMachine(x), Linked(x.heap), Fits(x.heap), IsValue(val), <2>1, <2>2, <2>3, <2>4, <2>5, SetFromOk
  <2>7. CASE own # Absent /\ r.m = own
    BY <2>1, <2>7, SetOwnTable DEF r
  <2>8. CASE d # 0 /\ s.ok /\ r.m = s.m
    <3>1. Ok(d) /\ d \in G
      BY <1>1, <2>5, <2>8 DEF s, d, r
    <3>2. Same(d)
      BY <3>1
    <3> QED BY <2>8, <3>2 DEF s, r
  <2> QED BY <2>6, <2>7, <2>8
<1>2. TablesOf(x) \subseteq G
  <2> HIDE DEF G
  <2> QED BY <1>1, DelegateInduction
<1> QED BY <1>2

\* What is assigned through a table is read back through it.
LEMMA TableReadsBack ==
  ASSUME NEW x, IsMachine(x), Linked(x.heap), Fits(x.heap), NEW key, NEW val, IsValue(val), NEW at, SetSolves(x, key, val, at),
         NEW i \in TablesOf(x), at[i].ok, at[i].m.entered = x.entered, NEW g, GetSolves(at[i].m, key, g)
  PROVE  Gives(g[i], val)
<1> DEFINE y == at[i].m
           G == {n \in TablesOf(x) : at[n].ok /\ at[n].m = y => g[n].ok = TRUE /\ g[n].v = val}
<1>1. \A j \in TablesOf(x) : DOMAIN y.heap[j].slots = DOMAIN x.heap[j].slots
  BY SetKeepsSlots
<1>2. IsMachine(y) /\ Steps(x.heap, y.heap)
  BY SetAllIs DEF Writes
<1>3. \A j \in TablesOf(x) : j \in TablesOf(y) /\ y.heap[j].delegate = x.heap[j].delegate
  <2>1. TablesOf(x) = {j \in 1..Len(x.heap) : x.heap[j].t = "table"} /\ Len(x.heap) \in Nat
    BY DelegatesEnd, SeqDomain DEF Linked
  <2> HIDE DEF y
  <2>2. DOMAIN y.heap = 1..Len(y.heap) /\ Len(y.heap) \in {Len(x.heap), Len(x.heap) + 1}
    BY <1>2, SeqDomain DEF Steps
  <2>3. \A j \in 1..Len(x.heap) : Grows(x.heap[j], y.heap[j])
    BY <1>2 DEF Steps
  <2>4. \A j \in TablesOf(x) : y.heap[j].t = "table" /\ y.heap[j].delegate = x.heap[j].delegate /\ j \in 1..Len(x.heap)
    BY <2>1, <2>3 DEF Grows
  <2>5. \A j \in 1..Len(x.heap) : j \in DOMAIN y.heap
    BY <2>1, <2>2
  <2> QED BY <2>4, <2>5 DEF TablesOf
<1>4. \A j \in TablesOf(x) : g[j] = GetFrom(y, Ref("table", j), key, FALSE, FALSE, g[x.heap[j].delegate])
  BY <1>3 DEF GetSolves
<1>5. val # Absent /\ y.entered = x.entered
  BY DEF IsValue, Absent
<1> HIDE DEF y
<1>6. ASSUME NEW n \in TablesOf(x), x.heap[n].delegate # 0 => x.heap[n].delegate \in G PROVE n \in G
  <2> SUFFICES ASSUME at[n].ok, at[n].m = y PROVE g[n].ok = TRUE /\ g[n].v = val
    OBVIOUS
  <2> DEFINE o == Ref("table", n)
             d == x.heap[n].delegate
             s == at[d]
             own == SetOwn(x, o, key, val)
             r == at[n]
             u == g[d]
             w == g[n]
  <2>1. IsRef(x, o) /\ Obj(x, o) = x.heap[n] /\ o.t = "table" /\ o.id = n /\ Obj(y, o) = y.heap[n]
    BY DelegatesEnd DEF IsRef, Ref, Obj
  <2>2. r = SetAt(x, o, key, val, s)
    BY DEF SetSolves, SetAt
  <2>3. d # 0 => d \in TablesOf(x) /\ Writes(x, key, s) /\ (key \in DOMAIN x.heap[d].slots => s.ok)
    BY DelegatesEnd, SetAllIs
  <2>4. Obj(x, o).delegate = d
    BY <2>1
  <2>5. r.ok /\ r.m.entered = x.entered
    BY <1>5
  <2>6. w = GetAt(y, o, key, u)
    BY <1>4 DEF GetAt
  <2>7. r.m = y
    OBVIOUS
  <2>8. y.heap[n].delegate = d /\ DOMAIN y.heap[n].slots = DOMAIN x.heap[n].slots
    BY <1>1, <1>3
  <2> HIDE DEF o, d, s, r, u, w
  <2>9. \/ own # Absent /\ r.m = own
        \/ own = Absent /\ d # 0 /\ s.ok /\ r.m = s.m
    BY ONLY IsMachine(x), Linked(x.heap), Fits(x.heap), IsValue(val), <2>1, <2>2, <2>3, <2>4, <2>5, SetFromOk
  <2>10. CASE own # Absent /\ r.m = own
    <3>1. key \in DOMAIN own.heap[n].slots /\ own.heap[n].slots[key] = val
      BY <2>1, <2>10, SetOwnTable
    <3>2. own = y
      BY <2>10, <2>7
    <3> HIDE DEF own
    <3>3. key \in DOMAIN y.heap[n].slots /\ y.heap[n].slots[key] = val
      BY <3>1, <3>2
    <3>4. Own(y, o, key) = val
      BY <2>1, <3>3 DEF Own, At
    <3>5. w.ok = TRUE /\ w.v = val
      BY ONLY <1>5, <2>6, <3>4, GetOwn
    <3> QED BY <3>5 DEF w
  <2>11. CASE own = Absent /\ d # 0 /\ s.ok /\ r.m = s.m
    <3>1. key \notin DOMAIN x.heap[n].slots
      BY <2>1, <2>11, SetOwnTable
    <3>2. u.ok = TRUE /\ u.v = val
      BY <1>6, <2>11, <2>7 DEF s, d, u
    <3>3. Obj(y, o).delegate # 0 /\ key \notin DOMAIN Obj(y, o).slots
      BY <2>1, <2>8, <2>11, <3>1
    <3>4. GetAt(y, o, key, u) = u
      BY ONLY <2>1, <3>2, <3>3, GetDelegated
    <3> QED BY <2>6, <3>2, <3>4 DEF w
  <2> QED BY <2>9, <2>10, <2>11
<1>7. TablesOf(x) \subseteq G
  <2> HIDE DEF G
  <2> QED BY <1>6, DelegateInduction
<1>8. i \in G
  BY <1>7
<1> QED BY <1>8 DEF y, Gives


\* Where an instance is assigned to.
LEMMA SetOwnInstance ==
  ASSUME NEW x, IsMachine(x), Linked(x.heap), Fits(x.heap), NEW o, IsRef(x, o), o.t = "instance", NEW key, NEW val,
         NEW y, y = SetOwn(x, o, key, val), y # Absent
  PROVE  Own(y, o, key) = val
<1> DEFINE h == x.heap
           i == o.id
           q == h[i]
           c == q.class
           d == h[c]
           e == At(d.members, key)
           j == e.idx
           vs == [q.values EXCEPT ![j] = val]
           p == [q EXCEPT !.values = vs]
<1>1. i \in 1..Len(h) /\ q.t = "instance" /\ IsSeq(h)
  BY DEF IsRef, Linked
<1>2. c \in 1..Len(h) /\ IsClass(d) /\ IsInstance(q) /\ Len(q.values) = Len(d.defaults)
  BY <1>1, InstanceClass
<1>3. e # Absent /\ e.field /\ y = Put(x, o, p)
  BY <1>1 DEF SetOwn, InstanceSet, Obj
<1>4. c # i
  BY <1>1, <1>2 DEF IsClass
<1>5. j \in 1..Len(q.values)
  <2> HIDE DEF d, c
  <2>1. e.field => j \in 1..Len(d.defaults)
    BY <1>2, <1>3, MemberIs
  <2> QED BY <1>2, <1>3, <2>1
<1>6. IsSeq(q.values) /\ p.class = c /\ p.values = vs
  BY <1>2 DEF IsInstance
<1>7. vs[j] = val
  <2> HIDE DEF j, q
  <2> QED BY <1>5, <1>6, ExceptSeq
<1> HIDE DEF p, vs
<1>8. IsMachine(y) /\ y.heap = [h EXCEPT ![i] = p]
  BY <1>3, PutIs
<1> HIDE DEF h, i, c
<1>9. y.heap[i] = p /\ y.heap[c] = h[c]
  BY <1>1, <1>2, <1>4, <1>8, ExceptSeq
<1> DEFINE z == y.heap
<1>10. z[i] = p /\ z[c] = d
  BY <1>9
<1> HIDE DEF z, d
<1>11. Own(y, o, key) = InstanceGet(y, p, key)
  BY <1>10 DEF Own, Obj, i, z
<1>12. InstanceGet(y, p, key) = p.values[j]
  <2>1. At(y.heap[p.class].members, key) = e
    BY <1>6, <1>10 DEF z
  <2> HIDE DEF e
  <2> QED BY <1>3, <2>1 DEF InstanceGet, j
<1> QED BY <1>6, <1>7, <1>11, <1>12


\* What is assigned through any object is read back through it.
LEMMA ReadsBack ==
  ASSUME NEW x, IsMachine(x), Linked(x.heap), Fits(x.heap), NEW o, IsRef(x, o), o = Ref(o.t, o.id), NEW key,
         NEW val, IsValue(val), NEW s, s = SetHere(x, o, key, val), s.ok, s.m.entered = x.entered,
         NEW g, g = GetHere(s.m, o, key)
  PROVE  Gives(g, val)
<1>1. PICK at : SetSolves(x, key, val, at)
  BY SetFollows
<1> DEFINE y == s.m
           b == at[Obj(x, o).delegate]
<1>2. s = SetAt(x, o, key, val, b)
  BY <1>1 DEF SetSolves, SetAt, SetHere
<1>3. Writes(x, key, s)
  BY SetIs DEF SetHere
<1>4. IsMachine(y) /\ Steps(x.heap, y.heap) /\ Linked(y.heap)
  BY <1>3, StepsLinked DEF Writes
<1>5. PICK gs : GetSolves(y, key, gs)
  <2> HIDE DEF y
  <2> QED BY <1>4, GetFollows
<1> DEFINE u == gs[Obj(y, o).delegate]
<1>6. g = GetAt(y, o, key, u)
  BY <1>5 DEF GetSolves, GetAt, GetHere
<1>7. \A i \in TablesOf(x) : Writes(x, key, at[i]) /\ (key \in DOMAIN x.heap[i].slots => at[i].ok)
  BY <1>1, SetAllIs
<1>8. o.t = "table" => o.id \in TablesOf(x) /\ Obj(x, o) = x.heap[o.id]
  BY DelegatesEnd DEF IsRef, Obj
<1>9. o.t = "table" /\ Obj(x, o).delegate # 0 =>
        Writes(x, key, b) /\ (key \in DOMAIN x.heap[Obj(x, o).delegate].slots => b.ok)
  <2>1. o.t = "table" /\ Obj(x, o).delegate # 0 => Obj(x, o).delegate \in TablesOf(x)
    BY <1>8, DelegatesEnd
  <2> QED BY <1>7, <2>1
<1>10. s.ok /\ y.entered = x.entered
  OBVIOUS
<1> HIDE DEF b, u
<1>11. CASE o.t = "table"
  <2> DEFINE n == o.id
  <2>1. n \in TablesOf(x) /\ o = Ref("table", n) /\ Obj(x, o) = x.heap[n] /\ Obj(y, o) = y.heap[n]
    BY <1>8, <1>11 DEF Obj
  <2>2. at[n] = s
    <3>1. at[n] = SetFrom(x, Ref("table", n), key, val, FALSE, at[x.heap[n].delegate])
      BY <1>1, <2>1 DEF SetSolves
    <3> QED BY <1>2, <2>1, <3>1 DEF SetAt, b
  <2>3. n \in TablesOf(y)
    <3>1. n \in 1..Len(x.heap) /\ x.heap[n].t = "table" /\ Len(x.heap) \in Nat
      <4>1. Len(x.heap) \in Nat
        BY SeqDomain DEF Linked
      <4>2. n \in 1..Len(x.heap) /\ x.heap[n].t = "table"
        BY <1>11 DEF IsRef
      <4> QED BY <4>1, <4>2
    <3> HIDE DEF y, n
    <3>2. DOMAIN y.heap = 1..Len(y.heap) /\ Len(y.heap) \in {Len(x.heap), Len(x.heap) + 1}
      BY <1>4, SeqDomain DEF Steps
    <3>3. y.heap[n].t = "table"
      BY <1>4, <3>1 DEF Steps, Grows
    <3> QED BY <3>1, <3>2, <3>3 DEF TablesOf
  <2>4. gs[n] = g
    <3>1. gs[n] = GetFrom(y, Ref("table", n), key, FALSE, FALSE, gs[y.heap[n].delegate])
      BY <1>5, <2>3 DEF GetSolves
    <3> QED BY <1>6, <2>1, <3>1 DEF GetAt, u
  <2>5. at[n].ok /\ at[n].m.entered = x.entered /\ GetSolves(at[n].m, key, gs)
    BY <1>5, <1>10, <2>2
  <2> HIDE DEF n
  <2>6. Gives(gs[n], val)
    BY ONLY IsMachine(x), Linked(x.heap), Fits(x.heap), IsValue(val), <1>1, <2>1, <2>5, TableReadsBack
  <2> QED BY <2>4, <2>6
<1>12. CASE o.t # "table"
  <2> DEFINE own == SetOwn(x, o, key, val)
  <2> HIDE DEF y
  <2>1. o.t = "instance" /\ own # Absent /\ s.m = own
    BY ONLY IsMachine(x), Linked(x.heap), Fits(x.heap), IsRef(x, o), IsValue(val), <1>2, <1>9, <1>10, <1>12, SetFromOk DEF y
  <2>2. y = own
    BY <2>1 DEF y
  <2>3. Own(y, o, key) = val
    BY <2>1, <2>2, SetOwnInstance
  <2>4. val # Absent
    BY DEF IsValue, Absent
  <2> QED BY <1>6, <2>3, <2>4, GetOwn DEF Gives
<1> QED BY <1>11, <1>12

\* What the script or the host assigns to a slot is what it then reads from the same object,
\* however long the chain of delegates: without a metamethod in between, SQVM::Set and SQVM::Get
\* stop at the same table of the chain, and an instance keeps its own copy of a field.
THEOREM WritesReadBack == Spec => []ReadYourWrites
<1>1. IInv => ReadYourWrites
  <2> SUFFICES ASSUME IInv, NEW o \in Objects, NEW k \in keys, NEW v \in Values
               PROVE  LET s == Set(Host(<<>>), o, k, v, FALSE)
                          g == Get(s.m, o, k, FALSE, FALSE)
                      IN s.ok /\ s.m.entered = 0 => g.ok /\ g.v = v
    BY DEF ReadYourWrites
  <2> DEFINE e == <<>>
             x == Host(e)
             s == Set(x, o, k, v, FALSE)
             g == Get(s.m, o, k, FALSE, FALSE)
  <2>1. IsSeq(e)
    BY DEF IsSeq
  <2> SUFFICES ASSUME s.ok, s.m.entered = 0 PROVE g.ok /\ g.v = v
    OBVIOUS
  <2> HIDE DEF e
  <2>2. IsMachine(x) /\ Linked(x.heap) /\ Fits(x.heap) /\ IsRef(x, o) /\ x.entered = 0
    BY <2>1, Starts, HostIs
  <2>3. o = Ref(o.t, o.id) /\ IsValue(v)
    BY ObjectIs, ValueIs
  <2>4. s = SetHere(x, o, k, v) /\ g = GetHere(s.m, o, k) /\ s.m.entered = x.entered /\ s.ok
    BY <2>2 DEF SetHere, GetHere
  <2> HIDE DEF x, s, g
  <2>5. Gives(g, v)
    BY ONLY <2>2, <2>3, <2>4, ReadsBack
  <2> QED BY <2>5 DEF Gives
<1> QED BY <1>1, Invariance, PTL
=============================================================================
