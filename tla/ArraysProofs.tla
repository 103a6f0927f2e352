---------------------------- MODULE ArraysProofs ----------------------------
(***************************************************************************)
(* Theorems about Arrays, for arrays of every length and any number of     *)
(* operations: the library functions that call back give each element to   *)
(* the callback once, and sorting permutes and sorts.                      *)
(***************************************************************************)
EXTENDS Arrays, SequenceTheorems, FiniteSetTheorems, WellFoundedInduction, TLAPS

Vectors == [vals : Seq(Nat), cap : Nat]

\* The elements are in allocated places.
Fits(a) == a \in Vectors /\ Size(a) <= a.cap

----------------------------------------------------------------------------
(* What the operations of a script make of an array.                       *)

\* A vector with other elements or another capacity.
LEMMA VectorUpdate ==
  ASSUME NEW v \in Vectors, NEW s \in Seq(Nat), NEW c \in Nat
  PROVE  /\ [v EXCEPT !.vals = s] = [vals |-> s, cap |-> v.cap]
         /\ [v EXCEPT !.cap = c] = [vals |-> v.vals, cap |-> c]
BY DEF Vectors

\* Reallocation.
LEMMA ReallocatedFits ==
  ASSUME NEW v \in Vectors, NEW n \in Nat
  PROVE  /\ Reallocated(v, n) \in Vectors /\ Reallocated(v, n).vals = v.vals
         /\ Reallocated(v, n).cap = IF n > 0 THEN n ELSE 4
BY DEF Vectors, Reallocated

\* Appending.
LEMMA PushBackFits ==
  ASSUME NEW v, Fits(v), NEW x \in Nat
  PROVE  Fits(PushBack(v, x)) /\ PushBack(v, x).vals = Append(v.vals, x)
<1> DEFINE w == IF v.cap <= Size(v) THEN Reallocated(v, Size(v) * 2) ELSE v
           n == Size(v) * 2
<1>1. v \in Vectors /\ v.vals \in Seq(Nat) /\ v.cap \in Nat /\ Size(v) \in Nat /\ n \in Nat
  BY DEF Fits, Vectors, Size
<1>2. Reallocated(v, n) \in Vectors /\ Reallocated(v, n).vals = v.vals
      /\ Reallocated(v, n).cap = IF n > 0 THEN n ELSE 4
  <2> HIDE DEF n
  <2> QED BY <1>1, ReallocatedFits
<1>3. w \in Vectors /\ w.vals = v.vals /\ Size(v) + 1 <= w.cap
  <2>1. CASE v.cap <= Size(v)
    <3>1. w = Reallocated(v, n)
      BY <2>1
    <3> HIDE DEF w
    <3> QED BY <1>1, <1>2, <3>1
  <2>2. CASE ~ (v.cap <= Size(v))
    BY <1>1, <2>2
  <2> QED BY <2>1, <2>2
<1> HIDE DEF w
<1> DEFINE s == Append(v.vals, x)
<1>4. s \in Seq(Nat) /\ Len(s) = Size(v) + 1
  BY <1>1 DEF Size
<1> HIDE DEF s
<1>5. PushBack(v, x) = [w EXCEPT !.vals = s]
  BY <1>3 DEF PushBack, w, s
<1>6. PushBack(v, x) = [vals |-> s, cap |-> w.cap]
  BY <1>3, <1>4, <1>5, VectorUpdate
<1> QED BY <1>3, <1>4, <1>6 DEF Fits, Vectors, Size, s

\* Another length.
LEMMA ResizedFits ==
  ASSUME NEW v, Fits(v), NEW n \in Nat, NEW x \in Nat
  PROVE  Fits(Resized(v, n, x)) /\ Size(Resized(v, n, x)) = n
<1> DEFINE w == IF n > v.cap THEN Reallocated(v, n) ELSE v
           s == [i \in 1 .. n |-> IF i <= Size(v) THEN v.vals[i] ELSE x]
<1>1. v \in Vectors /\ v.vals \in Seq(Nat) /\ v.cap \in Nat /\ Size(v) \in Nat
  BY DEF Fits, Vectors, Size
<1>2. w \in Vectors /\ n <= w.cap
  <2>1. Reallocated(v, n) \in Vectors /\ Reallocated(v, n).cap = IF n > 0 THEN n ELSE 4
    BY <1>1, ReallocatedFits
  <2>2. CASE n > v.cap
    BY <1>1, <2>1, <2>2
  <2>3. CASE ~ (n > v.cap)
    BY <1>1, <2>3
  <2> QED BY <2>2, <2>3
<1>3. s \in Seq(Nat) /\ Len(s) = n
  <2>1. s \in [1 .. n -> Nat]
    BY <1>1 DEF Size
  <2> HIDE DEF s
  <2> QED BY <2>1
<1>4. Resized(v, n, x) = [w EXCEPT !.vals = s]
  BY DEF Resized
<1> HIDE DEF w, s
<1>5. Resized(v, n, x) = [vals |-> s, cap |-> w.cap]
  BY <1>2, <1>3, <1>4, VectorUpdate
<1> QED BY <1>2, <1>3, <1>5 DEF Fits, Vectors, Size

\* Shrinking.
LEMMA ShrinkFits ==
  ASSUME NEW v, Fits(v)
  PROVE  Fits(ShrinkIfNeeded(v)) /\ ShrinkIfNeeded(v).vals = v.vals
<1>1. v \in Vectors /\ Size(v) \in Nat
  BY DEF Fits, Vectors, Size
<1>2. Size(v) > 4 => Fits(Reallocated(v, Size(v))) /\ Reallocated(v, Size(v)).vals = v.vals
  <2> DEFINE n == Size(v)
             w == Reallocated(v, n)
  <2>1. w \in Vectors /\ w.vals = v.vals /\ w.cap = IF n > 0 THEN n ELSE 4
    <3> HIDE DEF n
    <3> QED BY <1>1, ReallocatedFits DEF n
  <2>2. Size(w) = n
    BY <2>1 DEF Size
  <2> HIDE DEF w
  <2> QED BY <1>1, <2>1, <2>2 DEF Fits, w
<1> QED BY <1>2 DEF ShrinkIfNeeded, ShrinkToFit

\* The same capacity, and elements that fit.
LEMMA OtherVals ==
  ASSUME NEW v, Fits(v), NEW s \in Seq(Nat), Len(s) <= v.cap
  PROVE  Fits([v EXCEPT !.vals = s]) /\ [v EXCEPT !.vals = s].vals = s
<1>1. [v EXCEPT !.vals = s] = [vals |-> s, cap |-> v.cap] /\ v.cap \in Nat
  BY VectorUpdate DEF Fits, Vectors
<1> QED BY <1>1 DEF Fits, Vectors, Size

\* Parts of a sequence.
LEMMA PartOfSeq ==
  ASSUME NEW s \in Seq(Nat), NEW m \in Int, NEW n \in Int, m >= 1, n <= Len(s)
  PROVE  SubSeq(s, m, n) \in Seq(Nat) /\ Len(SubSeq(s, m, n)) = IF m <= n THEN n - m + 1 ELSE 0
<1>1. \A i \in m .. n : s[i] \in Nat
  OBVIOUS
<1> QED BY <1>1, SubSeqProperties

\* One sequence after another.
LEMMA JoinedSeq ==
  ASSUME NEW s \in Seq(Nat), NEW t \in Seq(Nat)
  PROVE  s \o t \in Seq(Nat) /\ Len(s \o t) = Len(s) + Len(t)
OBVIOUS

\* Without its last element, or another one.
LEMMA RemovedFits ==
  ASSUME NEW v, Fits(v), NEW i \in 0 .. Size(v) - 1
  PROVE  /\ Fits(PopBack(v)) /\ Size(PopBack(v)) = Size(v) - 1
         /\ Fits(RemovedAt(v, i)) /\ Size(RemovedAt(v, i)) = Size(v) - 1
<1> DEFINE n == Size(v)
           p == SubSeq(v.vals, 1, n - 1)
           j == i + 1
           l == SubSeq(v.vals, 1, j - 1)
           r == SubSeq(v.vals, j + 1, n)
<1>1. v.vals \in Seq(Nat) /\ n \in Nat /\ n = Len(v.vals) /\ n <= v.cap /\ v.cap \in Nat
  BY DEF Fits, Vectors, Size
<1>2. j \in 1 .. n
  BY <1>1
<1>3. p \in Seq(Nat) /\ Len(p) = n - 1
  <2>1. PICK o \in Int : o = 1
    OBVIOUS
  <2>0. n - 1 \in Int
    <3> HIDE DEF n
    <3> QED BY ONLY <1>1
  <2>2. PICK m \in Int : m = n - 1
    BY ONLY <2>0
  <2> DEFINE s == v.vals
  <2>3. s \in Seq(Nat) /\ o >= 1 /\ m <= Len(s)
    BY <1>1, <2>1, <2>2
  <2> HIDE DEF s
  <2>4. SubSeq(s, o, m) \in Seq(Nat) /\ Len(SubSeq(s, o, m)) = IF o <= m THEN m - o + 1 ELSE 0
    BY ONLY <2>3, o \in Int, m \in Int, PartOfSeq
  <2>5. p = SubSeq(s, o, m)
    BY <2>1, <2>2 DEF s
  <2> HIDE DEF p, n
  <2> QED BY ONLY <1>1, <1>2, <2>1, <2>2, <2>4, <2>5
<1>4. l \in Seq(Nat) /\ Len(l) = j - 1 /\ r \in Seq(Nat) /\ Len(r) = n - j
  <2>0. j \in Int /\ j - 1 \in Int /\ j + 1 \in Int /\ n \in Int
    BY <1>1, <1>2
  <2> HIDE DEF j, n
  <2>1. l \in Seq(Nat) /\ Len(l) = j - 1
    BY <1>1, <1>2, <2>0, PartOfSeq
  <2>2. r \in Seq(Nat) /\ Len(r) = n - j
    BY <1>1, <1>2, <2>0, PartOfSeq
  <2> QED BY <2>1, <2>2
<1>5. l \o r \in Seq(Nat) /\ Len(l \o r) = n - 1
  <2> HIDE DEF l, r, j, n
  <2>1. l \o r \in Seq(Nat) /\ Len(l \o r) = Len(l) + Len(r)
    BY ONLY <1>4, JoinedSeq
  <2> QED BY ONLY <1>1, <1>2, <1>4, <2>1
<1>6. PopBack(v) = [v EXCEPT !.vals = p]
  BY DEF PopBack, Front, Size
<1>7. RemovedAt(v, i) = [v EXCEPT !.vals = l \o r]
  BY DEF RemovedAt, RemoveAt, Size
<1> DEFINE q == l \o r
<1> HIDE DEF p, l, r, n, j, q
<1>8. Fits([v EXCEPT !.vals = p]) /\ [v EXCEPT !.vals = p].vals = p
  BY <1>1, <1>3, OtherVals
<1>9. Fits([v EXCEPT !.vals = q]) /\ [v EXCEPT !.vals = q].vals = q
  <2>1. q \in Seq(Nat) /\ Len(q) <= v.cap
    BY <1>1, <1>5 DEF q
  <2> QED BY <2>1, OtherVals
<1> QED BY <1>3, <1>5, <1>6, <1>7, <1>8, <1>9 DEF n, q, Size

\* With another element.
LEMMA InsertedFits ==
  ASSUME NEW v, Fits(v), NEW i \in 0 .. Size(v), NEW x \in Nat
  PROVE  Fits(InsertedAt(v, i, x)) /\ Size(InsertedAt(v, i, x)) = Size(v) + 1
<1> DEFINE n == Size(v)
           w == Resized(v, n + 1, Null)
           j == i + 1
           l == SubSeq(v.vals, 1, j - 1)
           r == SubSeq(v.vals, j, n)
           e == <<x>>
<1>1. v.vals \in Seq(Nat) /\ n \in Nat /\ n = Len(v.vals) /\ n + 1 \in Nat
  BY DEF Fits, Vectors, Size
<1>2. Fits(w) /\ Size(w) = n + 1
  <2>1. PICK z \in Nat : z = Null
    BY DEF Null
  <2>2. PICK k \in Nat : k = n + 1
    BY <1>1
  <2> HIDE DEF n
  <2> QED BY <2>1, <2>2, ResizedFits
<1>3. j \in 1 .. n + 1
  BY <1>1
<1>4. l \in Seq(Nat) /\ Len(l) = j - 1 /\ r \in Seq(Nat) /\ Len(r) = n - j + 1 /\ e \in Seq(Nat) /\ Len(e) = 1
  <2>1. l \in Seq(Nat) /\ Len(l) = j - 1
    <3> HIDE DEF j, n
    <3> QED BY <1>1, <1>3, PartOfSeq
  <2>2. r \in Seq(Nat) /\ Len(r) = n - j + 1
    <3> HIDE DEF j, n
    <3> QED BY <1>1, <1>3, PartOfSeq
  <2> QED BY <2>1, <2>2
<1> HIDE DEF l, r, e
<1>5. l \o e \in Seq(Nat) /\ Len(l \o e) = j
  <2>1. l \o e \in Seq(Nat) /\ Len(l \o e) = Len(l) + Len(e)
    BY ONLY <1>4, JoinedSeq
  <2> HIDE DEF j
  <2> QED BY ONLY <1>1, <1>3, <1>4, <2>1
<1>6. (l \o e) \o r \in Seq(Nat) /\ Len((l \o e) \o r) = n + 1
  <2> DEFINE a == l \o e
  <2> HIDE DEF a, j, n
  <2>1. a \o r \in Seq(Nat) /\ Len(a \o r) = Len(a) + Len(r)
    BY <1>4, <1>5, JoinedSeq DEF a
  <2> QED BY <1>1, <1>3, <1>4, <1>5, <2>1 DEF a
<1>7. InsertedAt(v, i, x) = [w EXCEPT !.vals = (l \o e) \o r]
  BY <1>1 DEF InsertedAt, InsertAt, Size, l, e, r
<1> DEFINE s == (l \o e) \o r
<1>8. w.cap \in Nat /\ Len(s) <= w.cap
  BY <1>2, <1>6 DEF Fits, Vectors
<1> HIDE DEF s, w, n
<1>9. Fits([w EXCEPT !.vals = s]) /\ [w EXCEPT !.vals = s].vals = s
  BY <1>2, <1>6, <1>8, OtherVals DEF s
<1> QED BY <1>6, <1>7, <1>9 DEF s, n, Size

\* In another order, or with another element in a place.
LEMMA ChangedFits ==
  ASSUME NEW v, Fits(v)
  PROVE  /\ Fits(Reversed(v)) /\ Size(Reversed(v)) = Size(v)
         /\ \A i \in Int, x \in Nat : Fits(Set(v, i, x)) /\ Size(Set(v, i, x)) = Size(v)
<1>1. v.vals \in Seq(Nat) /\ v.cap \in Nat /\ Size(v) \in Nat /\ Size(v) = Len(v.vals) /\ Size(v) <= v.cap
  BY DEF Fits, Vectors, Size
<1>2. Fits(Reversed(v)) /\ Size(Reversed(v)) = Size(v)
  <2> DEFINE s == Reverse(v.vals)
  <2>1. s \in Seq(Nat) /\ Len(s) = Len(v.vals)
    <3>1. s \in [1 .. Len(v.vals) -> Nat]
      BY <1>1 DEF Reverse
    <3> HIDE DEF s
    <3> QED BY <1>1, <3>1
  <2>2. Reversed(v) = [v EXCEPT !.vals = s]
    BY DEF Reversed
  <2> HIDE DEF s
  <2>3. Fits([v EXCEPT !.vals = s]) /\ [v EXCEPT !.vals = s].vals = s
    BY <1>1, <2>1, OtherVals
  <2> QED BY <1>1, <2>1, <2>2, <2>3 DEF Size
<1>3. ASSUME NEW i \in Int, NEW x \in Nat
      PROVE  Fits(Set(v, i, x)) /\ Size(Set(v, i, x)) = Size(v)
  <2>1. CASE ~InRange(v, i)
    BY <2>1 DEF Set
  <2>2. CASE InRange(v, i)
    <3> DEFINE s == [v.vals EXCEPT ![i + 1] = x]
    <3>1. s \in Seq(Nat) /\ Len(s) = Len(v.vals)
      <4>1. PICK k \in Int : k = i + 1
        OBVIOUS
      <4>2. k \in 1 .. Len(v.vals)
        BY <1>1, <2>2, <4>1 DEF InRange
      <4> QED BY <1>1, <4>1, <4>2, ExceptSeq
    <3>2. Set(v, i, x) = [v EXCEPT !.vals = s]
      BY <2>2 DEF Set
    <3> HIDE DEF s
    <3>3. Fits([v EXCEPT !.vals = s]) /\ [v EXCEPT !.vals = s].vals = s
      BY <1>1, <3>1, OtherVals
    <3> QED BY <1>1, <3>1, <3>2, <3>3 DEF Size
  <2> QED BY <2>1, <2>2
<1> QED BY <1>2, <1>3

\* A new array.
LEMMA CreateFits ==
  ASSUME NEW n \in Nat
  PROVE  Fits(Create(n)) /\ Size(Create(n)) = n
<1> DEFINE v == [vals |-> <<>>, cap |-> 0]
<1>1. Fits(v)
  BY DEF Fits, Vectors, Size
<1>2. PICK z \in Nat : z = Null
  BY DEF Null
<1> HIDE DEF v
<1>3. Fits(Resized(v, n, z)) /\ Size(Resized(v, n, z)) = n
  BY <1>1, ResizedFits
<1> QED BY <1>2, <1>3 DEF Create, v

\* An element that is read, or what the reader had.
LEMMA GetType ==
  ASSUME NEW v, Fits(v), NEW i \in Int, NEW x \in Nat
  PROVE  Get(v, i, x) \in Nat
BY DEF Get, InRange, Fits, Vectors, Size

\* A part of an array.
LEMMA SliceFits ==
  ASSUME NEW v, Fits(v), NEW start \in Int, NEW end \in Int, Slice(v, start, end) # Absent
  PROVE  Fits(Slice(v, start, end))
<1> DEFINE s == IF start < 0 THEN Size(v) + start ELSE start
           e == IF end < 0 THEN Size(v) + end ELSE end
           d == e - s
           q == [k \in 1 .. d |-> Get(v, s + k - 1, Null)]
<1>1. Size(v) \in Nat /\ s \in Int /\ e \in Int
  BY DEF Fits, Vectors, Size
<1>2. ~ (e < s \/ e > Size(v)) /\ Slice(v, start, end) = [Create(d) EXCEPT !.vals = q]
  BY DEF Slice
<1> HIDE DEF s, e
<1>3. d \in Nat
  BY <1>1, <1>2
<1> HIDE DEF d
<1>4. Fits(Create(d)) /\ Size(Create(d)) = d
  BY <1>3, CreateFits
<1>5. q \in Seq(Nat) /\ Len(q) = d
  <2>1. q \in [1 .. d -> Nat]
    <3>1. PICK z \in Nat : z = Null
      BY DEF Null
    <3>2. ASSUME NEW k \in 1 .. d PROVE Get(v, s + k - 1, Null) \in Nat
      <4>1. PICK j \in Int : j = s + k - 1
        BY <1>1, <1>3
      <4> QED BY <3>1, <4>1, GetType
    <3> QED BY <3>2
  <2> HIDE DEF q
  <2> QED BY <1>3, <2>1
<1> HIDE DEF q
<1> DEFINE c == Create(d)
<1>6. Fits(c) /\ Len(q) <= c.cap
  BY <1>4, <1>5 DEF Fits
<1> HIDE DEF c
<1>7. Fits([c EXCEPT !.vals = q])
  BY <1>5, <1>6, OtherVals
<1> QED BY <1>2, <1>7 DEF c

\* g is what an array becomes when the elements of s are appended one after another.
Appends(a, s, n, g) == g[0] = a /\ \A i \in 1 .. n : g[i] = PushBack(g[i - 1], s[i])

\* Sets of naturals have least elements.
LEMMA LeastElement ==
  ASSUME NEW T, T \subseteq Nat, T # {}
  PROVE  \E x \in T : \A y \in T : x <= y
<1> DEFINE R == {ss \in Nat \X Nat : ss[1] < ss[2]}
<1>1. IsWellFoundedOn(R, Nat)
  BY NatLessThanWellFounded DEF OpToRel
<1>2. PICK x \in T : \A y \in T : ~ (<<y, x>> \in R)
  <2> HIDE DEF R
  <2> QED BY <1>1, WFMin
<1>3. ASSUME NEW y \in T PROVE x <= y
  <2>1. x \in Nat /\ y \in Nat
    OBVIOUS
  <2>2. <<y, x>> \in Nat \X Nat /\ ~ (<<y, x>> \in R)
    BY <1>2, <2>1
  <2>3. ~ (y < x)
    BY <2>2
  <2> QED BY <2>1, <2>3
<1> QED BY <1>3

\* Any number of elements can be appended.
LEMMA AppendsRun ==
  ASSUME NEW a, Fits(a), NEW s \in Seq(Nat), NEW n \in 0 .. Len(s)
  PROVE  \E g \in [0 .. n -> Vectors] : Appends(a, s, n, g) /\ \A i \in 0 .. n : Fits(g[i])
<1> DEFINE Run(k) == \E g \in [0 .. k -> Vectors] : Appends(a, s, k, g) /\ \A i \in 0 .. k : Fits(g[i])
           T == {k \in 0 .. Len(s) : ~Run(k)}
<1>1. SUFFICES ASSUME T # {} PROVE FALSE
  OBVIOUS
<1>2. PICK k \in T : \A y \in T : k <= y
  <2>1. T \subseteq Nat
    OBVIOUS
  <2> HIDE DEF T
  <2> QED BY <1>1, <2>1, LeastElement
<1>3. CASE k = 0
  <2> DEFINE g == [i \in 0 .. 0 |-> a]
  <2>1. g \in [0 .. 0 -> Vectors] /\ Appends(a, s, 0, g) /\ \A i \in 0 .. 0 : Fits(g[i])
    BY DEF Appends, Fits
  <2>2. Run(0)
    <3> HIDE DEF g
    <3> QED BY <2>1
  <2> QED BY <1>3, <2>2
<1>4. CASE k # 0
  <2>1. k \in Nat /\ k - 1 \in 0 .. Len(s) /\ k \in 1 .. Len(s) /\ ~ (k <= k - 1) /\ k - 1 \in 0 .. k - 1
    BY <1>4
  <2>2. Run(k - 1)
    <3> HIDE DEF Run
    <3> QED BY <1>2, <2>1
  <2>3. PICK g \in [0 .. k - 1 -> Vectors] : Appends(a, s, k - 1, g) /\ \A i \in 0 .. k - 1 : Fits(g[i])
    BY <2>2
  <2> DEFINE w == PushBack(g[k - 1], s[k])
             h == [i \in 0 .. k |-> IF i = k THEN w ELSE g[i]]
  <2>4. h[k] = w /\ \A i \in 0 .. k - 1 : h[i] = g[i]
    BY <2>1
  <2>5. Fits(w) /\ w \in Vectors
    <3>1. Fits(g[k - 1]) /\ s[k] \in Nat
      BY <2>1, <2>3
    <3> QED BY <3>1, PushBackFits DEF Fits
  <2>6. h \in [0 .. k -> Vectors]
    <3> HIDE DEF w
    <3>1. \A i \in 0 .. k : i # k => i \in 0 .. k - 1
      BY <2>1
    <3> QED BY <2>1, <2>3, <2>5, <3>1
  <2>7. Appends(a, s, k, h)
    <3> HIDE DEF h
    <3>1. h[0] = a
      BY <2>1, <2>3, <2>4 DEF Appends
    <3>2. ASSUME NEW i \in 1 .. k PROVE h[i] = PushBack(h[i - 1], s[i])
      <4>1. i - 1 \in 0 .. k - 1 /\ h[i - 1] = g[i - 1]
        BY <2>1, <2>4
      <4>2. CASE i = k
        BY <2>4, <4>1, <4>2
      <4>3. CASE i # k
        <5>1. i \in 1 .. k - 1 /\ i \in 0 .. k - 1
          BY <2>1, <4>3
        <5> HIDE DEF w
        <5> QED BY <2>3, <2>4, <4>1, <5>1 DEF Appends
      <4> QED BY <4>2, <4>3
    <3> QED BY <3>1, <3>2 DEF Appends
  <2>8. \A i \in 0 .. k : Fits(h[i])
    <3> HIDE DEF h, w
    <3>1. \A i \in 0 .. k : i # k => i \in 0 .. k - 1
      BY <2>1
    <3> QED BY <2>3, <2>4, <2>5, <3>1
  <2>9. Run(k)
    <3> HIDE DEF h, w
    <3> QED BY <2>6, <2>7, <2>8
  <2> QED BY <2>9
<1> QED BY <1>3, <1>4

\* An array at the end of which another has been put.
LEMMA ExtendFits ==
  ASSUME NEW a, Fits(a), NEW b, Fits(b)
  PROVE  Fits(Extend(a, b))
<1> DEFINE n == Size(b)
           s == b.vals
           Grown(f) == [i \in 0 .. n |-> IF i = 0 THEN a ELSE PushBack(f[i - 1], s[i])]
           c == CHOOSE f : f = Grown(f)
<1>1. s \in Seq(Nat) /\ n \in Nat /\ n = Len(s) /\ n \in 0 .. Len(s)
  BY DEF Fits, Vectors, Size
<1> HIDE DEF s, n
<1>2. PICK g \in [0 .. n -> Vectors] : Appends(a, s, n, g) /\ \A i \in 0 .. n : Fits(g[i])
  BY <1>1, AppendsRun
<1>3. g = Grown(g)
  <2>1. \A i \in 0 .. n : g[i] = Grown(g)[i]
    BY <1>1, <1>2 DEF Appends
  <2>2. DOMAIN g = 0 .. n /\ g = [i \in 0 .. n |-> g[i]]
    BY <1>2
  <2> DEFINE h == Grown(g)
  <2>3. h = [i \in 0 .. n |-> h[i]]
    OBVIOUS
  <2> HIDE DEF h
  <2> QED BY <2>1, <2>2, <2>3 DEF h
<1>4. c = Grown(c)
  <2> HIDE DEF Grown
  <2> QED BY <1>3
<1> HIDE DEF c
<1>5. \A i \in 0 .. n : c[i] = IF i = 0 THEN a ELSE PushBack(c[i - 1], s[i])
  <2> DEFINE h == Grown(c)
  <2>1. \A i \in 0 .. n : h[i] = IF i = 0 THEN a ELSE PushBack(c[i - 1], s[i])
    OBVIOUS
  <2> HIDE DEF h
  <2> QED BY <1>4, <2>1 DEF h
<1>6. \A i \in 0 .. n : Fits(c[i])
  <2> DEFINE T == {i \in 0 .. n : ~Fits(c[i])}
  <2>1. SUFFICES ASSUME T # {} PROVE FALSE
    OBVIOUS
  <2>2. PICK k \in T : \A y \in T : k <= y
    <3>1. T \subseteq Nat
      OBVIOUS
    <3> HIDE DEF T
    <3> QED BY <2>1, <3>1, LeastElement
  <2>3. CASE k = 0
    BY <1>1, <1>5, <2>2, <2>3
  <2>4. CASE k # 0
    <3>1. k - 1 \in 0 .. n /\ k \in 1 .. n /\ ~ (k <= k - 1) /\ k \in 0 .. n
      BY <1>1, <2>2, <2>4
    <3>2. Fits(c[k - 1])
      BY <2>2, <3>1
    <3>3. c[k] = PushBack(c[k - 1], s[k]) /\ s[k] \in Nat
      BY <1>1, <1>5, <2>4, <3>1
    <3>4. Fits(c[k])
      BY <3>2, <3>3, PushBackFits
    <3> QED BY <2>2, <3>4
  <2> QED BY <2>3, <2>4
<1>7. Extend(a, b) = c[n]
  BY DEF Extend, c, n, s
<1> QED BY <1>1, <1>6, <1>7

----------------------------------------------------------------------------
(* The inductive invariant.                                                *)

Ats == {"loop", "children", "parent", "end"}
Slots == {"array", "closure", "argument", "result"}

VisitRuns ==
  [op : Visits, n : Nat, size : Nat, temp : Nat, dest : Vectors, stk : Seq(Slots), given : Seq(Nat),
   before : Seq(Nat), touched : BOOLEAN]

SortRuns ==
  [op : {"sort"}, user : BOOLEAN, phase : {"build", "extract"}, i : Nat, at : Ats, root : Nat, bottom : Nat,
   child : Int, size : Nat, before : Seq(Nat), touched : BOOLEAN]

\* What holds whenever map, apply, reduce or filter is at the head of its loop or in its callback:
\* the results so far, and that the callback was given what it would find.
Walking(a, r) ==
  /\ r \in VisitRuns
  /\ Fits(r.dest)
  /\ r.op = "map" => Size(r.dest) = r.size
  /\ Len(r.before) = r.size
  /\ ~r.touched /\ r.op # "apply" =>
       /\ a.vals = r.before
       /\ Len(r.given) <= r.size
       /\ \A k \in 1 .. Len(r.given) : r.given[k] = r.before[k]

\* In the callback, the arguments lie above the array and the closure.
InVisit(a, r) ==
  /\ Walking(a, r)
  /\ r.n < r.size
  /\ Len(r.given) = r.n + 1
  /\ Len(r.stk) = 2 + NArgs(r.op)
  /\ r.stk[2] = "closure"

\* At the head of the loop they do not; reduce has passed the first element already.
AtHead(a, r) ==
  /\ Walking(a, r)
  /\ (r.n <= r.size /\ Len(r.given) = r.n) \/ (r.size = 0 /\ Len(r.given) = 0)
  /\ Len(r.stk) = 2
  /\ r.stk[2] = "closure"

\* The element in a place that counts from 0.
At(s, k) == s[k + 1]

IsChild(c, p) == c = 2 * p \/ c = 2 * p + 1

\* From place lo on, no element is larger than the one above it, except that hole may be smaller
\* than the ones below it.
HeapBut(s, lo, bottom, hole) ==
  \A p \in lo .. bottom, c \in 0 .. bottom : IsChild(c, p) /\ p # hole => At(s, p) >= At(s, c)

\* What is above the hole is not smaller than what is below it.
Bridged(s, lo, bottom, hole) ==
  \A p \in lo .. bottom, c \in 0 .. bottom :
    IsChild(hole, p) /\ p # hole /\ IsChild(c, hole) => At(s, p) >= At(s, c)

\* No child of hole is larger than child.
Largest(s, bottom, hole, child) == \A c \in 0 .. bottom : IsChild(c, hole) => At(s, child) >= At(s, c)

\* The places above bottom have their final elements.
TopSorted(s, bottom, size) ==
  \A j \in 0 .. size - 1, k \in bottom + 1 .. size - 1 : j <= k => At(s, j) <= At(s, k)

\* The places of the heap.
Indices(a, r) ==
  /\ r \in SortRuns
  /\ 2 <= r.size /\ r.size <= Size(a)
  /\ ~r.touched => r.size = Size(a)
  /\ r.root <= r.size - 1
  /\ r.phase = "build" => r.bottom = r.size - 1 /\ 2 * r.i <= r.size /\ r.i <= r.root
  /\ r.phase = "extract" => r.i <= r.size - 1 /\ r.bottom = r.i - 1 /\ r.root <= r.bottom
  /\ r.at = "children" => r.child = 2 * r.root /\ r.child + 1 <= r.bottom
  /\ r.at = "parent" => IsChild(r.child, r.root) /\ r.child <= r.bottom

LowEnd(r) == IF r.phase = "build" THEN r.i ELSE 0

\* The order of the elements, when ObjCmp compares them.
Ordered(s, r) ==
  /\ r.at = "end" => HeapBut(s, LowEnd(r), r.bottom, -1)
  /\ r.at # "end" => HeapBut(s, LowEnd(r), r.bottom, r.root) /\ Bridged(s, LowEnd(r), r.bottom, r.root)
  /\ r.at = "parent" => Largest(s, r.bottom, r.root, r.child)
  /\ TopSorted(s, r.bottom, r.size)

Sorting(a, r) ==
  /\ Indices(a, r)
  /\ ~r.touched => Counts(a.vals) = Counts(r.before)
  /\ ~r.user => ~r.touched /\ Ordered(a.vals, r)

\* What the function that ran last has left behind.
Left(a, e) ==
  /\ e.op \in Visits /\ e.ok =>
       /\ Len(e.given) = e.size
       /\ ~e.touched /\ e.op # "apply" => e.given = e.before
       /\ e.op = "map" => Size(e.dest) = e.size
  /\ e.op = "sort" =>
       /\ ~e.touched => Counts(a.vals) = Counts(e.before)
       /\ e.ok /\ ~e.user /\ ~e.touched => \A i \in 1 .. Size(a) - 1 : a.vals[i] <= a.vals[i + 1]

Running(a, r) ==
  \/ InVisit(a, r)
  \/ Sorting(a, r)
  \/ r.op = "none" /\ Left(a, r.ended)

IInv == Fits(arr) /\ ops \in Nat /\ Running(arr, run)

----------------------------------------------------------------------------
(* Two elements exchanged.                                                 *)

Exchanged(s, t, i, j) ==
  /\ Len(t) = Len(s)
  /\ \A k \in 0 .. Len(s) - 1 : At(t, k) = IF k = j THEN At(s, i) ELSE IF k = i THEN At(s, j) ELSE At(s, k)

\* Elements are numbers.
LEMMA AtType ==
  ASSUME NEW s \in Seq(Nat)
  PROVE  \A k \in 0 .. Len(s) - 1 : At(s, k) \in Nat
BY DEF At

\* Swap exchanges two elements.
LEMMA SwapExchanges ==
  ASSUME NEW a, Fits(a), NEW i \in 0 .. Size(a) - 1, NEW j \in 0 .. Size(a) - 1
  PROVE  Fits(Swap(a, i, j)) /\ Exchanged(a.vals, Swap(a, i, j).vals, i, j)
<1> DEFINE s == a.vals
           u == [s EXCEPT ![i + 1] = s[j + 1]]
           t == [u EXCEPT ![j + 1] = s[i + 1]]
<1>1. s \in Seq(Nat) /\ a.cap \in Nat /\ Size(a) = Len(s) /\ Len(s) \in Nat /\ Len(s) <= a.cap
  BY DEF Fits, Vectors, Size
<1>2. i + 1 \in 1 .. Len(s) /\ j + 1 \in 1 .. Len(s)
  BY <1>1
<1> HIDE DEF s
<1>3. u \in Seq(Nat) /\ Len(u) = Len(s)
      /\ \A k \in 1 .. Len(s) : u[k] = IF k = i + 1 THEN s[j + 1] ELSE s[k]
  BY <1>1, <1>2
<1> HIDE DEF u
<1>4. t \in Seq(Nat) /\ Len(t) = Len(s)
      /\ \A k \in 1 .. Len(s) : t[k] = IF k = j + 1 THEN s[i + 1] ELSE u[k]
  BY <1>1, <1>2, <1>3
<1>5. Swap(a, i, j) = [a EXCEPT !.vals = t]
  BY DEF Swap, t, u, s
<1> HIDE DEF t
<1>6. Fits([a EXCEPT !.vals = t]) /\ [a EXCEPT !.vals = t].vals = t
  BY <1>1, <1>4, OtherVals
<1>7. ASSUME NEW k \in 0 .. Len(s) - 1
      PROVE  At(t, k) = IF k = j THEN At(s, i) ELSE IF k = i THEN At(s, j) ELSE At(s, k)
  <2>1. k + 1 \in 1 .. Len(s) /\ (k + 1 = j + 1 <=> k = j) /\ (k + 1 = i + 1 <=> k = i)
    BY <1>1
  <2>2. t[k + 1] = IF k + 1 = j + 1 THEN s[i + 1] ELSE IF k + 1 = i + 1 THEN s[j + 1] ELSE s[k + 1]
    BY <1>3, <1>4, <2>1
  <2> QED BY <2>1, <2>2 DEF At
<1> QED BY <1>4, <1>5, <1>6, <1>7 DEF Exchanged, s

\* An exchange loses and doubles no element.
LEMMA ExchangeCounts ==
  ASSUME NEW s \in Seq(Nat), NEW t \in Seq(Nat), NEW i \in 0 .. Len(s) - 1, NEW j \in 0 .. Len(s) - 1,
         Exchanged(s, t, i, j)
  PROVE  Counts(t) = Counts(s)
<1> DEFINE n == Len(s)
           to(k) == IF k = j + 1 THEN i + 1 ELSE IF k = i + 1 THEN j + 1 ELSE k
<1>1. n \in Nat /\ DOMAIN s = 1 .. n /\ DOMAIN t = 1 .. n
  BY DEF Exchanged
<1>2. \A k \in 1 .. n : to(k) \in 1 .. n /\ to(to(k)) = k
  BY <1>1
<1>3. \A k \in 1 .. n : t[k] = s[to(k)]
  <2> SUFFICES ASSUME NEW k \in 1 .. n PROVE t[k] = s[to(k)]
    OBVIOUS
  <2>1. PICK l \in 0 .. n - 1 : k = l + 1
    <3>1. k - 1 \in 0 .. n - 1 /\ k = (k - 1) + 1
      BY <1>1
    <3> QED BY <3>1
  <2>2. t[l + 1] = IF l = j THEN s[i + 1] ELSE IF l = i THEN s[j + 1] ELSE s[l + 1]
    BY DEF Exchanged, At
  <2>3. (k = j + 1 <=> l = j) /\ (k = i + 1 <=> l = i)
    BY <1>1, <2>1
  <2> QED BY <2>1, <2>2, <2>3
<1>4. \A k \in 1 .. n : s[k] = t[to(k)]
  <2> HIDE DEF to
  <2> QED BY <1>2, <1>3
<1> HIDE DEF to, n
<1>5. ToSet(s) = ToSet(t)
  BY <1>1, <1>2, <1>3, <1>4 DEF ToSet
<1>6. ASSUME NEW x
      PROVE  Cardinality({k \in DOMAIN t : t[k] = x}) = Cardinality({k \in DOMAIN s : s[k] = x})
  <2> DEFINE S == {k \in 1 .. n : s[k] = x}
             T == {k \in 1 .. n : t[k] = x}
             f == [k \in S |-> to(k)]
  <2>1. IsFiniteSet(S)
    <3>1. PICK z \in Int : z = 1
      OBVIOUS
    <3>2. IsFiniteSet(z .. n)
      BY <1>1, FS_Interval
    <3>3. S \in SUBSET (z .. n)
      BY <3>1
    <3> HIDE DEF S
    <3> QED BY <3>2, <3>3, FS_Subset
  <2>2. f \in [S -> T]
    BY <1>2, <1>4
  <2>3. \A k \in S : f[k] = to(k)
    OBVIOUS
  <2>4. \A k \in S : k \in 1 .. n /\ to(to(k)) = k
    BY <1>2
  <2>5. \A k \in T : to(k) \in S /\ to(to(k)) = k
    BY <1>2, <1>3
  <2> HIDE DEF S, T, f
  <2>6. f \in Bijection(S, T)
    <3>1. f \in Injection(S, T)
      BY <2>2, <2>3, <2>4 DEF Injection, IsInjective
    <3>2. f \in Surjection(S, T)
      BY <2>2, <2>3, <2>5 DEF Surjection
    <3> QED BY <3>1, <3>2 DEF Bijection
  <2>7. Cardinality(T) = Cardinality(S)
    <3>1. ExistsBijection(S, T)
      BY <2>6 DEF ExistsBijection
    <3> QED BY <2>1, <3>1, FS_Bijection
  <2> QED BY <1>1, <2>7 DEF S, T
<1> QED BY <1>5, <1>6 DEF Counts

----------------------------------------------------------------------------
(* The heap. Place 0 is its own child: its parent is itself.               *)

\* The first element of a heap is the largest.
LEMMA HeapTop ==
  ASSUME NEW s \in Seq(Nat), NEW bottom \in Nat, bottom < Len(s), HeapBut(s, 0, bottom, -1)
  PROVE  \A k \in 0 .. bottom : At(s, 0) >= At(s, k)
<1> DEFINE T == {k \in 0 .. bottom : ~ (At(s, 0) >= At(s, k))}
<1>1. SUFFICES ASSUME T # {} PROVE FALSE
  OBVIOUS
<1>2. PICK k \in T : \A y \in T : k <= y
  <2>1. T \subseteq Nat
    OBVIOUS
  <2> HIDE DEF T
  <2> QED BY <1>1, <2>1, LeastElement
<1>3. \A j \in 0 .. bottom : At(s, j) \in Nat
  BY AtType
<1>4. k # 0 /\ k \in 0 .. bottom
  BY <1>2, <1>3
<1>5. PICK p \in 0 .. bottom : IsChild(k, p) /\ p < k
  <2>1. k \div 2 \in 0 .. bottom /\ k \div 2 < k /\ (k = 2 * (k \div 2) \/ k = 2 * (k \div 2) + 1)
    BY <1>4
  <2> QED BY <2>1 DEF IsChild
<1>6. At(s, p) >= At(s, k)
  BY <1>4, <1>5 DEF HeapBut
<1>7. p \notin T
  BY <1>2, <1>4, <1>5
<1>8. At(s, 0) >= At(s, p)
  BY <1>7
<1>9. At(s, 0) >= At(s, k)
  BY <1>3, <1>4, <1>5, <1>6, <1>8
<1> QED BY <1>2, <1>9

\* An element that is smaller than the larger one below it moves down.
LEMMA SiftStep ==
  ASSUME NEW s \in Seq(Nat), NEW t \in Seq(Nat), NEW bottom \in Nat, bottom < Len(s),
         NEW lo \in Nat, NEW hole \in lo .. bottom, NEW child \in 0 .. bottom,
         IsChild(child, hole), child # hole, At(s, hole) < At(s, child),
         HeapBut(s, lo, bottom, hole), Bridged(s, lo, bottom, hole), Largest(s, bottom, hole, child),
         Exchanged(s, t, hole, child)
  PROVE  HeapBut(t, lo, bottom, child) /\ Bridged(t, lo, bottom, child)
<1>1. /\ \A k \in 0 .. bottom : At(s, k) \in Nat
      /\ At(t, hole) = At(s, child) /\ At(t, child) = At(s, hole)
      /\ \A k \in 0 .. bottom : k # hole /\ k # child => At(t, k) = At(s, k)
  <2>1. hole \in 0 .. Len(s) - 1 /\ child \in 0 .. Len(s) - 1 /\ \A k \in 0 .. bottom : k \in 0 .. Len(s) - 1
    OBVIOUS
  <2>2. \A k \in 0 .. bottom : At(s, k) \in Nat
    BY <2>1, AtType
  <2>3. At(t, hole) = At(s, child) /\ At(t, child) = At(s, hole)
    BY <2>1 DEF Exchanged
  <2>4. \A k \in 0 .. bottom : k # hole /\ k # child => At(t, k) = At(s, k)
    BY <2>1 DEF Exchanged
  <2> QED BY <2>2, <2>3, <2>4
<1>2. hole \in Nat /\ hole \in 0 .. bottom /\ child \in Nat /\ hole < child
  BY DEF IsChild
<1>3. ASSUME NEW p \in lo .. bottom, NEW c \in 0 .. bottom, IsChild(c, p), p # child
      PROVE  At(t, p) >= At(t, c)
  <2>0. p \in 0 .. bottom
    OBVIOUS
  <2>1. CASE p = hole
    <3>1. At(s, child) >= At(s, c)
      BY <1>3, <2>1 DEF Largest
    <3>2. CASE c = child
      BY <1>1, <1>2, <2>1, <3>2
    <3>3. CASE c = hole
      BY <1>1, <1>2, <2>1, <3>3
    <3>4. CASE c # child /\ c # hole
      BY <1>1, <1>2, <2>1, <3>1, <3>4
    <3> QED BY <3>2, <3>3, <3>4
  <2>2. CASE p # hole
    <3>1. At(t, p) = At(s, p) /\ At(s, p) >= At(s, c)
      BY <1>1, <1>3, <2>0, <2>2 DEF HeapBut
    <3>2. c # child
      BY <1>2, <1>3, <2>2 DEF IsChild
    <3>3. CASE c = hole
      <4>1. At(s, p) >= At(s, child)
        BY <1>3, <2>2, <3>3 DEF Bridged
      <4> QED BY <1>1, <3>1, <3>3, <4>1
    <3>4. CASE c # hole
      BY <1>1, <3>1, <3>2, <3>4
    <3> QED BY <3>3, <3>4
  <2> QED BY <2>1, <2>2
<1>4. ASSUME NEW p \in lo .. bottom, NEW c \in 0 .. bottom, IsChild(child, p), p # child, IsChild(c, child)
      PROVE  At(t, p) >= At(t, c)
  <2>1. p = hole /\ c # hole /\ c # child /\ child \in lo .. bottom
    BY <1>2, <1>4 DEF IsChild
  <2>2. At(s, child) >= At(s, c)
    BY <1>2, <1>4, <2>1 DEF HeapBut
  <2> QED BY <1>1, <2>1, <2>2
<1>5. HeapBut(t, lo, bottom, child)
  BY <1>3 DEF HeapBut
<1>6. Bridged(t, lo, bottom, child)
  BY <1>4 DEF Bridged
<1> QED BY <1>5, <1>6

\* An element that is not smaller than the larger one below it is in its place.
LEMMA SiftStops ==
  ASSUME NEW s \in Seq(Nat), NEW bottom \in Nat, bottom < Len(s), NEW lo \in Nat, NEW hole \in lo .. bottom,
         NEW child \in 0 .. bottom, At(s, hole) >= At(s, child),
         HeapBut(s, lo, bottom, hole), Largest(s, bottom, hole, child)
  PROVE  HeapBut(s, lo, bottom, -1)
<1>1. \A k \in 0 .. bottom : At(s, k) \in Nat
  BY AtType
<1>2. ASSUME NEW p \in lo .. bottom, NEW c \in 0 .. bottom, IsChild(c, p)
      PROVE  At(s, p) >= At(s, c)
  <2>1. p \in 0 .. bottom
    OBVIOUS
  <2>2. CASE p = hole
    <3>1. At(s, child) >= At(s, c)
      BY <1>2, <2>2 DEF Largest
    <3> QED BY <1>1, <2>1, <2>2, <3>1
  <2>3. CASE p # hole
    BY <1>2, <2>3 DEF HeapBut
  <2> QED BY <2>2, <2>3
<1> QED BY <1>2 DEF HeapBut

\* An exchange in the heap leaves what is above it sorted.
LEMMA ExchangeBelow ==
  ASSUME NEW s \in Seq(Nat), NEW t \in Seq(Nat), NEW bottom \in Nat, bottom < Len(s),
         NEW i \in 0 .. bottom, NEW j \in 0 .. bottom, Exchanged(s, t, i, j), TopSorted(s, bottom, Len(s))
  PROVE  TopSorted(t, bottom, Len(s))
<1>1. ASSUME NEW l \in 0 .. Len(s) - 1, NEW k \in bottom + 1 .. Len(s) - 1, l <= k
      PROVE  At(t, l) <= At(t, k)
  <2>1. k \in 0 .. Len(s) - 1 /\ k # i /\ k # j /\ i <= k /\ j <= k /\ i \in 0 .. Len(s) - 1 /\ j \in 0 .. Len(s) - 1
    OBVIOUS
  <2>2. At(t, k) = At(s, k)
    BY <2>1 DEF Exchanged
  <2>3. At(t, l) = At(s, i) \/ At(t, l) = At(s, j) \/ At(t, l) = At(s, l)
    BY DEF Exchanged
  <2>4. At(s, i) <= At(s, k) /\ At(s, j) <= At(s, k) /\ At(s, l) <= At(s, k)
    BY <1>1, <2>1 DEF TopSorted
  <2> QED BY <2>2, <2>3, <2>4
<1> QED BY <1>1 DEF TopSorted

\* The largest element goes to the end of the heap, which becomes one shorter.
LEMMA ExtractStep ==
  ASSUME NEW s \in Seq(Nat), NEW t \in Seq(Nat), NEW bottom \in Nat, bottom < Len(s), bottom >= 1,
         HeapBut(s, 0, bottom, -1), TopSorted(s, bottom, Len(s)), Exchanged(s, t, 0, bottom)
  PROVE  HeapBut(t, 0, bottom - 1, 0) /\ Bridged(t, 0, bottom - 1, 0) /\ TopSorted(t, bottom - 1, Len(s))
<1>1. /\ \A k \in 0 .. Len(s) - 1 : At(s, k) \in Nat
      /\ At(t, 0) = At(s, bottom) /\ At(t, bottom) = At(s, 0)
      /\ \A k \in 0 .. Len(s) - 1 : k # 0 /\ k # bottom => At(t, k) = At(s, k)
  <2>1. 0 \in 0 .. Len(s) - 1 /\ bottom \in 0 .. Len(s) - 1 /\ bottom # 0
    OBVIOUS
  <2>2. \A k \in 0 .. Len(s) - 1 : At(s, k) \in Nat
    BY AtType
  <2>3. \A k \in 0 .. Len(s) - 1 :
          At(t, k) = IF k = bottom THEN At(s, 0) ELSE IF k = 0 THEN At(s, bottom) ELSE At(s, k)
    BY DEF Exchanged
  <2> QED BY ONLY <2>1, <2>2, <2>3
<1>2. ASSUME NEW p \in 0 .. bottom - 1, NEW c \in 0 .. bottom - 1, IsChild(c, p), p # 0
      PROVE  At(t, p) >= At(t, c)
  <2>1. c # 0 /\ c # bottom /\ p # bottom /\ p \in 0 .. Len(s) - 1 /\ c \in 0 .. Len(s) - 1
        /\ p \in 0 .. bottom /\ c \in 0 .. bottom
    BY <1>2 DEF IsChild
  <2>2. At(s, p) >= At(s, c)
    BY <1>2, <2>1 DEF HeapBut
  <2> QED BY <1>1, <1>2, <2>1, <2>2
<1>3. ASSUME NEW p \in 0 .. bottom - 1, IsChild(0, p), p # 0
      PROVE  FALSE
  BY <1>3 DEF IsChild
<1>4. ASSUME NEW l \in 0 .. Len(s) - 1, NEW k \in bottom .. Len(s) - 1, l <= k
      PROVE  At(t, l) <= At(t, k)
  <2>1. CASE k = bottom
    <3>1. PICK j \in 0 .. bottom : At(t, l) = At(s, j)
      <4>0. 0 \in 0 .. bottom /\ bottom \in 0 .. bottom /\ l \in 0 .. bottom
        BY <1>4, <2>1
      <4>1. CASE l = 0
        BY <1>1, <4>0, <4>1
      <4>2. CASE l = bottom
        BY <1>1, <4>0, <4>2
      <4>3. CASE l # 0 /\ l # bottom
        BY <1>1, <4>0, <4>3
      <4> QED BY <4>1, <4>2, <4>3
    <3>2. At(s, 0) >= At(s, j) /\ At(s, 0) \in Nat /\ At(s, j) \in Nat
      BY <1>1, HeapTop
    <3> QED BY <1>1, <2>1, <3>1, <3>2
  <2>2. CASE k # bottom
    <3>1. k \in bottom + 1 .. Len(s) - 1 /\ k \in 0 .. Len(s) - 1 /\ k # 0
          /\ 0 \in 0 .. Len(s) - 1 /\ bottom \in 0 .. Len(s) - 1 /\ 0 <= k /\ bottom <= k
      BY <2>2
    <3>2. At(s, 0) <= At(s, k) /\ At(s, bottom) <= At(s, k) /\ At(s, l) <= At(s, k)
      BY <1>4, <3>1 DEF TopSorted
    <3>3. At(t, k) = At(s, k)
      BY <1>1, <2>2, <3>1
    <3>4. At(t, l) = At(s, 0) \/ At(t, l) = At(s, bottom) \/ At(t, l) = At(s, l)
      BY <1>1
    <3> QED BY <3>2, <3>3, <3>4
  <2> QED BY <2>1, <2>2
<1>5. HeapBut(t, 0, bottom - 1, 0)
  BY <1>2 DEF HeapBut
<1>6. Bridged(t, 0, bottom - 1, 0)
  BY <1>3 DEF Bridged
<1>7. TopSorted(t, bottom - 1, Len(s))
  BY <1>4 DEF TopSorted
<1> QED BY <1>5, <1>6, <1>7

----------------------------------------------------------------------------
(* The steps of a sort.                                                    *)

\* A step of a sort changes neither what is sorted nor how.
SameSort(r, q) ==
  /\ q \in SortRuns
  /\ q.user = r.user /\ q.size = r.size /\ q.before = r.before /\ q.touched = r.touched

SameLoop(r, q) == q.phase = r.phase /\ q.i = r.i /\ q.bottom = r.bottom

\* What the types of a sort say.
LEMMA SortTypes ==
  ASSUME NEW a, Fits(a), NEW r, Indices(a, r)
  PROVE  /\ a.vals \in Seq(Nat) /\ Size(a) \in Nat /\ Size(a) = Len(a.vals)
         /\ r.user \in BOOLEAN /\ r.touched \in BOOLEAN /\ r.phase \in {"build", "extract"} /\ r.at \in Ats
         /\ r.i \in Nat /\ r.root \in Nat /\ r.bottom \in Nat /\ r.child \in Int /\ r.size \in Nat
         /\ r.op = "sort" /\ LowEnd(r) \in Nat /\ LowEnd(r) <= r.root
         /\ r.root < Size(a) /\ r.bottom < Size(a) /\ r.root <= r.bottom
         /\ r.phase = "extract" => r.bottom < r.i
<1>1. /\ a.vals \in Seq(Nat) /\ Size(a) \in Nat /\ Size(a) = Len(a.vals)
  BY DEF Fits, Vectors, Size
<1>2. /\ r.user \in BOOLEAN /\ r.touched \in BOOLEAN /\ r.phase \in {"build", "extract"} /\ r.at \in Ats
      /\ r.i \in Nat /\ r.root \in Nat /\ r.bottom \in Nat /\ r.child \in Int /\ r.size \in Nat
      /\ r.op = "sort"
  BY DEF Indices, SortRuns
<1>3. LowEnd(r) \in Nat /\ LowEnd(r) <= r.root
  BY <1>2 DEF Indices, LowEnd
<1>4. r.root < Size(a) /\ r.bottom < Size(a) /\ r.root <= r.bottom
  <2>1. r.size <= Size(a) /\ r.root <= r.size - 1
    BY DEF Indices
  <2>2. r.bottom < r.size /\ r.root <= r.bottom
    <3>1. CASE r.phase = "build"
      BY <1>2, <2>1, <3>1 DEF Indices
    <3>2. CASE r.phase = "extract"
      BY <1>2, <2>1, <3>2 DEF Indices
    <3> QED BY <1>2, <3>1, <3>2
  <2> QED BY <1>1, <1>2, <2>1, <2>2
<1>5. r.phase = "extract" => r.bottom < r.i
  BY <1>2 DEF Indices
<1> QED BY <1>1, <1>2, <1>3, <1>4, <1>5

\* A step that leaves the array and the loop of _hsort alone keeps the invariant if it keeps the order
\* and the places.
LEMMA SameKept ==
  ASSUME NEW a, Fits(a), NEW r, Sorting(a, r), NEW q, SameSort(r, q), SameLoop(r, q), q.root = r.root,
         q.at = "children" => q.child = 2 * q.root /\ q.child + 1 <= q.bottom,
         q.at = "parent" => IsChild(q.child, q.root) /\ q.child <= q.bottom,
         ~r.user => Ordered(a.vals, q)
  PROVE  Sorting(a, q)
<1>1. Indices(a, q)
  BY DEF Sorting, Indices, SameSort, SameLoop
<1> QED BY <1>1 DEF Sorting, SameSort

\* The loop of _hsort_sift_down.
LEMMA SiftLoopKeeps ==
  ASSUME Fits(arr), Sorting(arr, run), SiftLoop
  PROVE  Sorting(arr', run')
<1>1. run.at = "loop" /\ arr' = arr /\ run \in SortRuns /\ Indices(arr, run)
  BY DEF SiftLoop, Sorting, Indices
<1>2. /\ arr.vals \in Seq(Nat) /\ run.root \in Nat /\ run.bottom \in Nat /\ LowEnd(run) \in Nat
      /\ run.phase \in {"build", "extract"}
  BY <1>1, SortTypes
<1>3. ~run.user => HeapBut(arr.vals, LowEnd(run), run.bottom, run.root)
                   /\ Bridged(arr.vals, LowEnd(run), run.bottom, run.root)
                   /\ TopSorted(arr.vals, run.bottom, run.size)
  BY <1>1 DEF Sorting, Ordered
<1> DEFINE root2 == run.root * 2
<1>4. root2 \in Int /\ root2 = 2 * run.root
  BY <1>2
<1> HIDE DEF root2
<1>5. CASE root2 > run.bottom
  <2> DEFINE q == [run EXCEPT !.at = "end"]
  <2>1. run' = q
    BY <1>2, <1>4, <1>5 DEF SiftLoop, root2
  <2>2. SameSort(run, q) /\ SameLoop(run, q) /\ q.at = "end" /\ q.root = run.root
    BY <1>1, <1>4 DEF SortRuns, SameSort, SameLoop, Ats
  <2> HIDE DEF q
  <2>3. ~run.user => Ordered(arr.vals, q)
    <3>1. LowEnd(q) = LowEnd(run)
      BY <2>2 DEF SameLoop, LowEnd
    <3>2. ASSUME ~run.user PROVE HeapBut(arr.vals, LowEnd(run), run.bottom, -1)
      BY <1>2, <1>3, <1>4, <1>5, <3>2 DEF HeapBut, IsChild
    <3> QED BY <1>3, <2>2, <3>1, <3>2 DEF Ordered, SameLoop, SameSort
  <2> QED BY <1>1, <2>1, <2>2, <2>3, SameKept
<1>6. CASE root2 = run.bottom
  <2> DEFINE q == [run EXCEPT !.at = "parent", !.child = root2]
  <2>1. run' = q
    BY <1>2, <1>4, <1>6 DEF SiftLoop, root2
  <2>2. SameSort(run, q) /\ SameLoop(run, q) /\ q.at = "parent" /\ q.root = run.root /\ q.child = root2
    BY <1>1, <1>4 DEF SortRuns, SameSort, SameLoop, Ats
  <2> HIDE DEF q
  <2>3. IsChild(q.child, q.root) /\ q.child <= q.bottom
    BY <1>2, <1>4, <1>6, <2>2 DEF IsChild, SameLoop
  <2>4. ~run.user => Ordered(arr.vals, q)
    <3>1. LowEnd(q) = LowEnd(run)
      BY <2>2 DEF SameLoop, LowEnd
    <3>2. Largest(arr.vals, run.bottom, run.root, root2)
      <4>1. root2 \in 0 .. run.bottom /\ root2 < Len(arr.vals)
        BY <1>1, <1>2, <1>4, <1>6, SortTypes
      <4>2. At(arr.vals, root2) \in Nat
        BY <1>2, <4>1, AtType
      <4>3. ASSUME NEW c \in 0 .. run.bottom, IsChild(c, run.root) PROVE c = root2
        BY <1>2, <1>4, <1>6, <4>3 DEF IsChild
      <4> QED BY <4>2, <4>3 DEF Largest
    <3> QED BY <1>3, <2>2, <3>1, <3>2 DEF Ordered, SameLoop, SameSort
  <2> QED BY <1>1, <2>1, <2>2, <2>3, <2>4, SameKept
<1>7. CASE ~ (root2 > run.bottom) /\ root2 # run.bottom
  <2> DEFINE q == [run EXCEPT !.at = "children", !.child = root2]
  <2>1. run' = q
    BY <1>7 DEF SiftLoop, root2
  <2>2. SameSort(run, q) /\ SameLoop(run, q) /\ q.at = "children" /\ q.root = run.root /\ q.child = root2
    BY <1>1, <1>4 DEF SortRuns, SameSort, SameLoop, Ats
  <2> HIDE DEF q
  <2>3. q.child = 2 * q.root /\ q.child + 1 <= q.bottom
    BY <1>2, <1>4, <1>7, <2>2 DEF SameLoop
  <2>4. ~run.user => Ordered(arr.vals, q)
    <3>1. LowEnd(q) = LowEnd(run)
      BY <2>2 DEF SameLoop, LowEnd
    <3> QED BY <1>3, <2>2, <3>1 DEF Ordered, SameLoop, SameSort
  <2> QED BY <1>1, <2>1, <2>2, <2>3, <2>4, SameKept
<1> QED BY <1>5, <1>6, <1>7

\* The answers of ObjCmp.
LEMMA AnswersTrue ==
  ASSUME Fits(arr), NEW i \in 0 .. Size(arr) - 1, NEW j \in 0 .. Size(arr) - 1, ~run.user,
         NEW ret \in Answers(i, j)
  PROVE  /\ ret < 0 <=> At(arr.vals, i) < At(arr.vals, j)
         /\ ret > 0 <=> At(arr.vals, i) > At(arr.vals, j)
<1> DEFINE x == arr.vals[i + 1]
           y == arr.vals[j + 1]
<1>1. x \in Nat /\ y \in Nat
  BY DEF Fits, Vectors, Size
<1>2. ret = IF x < y THEN -1 ELSE IF x > y THEN 1 ELSE 0
  BY DEF Answers
<1> HIDE DEF x, y
<1>3. (ret < 0 <=> x < y) /\ (ret > 0 <=> x > y)
  BY <1>1, <1>2
<1> QED BY <1>3 DEF At, x, y

\* The larger one of two children is found.
LEMMA CompareChildrenKeeps ==
  ASSUME Fits(arr), Sorting(arr, run), CompareChildren
  PROVE  Sorting(arr', run')
<1>1. run.at = "children" /\ arr' = arr /\ run \in SortRuns /\ Indices(arr, run)
  BY DEF CompareChildren, Sorting, Indices
<1>2. /\ arr.vals \in Seq(Nat) /\ run.root \in Nat /\ run.bottom \in Nat /\ run.child \in Int
      /\ run.child = 2 * run.root /\ run.child + 1 <= run.bottom /\ Size(arr) = Len(arr.vals) /\ Size(arr) \in Nat
      /\ run.bottom < Size(arr)
  BY <1>1, SortTypes DEF Indices
<1>3. ~run.user => HeapBut(arr.vals, LowEnd(run), run.bottom, run.root)
                   /\ Bridged(arr.vals, LowEnd(run), run.bottom, run.root)
                   /\ TopSorted(arr.vals, run.bottom, run.size)
  BY <1>1 DEF Sorting, Ordered
<1>4. PICK ret \in Answers(run.child, run.child + 1) :
        run' = [run EXCEPT !.at = "parent", !.child = IF ret > 0 THEN @ ELSE @ + 1]
  BY DEF CompareChildren
<1> DEFINE c == IF ret > 0 THEN run.child ELSE run.child + 1
           q == [run EXCEPT !.at = "parent", !.child = c]
<1>5. run' = q
  BY <1>1, <1>4 DEF SortRuns
<1>6. c \in Int /\ IsChild(c, run.root) /\ c <= run.bottom
  <2>1. CASE ret > 0
    BY ONLY <1>2, <2>1 DEF IsChild, c
  <2>2. CASE ~ (ret > 0)
    BY ONLY <1>2, <2>2 DEF IsChild, c
  <2> QED BY <2>1, <2>2
<1>7. SameSort(run, q) /\ SameLoop(run, q) /\ q.at = "parent" /\ q.root = run.root /\ q.child = c
  <2> HIDE DEF c
  <2> QED BY <1>1, <1>6 DEF SortRuns, SameSort, SameLoop, Ats
<1> HIDE DEF q
<1>8. ASSUME ~run.user PROVE Largest(arr.vals, run.bottom, run.root, c)
  <2>0. run.child \in 0 .. Size(arr) - 1 /\ run.child + 1 \in 0 .. Size(arr) - 1
    <3>1. /\ run.root \in Nat /\ run.bottom \in Nat /\ run.child \in Int /\ Size(arr) \in Nat
          /\ run.child = 2 * run.root /\ run.child + 1 <= run.bottom /\ run.bottom < Size(arr)
      BY ONLY <1>2
    <3>2. run.child >= 0
      BY ONLY <3>1
    <3> QED BY ONLY <3>1, <3>2
  <2>1. PICK d \in 0 .. Size(arr) - 1 : d = run.child
    BY <2>0
  <2>2. PICK d1 \in 0 .. Size(arr) - 1 : d1 = run.child + 1
    BY <2>0
  <2>3. /\ ret < 0 <=> At(arr.vals, d) < At(arr.vals, d1)
        /\ ret > 0 <=> At(arr.vals, d) > At(arr.vals, d1)
    BY <1>4, <1>8, <2>1, <2>2, AnswersTrue
  <2>4. At(arr.vals, d) \in Nat /\ At(arr.vals, d1) \in Nat
    BY <1>2, AtType
  <2>5. \A k \in 0 .. run.bottom : IsChild(k, run.root) => k = d \/ k = d1
    BY <1>2, <2>1, <2>2 DEF IsChild
  <2>6. At(arr.vals, c) >= At(arr.vals, d) /\ At(arr.vals, c) >= At(arr.vals, d1)
    <3>1. CASE ret > 0
      BY <2>1, <2>2, <2>3, <2>4, <3>1
    <3>2. CASE ~ (ret > 0)
      BY <2>1, <2>2, <2>3, <2>4, <3>2
    <3> QED BY <3>1, <3>2
  <2> HIDE DEF c
  <2> QED BY <2>5, <2>6 DEF Largest
<1> HIDE DEF c
<1>9. ~run.user => Ordered(arr.vals, q)
  <2>1. LowEnd(q) = LowEnd(run)
    BY <1>7 DEF SameLoop, LowEnd
  <2> QED BY <1>3, <1>7, <1>8, <2>1 DEF Ordered, SameLoop, SameSort
<1>10. IsChild(q.child, q.root) /\ q.child <= q.bottom
  BY <1>6, <1>7 DEF SameLoop
<1> QED BY <1>1, <1>5, <1>7, <1>9, <1>10, SameKept

\* A sort that ends, in order if it succeeds.
LEMMA SortEndedLeft ==
  ASSUME NEW a, NEW ok \in BOOLEAN, Sorting(a, run), run' = SortEnded(ok),
         ok /\ ~run.user /\ ~run.touched => \A i \in 1 .. Size(a) - 1 : a.vals[i] <= a.vals[i + 1]
  PROVE  Running(a, run')
<1> DEFINE e == [op |-> "sort", ok |-> ok, user |-> run.user, before |-> run.before, touched |-> run.touched]
<1>1. run'.op = "none" /\ run'.ended = e
  BY DEF SortEnded, Idle
<1>2. e.op = "sort" /\ e.ok = ok /\ e.user = run.user /\ e.before = run.before /\ e.touched = run.touched
  OBVIOUS
<1> HIDE DEF e
<1>3. Left(a, e)
  BY <1>2 DEF Left, Sorting, Visits
<1> QED BY <1>1, <1>3 DEF Running

\* A root is exchanged with its larger child, or it is in its place, or it is its own child.
LEMMA CompareParentKeeps ==
  ASSUME Fits(arr), Sorting(arr, run), CompareParent
  PROVE  Fits(arr') /\ Running(arr', run')
<1>1. run.at = "parent" /\ run \in SortRuns /\ Indices(arr, run)
  BY DEF CompareParent, Sorting, Indices
<1>2. /\ arr.vals \in Seq(Nat) /\ run.root \in Nat /\ run.bottom \in Nat /\ run.child \in Int
      /\ Size(arr) = Len(arr.vals) /\ Size(arr) \in Nat
      /\ run.bottom < Size(arr) /\ run.root <= run.bottom /\ LowEnd(run) \in Nat /\ LowEnd(run) <= run.root
      /\ run.phase \in {"build", "extract"} /\ run.i \in Nat /\ run.size \in Nat
  BY <1>1, SortTypes
<1>3. IsChild(run.child, run.root) /\ run.child <= run.bottom
  BY <1>1 DEF Indices
<1>4. /\ run.child \in 0 .. run.bottom /\ run.child \in 0 .. Size(arr) - 1
      /\ run.root \in LowEnd(run) .. run.bottom /\ run.root \in 0 .. Size(arr) - 1
      /\ run.root <= run.child /\ run.root \in 0 .. run.bottom /\ run.child \in Nat
  <2>1. run.root <= run.child /\ run.child >= 0
    BY <1>2, <1>3 DEF IsChild
  <2>2. run.child \in 0 .. run.bottom /\ run.child \in 0 .. Size(arr) - 1 /\ run.child \in Nat
    BY <1>2, <1>3, <2>1
  <2> QED BY <1>2, <2>1, <2>2
<1>5. ~run.user => /\ HeapBut(arr.vals, LowEnd(run), run.bottom, run.root)
                   /\ Bridged(arr.vals, LowEnd(run), run.bottom, run.root)
                   /\ Largest(arr.vals, run.bottom, run.root, run.child)
                   /\ TopSorted(arr.vals, run.bottom, run.size)
                   /\ run.size = Len(arr.vals)
  BY <1>1, <1>2 DEF Sorting, Ordered, Indices
<1>6. PICK ret \in Answers(run.root, run.child) :
        CASE ret < 0 /\ run.root = run.child -> run' = SortEnded(FALSE) /\ UNCHANGED arr
          [] ret < 0 /\ run.root # run.child -> /\ arr' = Swap(arr, run.root, run.child)
                                                /\ run' = [run EXCEPT !.root = run.child, !.at = "loop"]
          [] OTHER -> run' = [run EXCEPT !.at = "end"] /\ UNCHANGED arr
  BY DEF CompareParent
<1>7. ~run.user => (ret < 0 <=> At(arr.vals, run.root) < At(arr.vals, run.child))
  BY <1>4, <1>6, AnswersTrue
<1>8. CASE ret < 0 /\ run.root = run.child
  <2>1. run' = SortEnded(FALSE) /\ arr' = arr
    BY <1>6, <1>8
  <2> QED BY <2>1, SortEndedLeft
<1>9. CASE ret < 0 /\ run.root # run.child
  <2> DEFINE b == Swap(arr, run.root, run.child)
             q == [run EXCEPT !.root = run.child, !.at = "loop"]
  <2>1. arr' = b /\ run' = q
    BY <1>6, <1>9
  <2>2. SameSort(run, q) /\ SameLoop(run, q) /\ q.at = "loop" /\ q.root = run.child
    <3>1. PICK c \in Nat : c = run.child
      BY <1>4
    <3>2. q = [run EXCEPT !.root = c, !.at = "loop"]
      BY <3>1
    <3> HIDE DEF q
    <3> QED BY ONLY <1>1, <3>1, <3>2 DEF SortRuns, SameSort, SameLoop, Ats
  <2>3. Fits(b) /\ Exchanged(arr.vals, b.vals, run.root, run.child)
    BY <1>4, SwapExchanges
  <2> HIDE DEF b, q
  <2>4. b.vals \in Seq(Nat) /\ Size(b) = Size(arr)
    BY <1>2, <2>3 DEF Fits, Vectors, Size, Exchanged
  <2>5. Indices(b, q)
    <3>1. /\ 2 <= run.size /\ run.size <= Size(arr) /\ (~run.touched => run.size = Size(arr))
          /\ run.phase = "build" => run.bottom = run.size - 1 /\ 2 * run.i <= run.size /\ run.i <= run.root
          /\ run.phase = "extract" => run.i <= run.size - 1 /\ run.bottom = run.i - 1
          /\ run.root <= run.size - 1
      BY <1>1 DEF Indices
    <3>2. q \in SortRuns /\ q.size = run.size /\ q.touched = run.touched /\ q.phase = run.phase /\ q.i = run.i
          /\ q.bottom = run.bottom
      BY <2>2 DEF SameSort, SameLoop
    <3>3. run.child <= run.size - 1
      <4>0. run.child \in Int /\ run.bottom \in Nat /\ run.size \in Nat /\ run.i \in Nat /\ run.child <= run.bottom
        BY ONLY <1>2, <1>3
      <4>1. CASE run.phase = "build"
        <5>1. run.bottom = run.size - 1
          BY ONLY <3>1, <4>1
        <5> QED BY ONLY <4>0, <5>1
      <4>2. CASE run.phase = "extract"
        <5>1. run.i <= run.size - 1 /\ run.bottom = run.i - 1
          BY ONLY <3>1, <4>2
        <5> QED BY ONLY <4>0, <5>1
      <4> QED BY <1>2, <4>1, <4>2
    <3>4. ASSUME run.phase = "build" PROVE run.i <= run.child
      <4>1. run.i <= run.root
        BY ONLY <3>1, <3>4
      <4>2. run.i \in Nat /\ run.root \in Nat /\ run.child \in Int
        BY ONLY <1>2
      <4>3. run.root <= run.child
        BY ONLY <1>4
      <4> QED BY ONLY <4>1, <4>2, <4>3
    <3> QED BY <1>3, <2>2, <2>4, <3>1, <3>2, <3>3, <3>4 DEF Indices
  <2>6. Counts(b.vals) = Counts(arr.vals)
    BY <1>2, <1>4, <2>3, <2>4, ExchangeCounts
  <2>7. ASSUME ~run.user PROVE ~q.touched /\ Ordered(b.vals, q)
    <3>1. HeapBut(b.vals, LowEnd(run), run.bottom, run.child) /\ Bridged(b.vals, LowEnd(run), run.bottom, run.child)
      <4> DEFINE s == arr.vals
                 t == b.vals
                 lo == LowEnd(run)
                 bottom == run.bottom
                 hole == run.root
                 child == run.child
      <4>1. /\ s \in Seq(Nat) /\ t \in Seq(Nat) /\ bottom \in Nat /\ bottom < Len(s) /\ lo \in Nat
            /\ hole \in lo .. bottom /\ child \in 0 .. bottom /\ IsChild(child, hole) /\ child # hole
            /\ At(s, hole) < At(s, child) /\ HeapBut(s, lo, bottom, hole) /\ Bridged(s, lo, bottom, hole)
            /\ Largest(s, bottom, hole, child) /\ Exchanged(s, t, hole, child)
        BY <1>2, <1>3, <1>4, <1>5, <1>7, <1>9, <2>3, <2>4, <2>7
      <4> HIDE DEF s, t, lo, bottom, hole, child
      <4>2. HeapBut(t, lo, bottom, child) /\ Bridged(t, lo, bottom, child)
        BY ONLY <4>1, SiftStep
      <4> QED BY <4>2 DEF t, lo, bottom, child
    <3>2. TopSorted(b.vals, run.bottom, run.size)
      <4> DEFINE s == arr.vals
                 t == b.vals
                 bottom == run.bottom
                 i == run.root
                 j == run.child
      <4>1. /\ s \in Seq(Nat) /\ t \in Seq(Nat) /\ bottom \in Nat /\ bottom < Len(s)
            /\ i \in 0 .. bottom /\ j \in 0 .. bottom /\ Exchanged(s, t, i, j)
            /\ TopSorted(s, bottom, Len(s)) /\ run.size = Len(s)
        BY <1>2, <1>4, <1>5, <2>3, <2>4, <2>7
      <4> HIDE DEF s, t, bottom, i, j
      <4>2. TopSorted(t, bottom, Len(s))
        BY ONLY <4>1, ExchangeBelow
      <4> QED BY <4>1, <4>2 DEF t, bottom
    <3>3. LowEnd(q) = LowEnd(run)
      BY <2>2 DEF SameLoop, LowEnd
    <3>4. ~q.touched
      BY <2>2, <2>7 DEF Sorting, SameSort
    <3> QED BY <2>2, <3>1, <3>2, <3>3, <3>4 DEF Ordered, SameLoop, SameSort
  <2>8. Sorting(b, q)
    BY <2>2, <2>5, <2>6, <2>7 DEF Sorting, SameSort
  <2> QED BY <2>1, <2>3, <2>8 DEF Running
<1>10. CASE ~ (ret < 0)
  <2> DEFINE q == [run EXCEPT !.at = "end"]
  <2>1. arr' = arr /\ run' = q
    BY <1>6, <1>10
  <2>2. SameSort(run, q) /\ SameLoop(run, q) /\ q.at = "end" /\ q.root = run.root
    BY <1>1 DEF SortRuns, SameSort, SameLoop, Ats
  <2> HIDE DEF q
  <2>3. ASSUME ~run.user PROVE Ordered(arr.vals, q)
    <3>1. HeapBut(arr.vals, LowEnd(run), run.bottom, -1)
      <4> DEFINE s == arr.vals
                 lo == LowEnd(run)
                 bottom == run.bottom
                 hole == run.root
                 child == run.child
      <4>1. At(s, hole) \in Nat /\ At(s, child) \in Nat
        BY <1>2, <1>4, AtType
      <4>2. /\ s \in Seq(Nat) /\ bottom \in Nat /\ bottom < Len(s) /\ lo \in Nat
            /\ hole \in lo .. bottom /\ child \in 0 .. bottom /\ At(s, hole) >= At(s, child)
            /\ HeapBut(s, lo, bottom, hole) /\ Largest(s, bottom, hole, child)
        BY <1>2, <1>4, <1>5, <1>7, <1>10, <2>3, <4>1
      <4> HIDE DEF s, lo, bottom, hole, child
      <4>3. HeapBut(s, lo, bottom, -1)
        BY ONLY <4>2, SiftStops
      <4> QED BY <4>3 DEF s, lo, bottom
    <3>2. LowEnd(q) = LowEnd(run)
      BY <2>2 DEF SameLoop, LowEnd
    <3> QED BY <1>5, <2>2, <2>3, <3>1, <3>2 DEF Ordered, SameLoop, SameSort
  <2>4. Sorting(arr, q)
    BY <2>2, <2>3, SameKept
  <2> QED BY <2>1, <2>4 DEF Running
<1> QED BY <1>8, <1>9, <1>10

\* The next place to sift, the next removal of the largest, or the end.
LEMMA SiftEndKeeps ==
  ASSUME Fits(arr), Sorting(arr, run), SiftEnd
  PROVE  Fits(arr') /\ Running(arr', run')
<1> DEFINE i == IF run.phase = "build" /\ run.i = 0 THEN run.size - 1 ELSE run.i - 1
<1>1. run.at = "end" /\ run \in SortRuns /\ Indices(arr, run)
  BY DEF SiftEnd, Sorting, Indices
<1>2. /\ arr.vals \in Seq(Nat) /\ run.root \in Nat /\ run.bottom \in Nat /\ run.i \in Nat /\ run.size \in Nat
      /\ Size(arr) = Len(arr.vals) /\ Size(arr) \in Nat
      /\ run.bottom < Size(arr) /\ run.phase \in {"build", "extract"}
  BY <1>1, SortTypes
<1>3. /\ 2 <= run.size /\ run.size <= Size(arr) /\ (~run.touched => run.size = Size(arr))
      /\ run.phase = "build" => run.bottom = run.size - 1 /\ 2 * run.i <= run.size
      /\ run.phase = "extract" => run.i <= run.size - 1 /\ run.bottom = run.i - 1
  BY <1>1 DEF Indices
<1>4. ~run.user => /\ HeapBut(arr.vals, LowEnd(run), run.bottom, -1)
                   /\ TopSorted(arr.vals, run.bottom, run.size)
                   /\ run.size = Len(arr.vals) /\ ~run.touched
  BY <1>1, <1>2 DEF Sorting, Ordered, Indices
<1>5. CASE run.phase = "build" /\ run.i > 0
  <2>0. i = run.i - 1 /\ i \in Nat
    BY <1>2, <1>5
  <2> DEFINE q == [run EXCEPT !.i = i, !.root = i, !.at = "loop"]
  <2>1. arr' = arr /\ run' = q
    <3>1. (CASE run.phase = "build" /\ run.i > 0 -> run' = q /\ UNCHANGED arr
             [] (run.phase = "build" => run.i = 0) /\ i >= 1 ->
                  /\ arr' = Swap(arr, 0, i)
                  /\ run' = [run EXCEPT !.phase = "extract", !.i = i, !.root = 0, !.bottom = i - 1, !.at = "loop"]
             [] OTHER -> run' = SortEnded(TRUE) /\ UNCHANGED arr)
      BY DEF SiftEnd
    <3>2. ~ (run.phase = "build" => run.i = 0)
      BY <1>2, <1>5
    <3> HIDE DEF q, i
    <3> QED BY ONLY <1>5, <3>1, <3>2
  <2> HIDE DEF i
  <2>2. SameSort(run, q) /\ q.phase = run.phase /\ q.i = i /\ q.root = i /\ q.at = "loop" /\ q.bottom = run.bottom
    BY <1>1, <2>0 DEF SortRuns, SameSort, Ats
  <2> HIDE DEF q
  <2>3. Indices(arr, q)
    <3>1. i <= run.size - 1 /\ 2 * i <= run.size
      BY <1>2, <1>3, <1>5, <2>0
    <3>2. q \in SortRuns /\ q.size = run.size /\ q.touched = run.touched
      BY <2>2 DEF SameSort
    <3> QED BY <1>3, <1>5, <2>0, <2>2, <3>1, <3>2 DEF Indices
  <2>4. ASSUME ~run.user PROVE Ordered(arr.vals, q)
    <3>1. LowEnd(run) = run.i /\ LowEnd(q) = i
      BY <1>5, <2>2 DEF LowEnd
    <3>2. HeapBut(arr.vals, i, run.bottom, i)
      <4>1. \A p \in i .. run.bottom : p # i => p \in run.i .. run.bottom /\ p # -1
        BY <1>2, <1>5, <2>0
      <4> QED BY <1>4, <2>4, <3>1, <4>1 DEF HeapBut
    <3>3. Bridged(arr.vals, i, run.bottom, i)
      <4>1. \A p \in i .. run.bottom : IsChild(i, p) => p = i
        BY <1>2, <2>0 DEF IsChild
      <4> QED BY <4>1 DEF Bridged
    <3> QED BY <1>4, <2>2, <2>4, <3>1, <3>2, <3>3 DEF Ordered, SameSort
  <2>5. Sorting(arr, q)
    BY <2>2, <2>3, <2>4 DEF Sorting, SameSort
  <2> QED BY <2>1, <2>5 DEF Running
<1>6. CASE ~ (run.phase = "build" /\ run.i > 0)
  <2>1. i = run.bottom
    <3>1. CASE run.phase = "build"
      BY <1>2, <1>3, <1>6, <3>1
    <3>2. CASE run.phase = "extract"
      BY <1>2, <1>3, <3>2
    <3> QED BY <1>2, <3>1, <3>2
  <2>2. LowEnd(run) = 0
    BY <1>2, <1>6 DEF LowEnd
  <2>3. run.phase = "build" => run.i = 0
    BY <1>2, <1>6
  <2> DEFINE s == arr.vals
             bottom == run.bottom
  <2>4. CASE i >= 1
    <3> DEFINE b == Swap(arr, 0, i)
               q == [run EXCEPT !.phase = "extract", !.i = i, !.root = 0, !.bottom = i - 1, !.at = "loop"]
    <3>1. arr' = b /\ run' = q
      BY <1>6, <2>3, <2>4 DEF SiftEnd
    <3>2. i \in Nat /\ i - 1 \in Nat /\ 0 \in 0 .. Size(arr) - 1 /\ i \in 0 .. Size(arr) - 1
      <4> HIDE DEF i
      <4> QED BY ONLY <1>2, <2>1, <2>4
    <3>3. SameSort(run, q) /\ q.phase = "extract" /\ q.i = i /\ q.root = 0 /\ q.bottom = i - 1 /\ q.at = "loop"
      <4> HIDE DEF i
      <4>1. PICK d \in Nat : d = i - 1
        BY <3>2
      <4>2. q = [run EXCEPT !.phase = "extract", !.i = i, !.root = 0, !.bottom = d, !.at = "loop"]
        BY <4>1
      <4> HIDE DEF q
      <4> QED BY ONLY <1>1, <3>2, <4>1, <4>2 DEF SortRuns, SameSort, Ats
    <3>4. PICK z \in 0 .. Size(arr) - 1 : z = 0
      BY <3>2
    <3>5. Fits(b) /\ Exchanged(arr.vals, b.vals, z, i)
      <4> HIDE DEF i
      <4> QED BY <3>2, <3>4, SwapExchanges
    <3> HIDE DEF i, b, q
    <3>6. b.vals \in Seq(Nat) /\ Size(b) = Size(arr)
      BY <1>2, <3>5 DEF Fits, Vectors, Size, Exchanged
    <3>7. Indices(b, q)
      <4>1. q \in SortRuns /\ q.size = run.size /\ q.touched = run.touched
        BY <3>3 DEF SameSort
      <4>2. i <= run.size - 1 /\ 0 <= run.size - 1 /\ 0 <= i - 1
        <5>1. run.bottom <= run.size - 1
          <6>1. CASE run.phase = "build"
            BY <1>2, <1>3, <6>1
          <6>2. CASE run.phase = "extract"
            BY <1>2, <1>3, <6>2
          <6> QED BY <1>2, <6>1, <6>2
        <5> QED BY <1>2, <1>3, <2>1, <2>4, <3>2, <5>1
      <4> QED BY <1>3, <3>3, <3>6, <4>1, <4>2 DEF Indices
    <3>8. Counts(b.vals) = Counts(arr.vals)
      BY <1>2, <3>2, <3>5, <3>6, ExchangeCounts
    <3>9. ASSUME ~run.user PROVE Ordered(b.vals, q)
      <4> DEFINE t == b.vals
      <4>1. /\ s \in Seq(Nat) /\ t \in Seq(Nat) /\ bottom \in Nat /\ bottom < Len(s) /\ bottom >= 1
            /\ HeapBut(s, 0, bottom, -1) /\ TopSorted(s, bottom, Len(s)) /\ Exchanged(s, t, 0, bottom)
            /\ run.size = Len(s)
        BY <1>2, <1>4, <2>1, <2>2, <2>4, <3>4, <3>5, <3>6, <3>9
      <4> HIDE DEF s, t, bottom
      <4>2. HeapBut(t, 0, bottom - 1, 0) /\ Bridged(t, 0, bottom - 1, 0) /\ TopSorted(t, bottom - 1, Len(s))
        BY ONLY <4>1, ExtractStep
      <4>3. i - 1 = bottom - 1 /\ LowEnd(q) = 0
        BY <2>1, <3>3 DEF bottom, LowEnd
      <4> QED BY <3>3, <4>1, <4>2, <4>3 DEF Ordered, SameSort, t
    <3>10. Sorting(b, q)
      BY <1>4, <3>3, <3>7, <3>8, <3>9 DEF Sorting, SameSort
    <3> QED BY <3>1, <3>5, <3>10 DEF Running
  <2>5. CASE ~ (i >= 1)
    <3>1. arr' = arr /\ run' = SortEnded(TRUE)
      BY <1>6, <2>5 DEF SiftEnd
    <3>2. bottom = 0
      BY <1>2, <2>1, <2>5
    <3>3. ASSUME ~run.user, NEW k \in 1 .. Size(arr) - 1 PROVE s[k] <= s[k + 1]
      <4>1. TopSorted(s, 0, Len(s))
        BY <1>4, <3>2, <3>3
      <4>2. k - 1 \in 0 .. Len(s) - 1 /\ k \in 1 .. Len(s) - 1 /\ k - 1 <= k /\ (k - 1) + 1 = k
        BY <1>2
      <4>3. At(s, k - 1) <= At(s, k)
        BY <4>1, <4>2 DEF TopSorted
      <4> QED BY <4>2, <4>3 DEF At
    <3> QED BY <3>1, <3>3, SortEndedLeft
  <2> QED BY <2>4, <2>5
<1> QED BY <1>5, <1>6

\* The beginning of a sort.
LEMMA SortBegins ==
  ASSUME Fits(arr), array_sort
  PROVE  Sorting(arr', run')
<1> DEFINE n == Size(arr)
           h == n \div 2
<1>1. arr' = arr /\ n \in Nat /\ 2 <= n /\ n = Len(arr.vals) /\ arr.vals \in Seq(Nat)
  BY DEF array_sort, Fits, Vectors, Size
<1>2. h \in Nat /\ h <= n - 1 /\ 2 * h <= n /\ n - 1 < 2 * (h + 1)
  <2>1. PICK k \in Nat : k = n
    BY <1>1
  <2>2. k \div 2 \in Nat /\ 2 * (k \div 2) <= k /\ k - 1 < 2 * ((k \div 2) + 1)
    OBVIOUS
  <2>3. h \in Nat /\ 2 * h <= k /\ k - 1 < 2 * (h + 1) /\ 2 <= k
    BY <1>1, <2>1, <2>2
  <2> HIDE DEF h
  <2>4. h <= k - 1
    BY ONLY <2>3, k \in Nat
  <2> QED BY <2>1, <2>3, <2>4
<1>3. PICK user \in BOOLEAN :
       run' = [op |-> "sort", user |-> user, phase |-> "build", i |-> h, at |-> "loop",
               root |-> h, bottom |-> n - 1, child |-> -1, size |-> n,
               before |-> arr.vals, touched |-> FALSE]
  BY DEF array_sort
<1> DEFINE q == [op |-> "sort", user |-> user, phase |-> "build", i |-> h, at |-> "loop",
               root |-> h, bottom |-> n - 1, child |-> -1, size |-> n,
               before |-> arr.vals, touched |-> FALSE]
<1> HIDE DEF n, h
<1>4. /\ q.user = user /\ q.phase = "build" /\ q.i = h /\ q.at = "loop" /\ q.root = h /\ q.bottom = n - 1
      /\ q.size = n /\ q.before = arr.vals /\ q.touched = FALSE
  OBVIOUS
<1>5. q \in SortRuns
  BY <1>1, <1>2 DEF SortRuns, Ats
<1> HIDE DEF q
<1>6. Indices(arr, q)
  <2>1. n <= Size(arr) /\ n = Size(arr)
    BY <1>1 DEF n
  <2> QED BY <1>1, <1>2, <1>4, <1>5, <2>1 DEF Indices
<1>7. LowEnd(q) = h
  BY <1>4 DEF LowEnd
<1>8. HeapBut(arr.vals, h, n - 1, h)
  <2>1. \A p \in h .. n - 1, c \in 0 .. n - 1 : IsChild(c, p) => p = h
    BY <1>1, <1>2 DEF IsChild
  <2> QED BY <2>1 DEF HeapBut
<1>9. Bridged(arr.vals, h, n - 1, h)
  <2>1. \A p \in h .. n - 1 : IsChild(h, p) => p = h
    BY <1>1, <1>2 DEF IsChild
  <2> QED BY <2>1 DEF Bridged
<1>10. TopSorted(arr.vals, n - 1, n)
  BY <1>1 DEF TopSorted
<1>11. Ordered(arr.vals, q)
  BY <1>4, <1>7, <1>8, <1>9, <1>10 DEF Ordered
<1>12. Sorting(arr, q)
  BY <1>4, <1>6, <1>11 DEF Sorting
<1> QED BY <1>1, <1>3, <1>12 DEF q

----------------------------------------------------------------------------
(* The steps of map, apply, reduce and filter.                             *)

\* What the types of a visit say.
LEMMA VisitTypes ==
  ASSUME NEW r \in VisitRuns
  PROVE  /\ r.op \in Visits /\ r.n \in Nat /\ r.size \in Nat /\ r.temp \in Nat /\ r.dest \in Vectors
         /\ r.stk \in Seq(Slots) /\ r.given \in Seq(Nat) /\ r.before \in Seq(Nat) /\ r.touched \in BOOLEAN
         /\ NArgs(r.op) \in {2, 3}
<1>1. /\ r.op \in Visits /\ r.n \in Nat /\ r.size \in Nat /\ r.temp \in Nat /\ r.dest \in Vectors
      /\ r.stk \in Seq(Slots) /\ r.given \in Seq(Nat) /\ r.before \in Seq(Nat) /\ r.touched \in BOOLEAN
  BY DEF VisitRuns
<1> QED BY <1>1 DEF NArgs

\* The arguments are pushed onto the stack, and what was there stays.
LEMMA ArgumentsPushed ==
  ASSUME NEW stk \in Seq(Slots), Len(stk) = 2, NEW op \in Visits
  PROVE  LET t == stk \o Arguments(op)
         IN t \in Seq(Slots) /\ Len(t) = 2 + NArgs(op) /\ t[2] = stk[2]
<1> DEFINE g == Arguments(op)
           m == NArgs(op)
<1>1. m \in Nat
  BY DEF NArgs
<1> HIDE DEF m
<1>2. g \in [1 .. m -> Slots]
  BY <1>1 DEF Arguments, m, Slots
<1> HIDE DEF g
<1>3. g \in Seq(Slots) /\ Len(g) = m
  BY <1>1, <1>2
<1>4. stk \o g \in Seq(Slots) /\ Len(stk \o g) = 2 + m /\ (stk \o g)[2] = stk[2]
  <2>1. /\ stk \o g \in Seq(Slots) /\ Len(stk \o g) = Len(stk) + Len(g)
        /\ \A k \in 1 .. Len(stk) + Len(g) : (stk \o g)[k] = IF k <= Len(stk) THEN stk[k] ELSE g[k - Len(stk)]
    BY ONLY stk \in Seq(Slots), <1>3, ConcatProperties
  <2> QED BY <1>1, <1>3, <2>1
<1> QED BY <1>4 DEF g, m

\* The call has taken the arguments off the stack, and the function takes the result off.
LEMMA ResultPopped ==
  ASSUME NEW stk \in Seq(Slots), NEW op \in Visits, Len(stk) = 2 + NArgs(op)
  PROVE  LET t == Returned(stk, op)
         IN t \in Seq(Slots) /\ Len(t) = 2 /\ t[2] = stk[2]
<1> DEFINE u == SubSeq(stk, 1, Len(stk) - NArgs(op))
           w == Append(u, "result")
           t == SubSeq(w, 1, Len(w) - 1)
<1>1. NArgs(op) \in Nat
  BY DEF NArgs
<1>2. u \in Seq(Slots) /\ Len(u) = 2 /\ u[2] = stk[2]
  BY <1>1
<1> HIDE DEF u
<1>3. w \in Seq(Slots) /\ Len(w) = 3 /\ w[2] = u[2]
  <2>1. PICK x \in Slots : x = "result"
    BY DEF Slots
  <2> HIDE DEF w
  <2>2. w = Append(u, x)
    BY <2>1 DEF w
  <2>3. /\ Append(u, x) \in Seq(Slots) /\ Len(Append(u, x)) = Len(u) + 1
        /\ \A i \in 1 .. Len(u) : Append(u, x)[i] = u[i]
    <3>1. u \in Seq(Slots)
      BY <1>2
    <3> QED BY ONLY <3>1, x \in Slots
  <2>4. 2 \in 1 .. Len(u) /\ Len(u) + 1 = 3
    BY <1>2
  <2> QED BY ONLY <2>2, <2>3, <2>4
<1> HIDE DEF w
<1>4. t \in Seq(Slots) /\ Len(t) = 2 /\ t[2] = w[2]
  <2>1. Len(w) - 1 = 2 /\ \A i \in 1 .. 2 : w[i] \in Slots
    <3>0. w \in Seq(Slots)
      BY ONLY <1>3
    <3>1. \A i \in 1 .. Len(w) : w[i] \in Slots
      BY ONLY <3>0
    <3>2. Len(w) = 3
      BY ONLY <1>3
    <3> HIDE DEF Slots
    <3> QED BY ONLY <3>1, <3>2
  <2>2. PICK n \in Int : n = 2
    OBVIOUS
  <2>3. PICK m \in Int : m = 1
    OBVIOUS
  <2>4. /\ SubSeq(w, m, n) \in Seq(Slots)
        /\ Len(SubSeq(w, m, n)) = IF m <= n THEN n - m + 1 ELSE 0
        /\ \A i \in 1 .. n - m + 1 : SubSeq(w, m, n)[i] = w[m + i - 1]
    BY <2>1, <2>2, <2>3, SubSeqProperties
  <2>5. t = SubSeq(w, m, n)
    BY <2>1, <2>2, <2>3
  <2> HIDE DEF t
  <2> QED BY ONLY <2>2, <2>3, <2>4, <2>5
<1>5. Returned(stk, op) = t
  BY DEF Returned, Front, u, w
<1> QED BY <1>2, <1>3, <1>4, <1>5

\* The head of the loop passes the next element to the callback or ends the function.
LEMMA LoopKeeps ==
  ASSUME NEW a, Fits(a), NEW r, AtHead(a, r)
  PROVE  Running(a, Loop(a, r))
<1>1. r \in VisitRuns /\ Len(r.stk) = 2 /\ r.stk[2] = "closure"
  BY DEF AtHead, Walking
<1>2. /\ r.op \in Visits /\ r.n \in Nat /\ r.size \in Nat /\ r.temp \in Nat /\ r.dest \in Vectors
      /\ r.stk \in Seq(Slots) /\ r.given \in Seq(Nat) /\ r.before \in Seq(Nat) /\ r.touched \in BOOLEAN
  BY <1>1, VisitTypes
<1>3. (r.n <= r.size /\ Len(r.given) = r.n) \/ (r.size = 0 /\ Len(r.given) = 0)
  BY DEF AtHead
<1>4. /\ Fits(r.dest) /\ (r.op = "map" => Size(r.dest) = r.size) /\ Len(r.before) = r.size
      /\ ~r.touched /\ r.op # "apply" =>
            a.vals = r.before /\ Len(r.given) <= r.size /\ \A k \in 1 .. Len(r.given) : r.given[k] = r.before[k]
  BY DEF AtHead, Walking
<1>5. CASE r.n < r.size
  <2> DEFINE x == Get(a, r.n, r.temp)
             t == r.stk \o Arguments(r.op)
             g == Append(r.given, x)
             q == [r EXCEPT !.temp = x, !.stk = t, !.given = g]
  <2>1. x \in Nat
    BY <1>2, GetType
  <2>2. t \in Seq(Slots) /\ Len(t) = 2 + NArgs(r.op) /\ t[2] = "closure"
    BY <1>1, <1>2, ArgumentsPushed
  <2>3. Len(r.given) = r.n
    BY <1>3, <1>5, <1>2
  <2>4. Loop(a, r) = q
    BY <1>1, <1>5 DEF Loop, VisitRuns
  <2>5. ~r.touched /\ r.op # "apply" => x = r.before[r.n + 1]
    BY <1>2, <1>4, <1>5 DEF Get, InRange, Size
  <2> HIDE DEF x, t
  <2>6. g \in Seq(Nat) /\ Len(g) = r.n + 1 /\ g[r.n + 1] = x /\ \A k \in 1 .. r.n : g[k] = r.given[k]
    BY <1>2, <2>1, <2>3
  <2> HIDE DEF g
  <2>7. /\ q \in VisitRuns /\ q.op = r.op /\ q.n = r.n /\ q.size = r.size /\ q.dest = r.dest /\ q.stk = t
        /\ q.given = g /\ q.before = r.before /\ q.touched = r.touched
    BY <1>1, <2>1, <2>2, <2>6 DEF VisitRuns
  <2> HIDE DEF q
  <2>8. ASSUME ~r.touched, r.op # "apply"
        PROVE  Len(g) <= r.size /\ \A k \in 1 .. Len(g) : g[k] = r.before[k]
    <3>1. Len(g) <= r.size
      BY <1>2, <1>5, <2>6
    <3>2. ASSUME NEW k \in 1 .. Len(g) PROVE g[k] = r.before[k]
      <4>1. k \in 1 .. r.n \/ k = r.n + 1
        BY <1>2, <2>6
      <4>2. CASE k \in 1 .. r.n
        BY <1>4, <2>3, <2>6, <2>8, <4>2
      <4>3. CASE k = r.n + 1
        BY <2>5, <2>6, <2>8, <4>3
      <4> QED BY <4>1, <4>2, <4>3
    <3> QED BY <3>1, <3>2
  <2>9. Walking(a, q)
    BY <1>4, <2>7, <2>8 DEF Walking
  <2>10. InVisit(a, q)
    BY <1>5, <2>2, <2>6, <2>7, <2>9 DEF InVisit
  <2> QED BY <2>4, <2>10 DEF Running
<1>6. CASE ~ (r.n < r.size)
  <2> DEFINE e == [op |-> r.op, ok |-> TRUE, given |-> r.given, before |-> r.before, touched |-> r.touched,
                   dest |-> r.dest, size |-> r.size]
  <2>1. Loop(a, r) = Idle(e)
    BY <1>6 DEF Loop
  <2>2. /\ e.op = r.op /\ e.given = r.given /\ e.before = r.before /\ e.touched = r.touched /\ e.dest = r.dest
        /\ e.size = r.size
    OBVIOUS
  <2> HIDE DEF e
  <2>3. Len(r.given) = r.size
    BY <1>2, <1>3, <1>6
  <2>4. ~r.touched /\ r.op # "apply" => r.given = r.before
    BY <1>2, <1>4, <2>3, SeqEqual
  <2>5. Left(a, e)
    BY <1>2, <1>4, <2>2, <2>3, <2>4 DEF Left, Visits
  <2>6. Idle(e).op = "none" /\ Idle(e).ended = e
    BY DEF Idle
  <2> QED BY <2>1, <2>5, <2>6 DEF Running
<1> QED BY <1>5, <1>6

\* The beginning of map, apply, reduce or filter.
LEMMA VisitBegins ==
  ASSUME Fits(arr), Begin
  PROVE  arr' = arr /\ Running(arr', run')
<1>1. PICK op \in Visits :
        run' = Loop(arr, [op |-> op, n |-> IF op = "reduce" THEN 1 ELSE 0, size |-> Size(arr), temp |-> Null,
                          dest |-> IF op = "map" THEN Create(Size(arr)) ELSE Create(0),
                          stk |-> <<"array", "closure">>,
                          given |-> IF op = "reduce" /\ Size(arr) > 0 THEN <<arr.vals[1]>> ELSE <<>>,
                          before |-> arr.vals, touched |-> FALSE])
  BY DEF Begin
<1> DEFINE first == IF op = "reduce" THEN 1 ELSE 0
           start == IF op = "reduce" /\ Size(arr) > 0 THEN <<arr.vals[1]>> ELSE <<>>
           dest == IF op = "map" THEN Create(Size(arr)) ELSE Create(0)
           size == Size(arr)
           stk == <<"array", "closure">>
           q == [op |-> op, n |-> first, size |-> size, temp |-> Null, dest |-> dest, stk |-> stk, given |-> start,
                 before |-> arr.vals, touched |-> FALSE]
<1>2. arr' = arr /\ size \in Nat /\ size = Len(arr.vals) /\ arr.vals \in Seq(Nat)
  BY DEF Begin, Fits, Vectors, Size
<1>3. first \in Nat /\ Null \in Nat
  BY DEF Null
<1>4. Fits(dest) /\ dest \in Vectors /\ (op = "map" => Size(dest) = size)
  <2>1. PICK z \in Nat : z = 0
    OBVIOUS
  <2>2. Fits(Create(size)) /\ Size(Create(size)) = size
    <3> HIDE DEF size
    <3> QED BY <1>2, CreateFits
  <2>3. Fits(Create(z)) /\ Size(Create(z)) = z
    BY CreateFits
  <2>4. Fits(dest)
    BY <2>1, <2>2, <2>3
  <2> HIDE DEF dest
  <2> QED BY <2>2, <2>4 DEF dest, Fits
<1>5. stk \in Seq(Slots) /\ Len(stk) = 2 /\ stk[2] = "closure"
  BY DEF Slots
<1>6. /\ start \in Seq(Nat) /\ Len(start) <= size
      /\ (first <= size /\ Len(start) = first) \/ (size = 0 /\ Len(start) = 0)
      /\ \A k \in 1 .. Len(start) : start[k] = arr.vals[k]
  <2>1. CASE op = "reduce" /\ Size(arr) > 0
    <3>1. start = <<arr.vals[1]>> /\ arr.vals[1] \in Nat /\ first = 1
      BY <1>2, <2>1
    <3> HIDE DEF start, first, size
    <3>2. Len(start) = 1 /\ start[1] = arr.vals[1] /\ start \in Seq(Nat)
      BY <3>1
    <3>3. 1 <= size
      BY <1>2, <2>1 DEF size
    <3> QED BY <3>1, <3>2, <3>3
  <2>2. CASE ~ (op = "reduce" /\ Size(arr) > 0)
    <3>1. start = <<>> /\ Len(start) = 0 /\ start \in Seq(Nat)
      BY <2>2
    <3>2. first = 0 \/ size = 0
      BY <1>2, <2>2
    <3> HIDE DEF start, size
    <3> QED BY <1>2, <3>1, <3>2
  <2> QED BY <2>1, <2>2
<1> HIDE DEF first, start, dest, size, stk
<1>7. q \in VisitRuns
  BY <1>2, <1>3, <1>4, <1>5, <1>6 DEF VisitRuns
<1>8. /\ q.op = op /\ q.n = first /\ q.size = size /\ q.dest = dest /\ q.stk = stk /\ q.given = start
      /\ q.before = arr.vals /\ q.touched = FALSE
  OBVIOUS
<1>9. run' = Loop(arr, q)
  BY <1>1 DEF first, start, dest, size, stk
<1> HIDE DEF q
<1>10. Walking(arr, q)
  BY <1>2, <1>4, <1>6, <1>7, <1>8 DEF Walking
<1>11. AtHead(arr, q)
  BY <1>5, <1>6, <1>8, <1>10 DEF AtHead
<1>12. Running(arr, Loop(arr, q))
  BY <1>11, LoopKeeps
<1> QED BY <1>2, <1>9, <1>12

\* The callback has returned: its result is stored, and the loop goes on.
LEMMA CallbackReturnsKeeps ==
  ASSUME Fits(arr), InVisit(arr, run), CallbackReturns
  PROVE  Fits(arr') /\ Running(arr', run')
<1>1. PICK v \in {Null, Size(arr) + 1} :
        LET a == IF run.op = "apply" THEN Set(arr, run.n, v) ELSE arr
            dest == CASE run.op = "map" -> Set(run.dest, run.n, v)
                      [] run.op = "filter" /\ v # Null -> PushBack(run.dest, run.temp)
                      [] OTHER -> run.dest
        IN /\ arr' = a
           /\ run' = Loop(a, [run EXCEPT !.n = @ + 1, !.dest = dest, !.stk = Returned(@, run.op)])
  BY DEF CallbackReturns
<1> DEFINE a == IF run.op = "apply" THEN Set(arr, run.n, v) ELSE arr
           dest == CASE run.op = "map" -> Set(run.dest, run.n, v)
                     [] run.op = "filter" /\ v # Null -> PushBack(run.dest, run.temp)
                     [] OTHER -> run.dest
           t == Returned(run.stk, run.op)
           m == run.n + 1
           q == [run EXCEPT !.n = m, !.dest = dest, !.stk = t]
<1>2. run \in VisitRuns /\ Walking(arr, run) /\ run.n < run.size /\ Len(run.given) = run.n + 1
      /\ Len(run.stk) = 2 + NArgs(run.op) /\ run.stk[2] = "closure"
  BY DEF InVisit, Walking
<1>3. /\ run.op \in Visits /\ run.n \in Nat /\ run.size \in Nat /\ run.temp \in Nat
      /\ run.stk \in Seq(Slots) /\ run.given \in Seq(Nat)
  BY <1>2, VisitTypes
<1>4. /\ Fits(run.dest) /\ (run.op = "map" => Size(run.dest) = run.size) /\ Len(run.before) = run.size
      /\ ~run.touched /\ run.op # "apply" =>
            /\ arr.vals = run.before /\ Len(run.given) <= run.size
            /\ \A k \in 1 .. Len(run.given) : run.given[k] = run.before[k]
  BY <1>2 DEF Walking
<1>5. v \in Nat
  <2>1. Size(arr) \in Nat
    BY DEF Fits, Vectors, Size
  <2> QED BY <1>1, <2>1 DEF Null
<1>6. arr' = a /\ run' = Loop(a, q)
  <2>1. q = [run EXCEPT !.n = @ + 1, !.dest = dest, !.stk = Returned(@, run.op)]
    BY <1>2 DEF VisitRuns
  <2> HIDE DEF q, dest, a
  <2> QED BY <1>1, <2>1 DEF dest, a
<1>7. Fits(a)
  <2>1. \A i \in Int, x \in Nat : Fits(Set(arr, i, x))
    BY ChangedFits
  <2>2. Fits(Set(arr, run.n, v))
    BY ONLY <1>3, <1>5, <2>1
  <2> QED BY <2>2
<1>8. Fits(dest) /\ dest \in Vectors /\ (run.op = "map" => Size(dest) = run.size)
  <2>1. CASE run.op = "map"
    <3>1. Fits(Set(run.dest, run.n, v)) /\ Size(Set(run.dest, run.n, v)) = Size(run.dest)
      BY <1>3, <1>4, <1>5, ChangedFits
    <3>2. dest = Set(run.dest, run.n, v)
      BY <2>1
    <3> HIDE DEF dest
    <3> QED BY <1>4, <2>1, <3>1, <3>2 DEF Fits
  <2>2. CASE run.op # "map" /\ run.op = "filter" /\ v # Null
    <3>1. Fits(PushBack(run.dest, run.temp))
      BY <1>3, <1>4, PushBackFits
    <3>2. dest = PushBack(run.dest, run.temp)
      BY <2>2
    <3> HIDE DEF dest
    <3> QED BY <2>2, <3>1, <3>2 DEF Fits
  <2>3. CASE run.op # "map" /\ ~ (run.op = "filter" /\ v # Null)
    <3>1. dest = run.dest
      BY <2>3
    <3> HIDE DEF dest
    <3> QED BY <1>4, <2>3, <3>1 DEF Fits
  <2> QED BY <2>1, <2>2, <2>3
<1>9. t \in Seq(Slots) /\ Len(t) = 2 /\ t[2] = "closure"
  BY <1>2, <1>3, ResultPopped
<1>10. m \in Nat /\ m <= run.size /\ Len(run.given) = m
  BY <1>2, <1>3
<1>11. run.op # "apply" => a = arr
  OBVIOUS
<1> HIDE DEF a, dest, t, m
<1>12. /\ q \in VisitRuns /\ q.op = run.op /\ q.n = m /\ q.size = run.size /\ q.dest = dest /\ q.stk = t
       /\ q.given = run.given /\ q.before = run.before /\ q.touched = run.touched
  BY <1>2, <1>8, <1>9, <1>10 DEF VisitRuns
<1> HIDE DEF q
<1>13. Walking(a, q)
  BY <1>4, <1>8, <1>11, <1>12 DEF Walking
<1>14. AtHead(a, q)
  BY <1>9, <1>10, <1>12, <1>13 DEF AtHead
<1>15. Running(a, Loop(a, q))
  BY <1>7, <1>14, LoopKeeps
<1> QED BY <1>6, <1>7, <1>15

\* The callback has failed: the function ends and says so.
LEMMA CallbackFailsKeeps ==
  ASSUME Fits(arr), Running(arr, run), CallbackFails
  PROVE  arr' = arr /\ Running(arr', run')
<1> DEFINE e == [op |-> run.op, ok |-> FALSE, given |-> <<>>, before |-> run.before, touched |-> run.touched,
                 dest |-> Create(0), user |-> TRUE, size |-> 0]
<1>1. arr' = arr /\ run' = Idle(e) /\ InCallback
  BY DEF CallbackFails
<1>2. e.op = run.op /\ e.ok = FALSE /\ e.before = run.before /\ e.touched = run.touched
  OBVIOUS
<1> HIDE DEF e
<1>3. run.op # "none"
  BY <1>1 DEF InCallback, Visits, Comparing
<1>4. run.op = "sort" => Sorting(arr, run)
  BY <1>3, VisitTypes DEF Running, InVisit, Walking, Visits
<1>5. Left(arr, e)
  BY <1>2, <1>4 DEF Left, Sorting
<1>6. Idle(e).op = "none" /\ Idle(e).ended = e
  BY DEF Idle
<1> QED BY <1>1, <1>5, <1>6 DEF Running

----------------------------------------------------------------------------
(* The operations of the script, and the theorems.                         *)

\* An operation of the script, whatever function runs, unless it shortens an array that is being
\* sorted.
LEMMA ScriptKeeps ==
  ASSUME NEW a, IInv, Fits(a), Script(a)
  PROVE  IInv'
<1>1. arr' = a /\ ops \in Nat /\ ops' = ops + 1 /\ Running(arr, run)
  BY DEF IInv, Script, Called
<1>2. CASE run.op = "none"
  <2>1. run' = Idle(NoneEnded)
    BY <1>2 DEF Script
  <2>2. run'.op = "none" /\ run'.ended.op = "none"
    BY <2>1 DEF Idle, NoneEnded
  <2>3. Left(a, run'.ended)
    BY <2>2 DEF Left, Visits
  <2> QED BY <1>1, <2>2, <2>3 DEF IInv, Running
<1>3. CASE run.op # "none" /\ InVisit(arr, run)
  <2> DEFINE q == [run EXCEPT !.touched = TRUE]
  <2>1. run' = q
    BY <1>3 DEF Script
  <2>2. run \in VisitRuns /\ Walking(arr, run)
    BY <1>3 DEF InVisit, Walking
  <2>3. /\ q \in VisitRuns /\ q.op = run.op /\ q.n = run.n /\ q.size = run.size /\ q.dest = run.dest
        /\ q.stk = run.stk /\ q.given = run.given /\ q.before = run.before /\ q.touched = TRUE
    BY <2>2 DEF VisitRuns
  <2> HIDE DEF q
  <2>4. Walking(a, q)
    BY <2>2, <2>3 DEF Walking
  <2>5. InVisit(a, q)
    BY <1>3, <2>3, <2>4 DEF InVisit
  <2> QED BY <1>1, <2>1, <2>5 DEF IInv, Running
<1>4. CASE run.op # "none" /\ Sorting(arr, run)
  <2> DEFINE q == [run EXCEPT !.touched = TRUE]
  <2>1. run' = q
    BY <1>4 DEF Script
  <2>2. run \in SortRuns /\ Indices(arr, run) /\ run.op = "sort"
    BY <1>4 DEF Sorting, Indices, SortRuns
  <2>3. run.user /\ Size(a) >= Size(arr)
    BY <2>2 DEF Script, InCallback, Visits
  <2>4. /\ q \in SortRuns /\ q.user = run.user /\ q.size = run.size /\ q.before = run.before /\ q.touched = TRUE
        /\ q.at = run.at /\ q.root = run.root /\ q.child = run.child /\ SameLoop(run, q)
    BY <2>2 DEF SortRuns, SameLoop
  <2> HIDE DEF q
  <2>5. run.size <= Size(a)
    <3>1. run.size \in Nat /\ run.size <= Size(arr)
      BY <2>2 DEF Indices, SortRuns
    <3>2. Size(arr) \in Nat
      BY DEF IInv, Fits, Vectors, Size
    <3>3. Size(a) \in Nat
      BY DEF Fits, Vectors, Size
    <3> QED BY <2>3, <3>1, <3>2, <3>3
  <2>6. Indices(a, q)
    BY <2>2, <2>4, <2>5 DEF Indices, SameLoop
  <2>7. Sorting(a, q)
    BY <2>3, <2>4, <2>6 DEF Sorting
  <2> QED BY <1>1, <2>1, <2>7 DEF IInv, Running
<1> QED BY <1>1, <1>2, <1>3, <1>4 DEF Running

\* Every operation of the script leaves the elements in allocated places.
LEMMA ScriptNextKeeps ==
  ASSUME IInv, ScriptNext
  PROVE  IInv'
<1>1. Fits(arr)
  BY DEF IInv
<1>0. \A x \in Elements : x \in Nat
  BY ElementsAssumption
<1>2. Null \in Nat /\ \A i \in Places : i \in Int
  BY BoundsAssumption DEF Null, Places
<1>3. ASSUME array_append PROVE IInv'
  <2>1. PICK x \in Elements : Script(PushBack(arr, x))
    BY <1>3 DEF array_append
  <2>2. Fits(PushBack(arr, x))
    BY <1>0, <1>1, PushBackFits
  <2> QED BY <2>1, <2>2, ScriptKeeps
<1>4. ASSUME array_extend PROVE IInv'
  <2>1. Fits(Extend(arr, arr))
    BY <1>1, ExtendFits
  <2> QED BY <1>4, <2>1, ScriptKeeps DEF array_extend
<1>5. ASSUME array_reverse PROVE IInv'
  <2>1. Fits(Reversed(arr))
    BY <1>1, ChangedFits
  <2> QED BY <1>5, <2>1, ScriptKeeps DEF array_reverse
<1>6. ASSUME array_pop PROVE IInv'
  <2>1. Script(Pop(arr)) /\ 0 \in 0 .. Size(arr) - 1
    BY <1>1, <1>6 DEF array_pop, Fits, Vectors, Size
  <2>2. Fits(PopBack(arr))
    BY <1>1, <2>1, RemovedFits
  <2>3. Fits(Pop(arr))
    BY <2>2, ShrinkFits DEF Pop
  <2> QED BY <2>1, <2>3, ScriptKeeps
<1>7. ASSUME array_insert PROVE IInv'
  <2>1. PICK i \in Places, x \in Elements : Script(Insert(arr, i, x))
    BY <1>7 DEF array_insert
  <2>2. Fits(Insert(arr, i, x))
    <3>1. CASE i < 0 \/ i > Size(arr)
      BY <1>1, <3>1 DEF Insert
    <3>2. CASE ~ (i < 0 \/ i > Size(arr))
      <4>1. i \in 0 .. Size(arr) /\ x \in Nat
        BY <1>0, <1>1, <1>2, <3>2 DEF Fits, Vectors, Size
      <4>2. Fits(InsertedAt(arr, i, x))
        BY <1>1, <4>1, InsertedFits
      <4> QED BY <3>2, <4>2 DEF Insert
    <3> QED BY <3>1, <3>2
  <2> QED BY <2>1, <2>2, ScriptKeeps
<1>8. ASSUME array_remove PROVE IInv'
  <2>1. PICK i \in Places : Script(RemoveItem(arr, i))
    BY <1>8 DEF array_remove
  <2>2. Fits(RemoveItem(arr, i))
    <3>1. CASE ~InRange(arr, i)
      BY <1>1, <3>1 DEF RemoveItem
    <3>2. CASE InRange(arr, i)
      <4>1. i \in 0 .. Size(arr) - 1
        BY <1>1, <1>2, <3>2 DEF InRange, Fits, Vectors, Size
      <4>2. Fits(RemovedAt(arr, i))
        BY <1>1, <4>1, RemovedFits
      <4> QED BY <3>2, <4>2, ShrinkFits DEF RemoveItem
    <3> QED BY <3>1, <3>2
  <2> QED BY <2>1, <2>2, ScriptKeeps
<1>9. ASSUME array_resize PROVE IInv'
  <2>1. PICK n \in 0 .. MaxLen, x \in {Null} \cup Elements : Script(Resize(arr, n, x))
    BY <1>9 DEF array_resize
  <2>2. n \in Nat /\ x \in Nat
    BY <1>0, <1>2, BoundsAssumption
  <2>3. Fits(Resized(arr, n, x))
    BY <1>1, <2>2, ResizedFits
  <2>4. Fits(Resize(arr, n, x))
    BY <2>3, ShrinkFits DEF Resize
  <2> QED BY <2>1, <2>4, ScriptKeeps
<1>10. ASSUME array_clear PROVE IInv'
  <2>1. PICK z \in Nat : z = 0
    OBVIOUS
  <2>2. Fits(Resized(arr, z, Null))
    BY <1>1, <1>2, ResizedFits
  <2>3. Fits(Resize(arr, z, Null))
    BY <2>2, ShrinkFits DEF Resize
  <2> QED BY <1>10, <2>1, <2>3, ScriptKeeps DEF array_clear
<1>11. ASSUME array_set PROVE IInv'
  <2>1. PICK i \in Places, x \in Elements : Script(Set(arr, i, x))
    BY <1>11 DEF array_set
  <2>2. Fits(Set(arr, i, x))
    <3>1. i \in Int /\ x \in Nat
      BY <1>0, <1>2
    <3> QED BY <1>1, <3>1, ChangedFits
  <2> QED BY <2>1, <2>2, ScriptKeeps
<1>12. ASSUME array_slice PROVE IInv'
  <2>1. PICK s, e \in -Size(arr) - 1 .. Size(arr) + 1 : Slice(arr, s, e) # Absent /\ Script(Slice(arr, s, e))
    BY <1>12 DEF array_slice
  <2>2. s \in Int /\ e \in Int
    BY <1>1 DEF Fits, Vectors, Size
  <2>3. Fits(Slice(arr, s, e))
    BY <1>1, <2>1, <2>2, SliceFits
  <2> QED BY <2>1, <2>3, ScriptKeeps
<1> QED BY <1>3, <1>4, <1>5, <1>6, <1>7, <1>8, <1>9, <1>10, <1>11, <1>12 DEF ScriptNext

\* The state of the function in progress is its own.
LEMMA RunningOp ==
  ASSUME NEW a, NEW r, Running(a, r)
  PROVE  /\ r.op \in Visits => InVisit(a, r)
         /\ r.op = "sort" => Sorting(a, r)
         /\ r.op = "none" => Left(a, r.ended)
<1>1. InVisit(a, r) => r.op \in Visits
  BY VisitTypes DEF InVisit, Walking
<1>2. Sorting(a, r) => r.op = "sort"
  BY DEF Sorting, Indices, SortRuns
<1> QED BY <1>1, <1>2 DEF Running, Visits

\* The invariant is inductive.
LEMMA StepKeeps ==
  ASSUME IInv, [Next]_vars
  PROVE  IInv'
<1>1. Fits(arr) /\ ops \in Nat /\ Running(arr, run)
  BY DEF IInv
<1>2. ASSUME ScriptNext PROVE IInv'
  BY <1>2, ScriptNextKeeps
<1>3. ASSUME Begin PROVE IInv'
  <2>1. ops' \in Nat
    BY <1>1, <1>3 DEF Begin, Called
  <2>2. arr' = arr /\ Running(arr', run')
    BY <1>1, <1>3, VisitBegins
  <2> QED BY <1>1, <2>1, <2>2 DEF IInv
<1>4. ASSUME array_sort PROVE IInv'
  <2>1. ops' \in Nat /\ arr' = arr
    BY <1>1, <1>4 DEF array_sort, Called
  <2>2. Sorting(arr', run')
    BY <1>1, <1>4, SortBegins
  <2> QED BY <1>1, <2>1, <2>2 DEF IInv, Running
<1>5. ASSUME SortNext PROVE IInv'
  <2>1. run.op = "sort" /\ ops' = ops
    BY <1>5 DEF SortNext, SiftLoop, CompareChildren, CompareParent, SiftEnd, Comparing
  <2>2. Sorting(arr, run)
    BY <1>1, <2>1, RunningOp
  <2>3. CASE SiftLoop
    <3>1. arr' = arr
      BY <2>3 DEF SiftLoop
    <3>2. Sorting(arr', run')
      BY <1>1, <2>2, <2>3, SiftLoopKeeps
    <3> QED BY <1>1, <2>1, <3>1, <3>2 DEF IInv, Running
  <2>4. CASE CompareChildren
    <3>1. arr' = arr
      BY <2>4 DEF CompareChildren
    <3>2. Sorting(arr', run')
      BY <1>1, <2>2, <2>4, CompareChildrenKeeps
    <3> QED BY <1>1, <2>1, <3>1, <3>2 DEF IInv, Running
  <2>5. CASE CompareParent
    <3>1. Fits(arr') /\ Running(arr', run')
      BY <1>1, <2>2, <2>5, CompareParentKeeps
    <3> QED BY <1>1, <2>1, <3>1 DEF IInv
  <2>6. CASE SiftEnd
    <3>1. Fits(arr') /\ Running(arr', run')
      BY <1>1, <2>2, <2>6, SiftEndKeeps
    <3> QED BY <1>1, <2>1, <3>1 DEF IInv
  <2> QED BY <1>5, <2>3, <2>4, <2>5, <2>6 DEF SortNext
<1>6. ASSUME CallbackReturns PROVE IInv'
  <2>1. run.op \in Visits /\ ops' = ops
    BY <1>6 DEF CallbackReturns
  <2>2. InVisit(arr, run)
    BY <1>1, <2>1, RunningOp
  <2>3. Fits(arr') /\ Running(arr', run')
    BY <1>1, <1>6, <2>2, CallbackReturnsKeeps
  <2> QED BY <1>1, <2>1, <2>3 DEF IInv
<1>7. ASSUME CallbackFails PROVE IInv'
  <2>1. ops' = ops
    BY <1>7 DEF CallbackFails
  <2>2. arr' = arr /\ Running(arr', run')
    BY <1>1, <1>7, CallbackFailsKeeps
  <2> QED BY <1>1, <2>1, <2>2 DEF IInv
<1>8. ASSUME UNCHANGED vars PROVE IInv'
  BY <1>1, <1>8 DEF IInv, vars
<1> QED BY <1>2, <1>3, <1>4, <1>5, <1>6, <1>7, <1>8 DEF Next, Callbacks

\* The program starts with arrays that fit.
LEMMA InitHolds == Init => IInv
<1> SUFFICES ASSUME Init PROVE IInv
  OBVIOUS
<1>1. Fits(arr)
  BY StartsAssumption DEF Init, Fits, Vectors, Size
<1>2. run.op = "none" /\ run.ended.op = "none" /\ ops \in Nat
  BY DEF Init, Idle, NoneEnded
<1>3. Left(arr, run.ended)
  BY <1>2 DEF Left, Visits
<1> QED BY <1>1, <1>2, <1>3 DEF IInv, Running

\* The invariant of the array's functions: while one runs, its places, its stack, its results and,
\* for a sort with ObjCmp, the order reached so far; afterwards what it has left behind.
THEOREM AlwaysIInv == Spec => []IInv
BY InitHolds, StepKeeps, PTL DEF Spec

\* What the invariant says of the callbacks.
LEMMA IInvVisits == IInv => EachElementOnce
<1> SUFFICES ASSUME IInv PROVE EachElementOnce
  OBVIOUS
<1>1. Fits(arr) /\ Running(arr, run)
  BY DEF IInv
<1>2. Size(arr) <= arr.cap
  BY <1>1 DEF Fits
<1>3. ASSUME run.op \in Visits
      PROVE  /\ Callee = "closure"
             /\ Size(run.dest) <= run.dest.cap
             /\ ~run.touched /\ run.op # "apply" => IsPrefix(run.given, run.before)
  <2>1. InVisit(arr, run) /\ run \in VisitRuns /\ Walking(arr, run)
    BY <1>1, <1>3, RunningOp DEF InVisit, Walking
  <2>2. /\ run.given \in Seq(Nat) /\ run.before \in Seq(Nat) /\ NArgs(run.op) \in {2, 3} /\ run.stk \in Seq(Slots)
    BY <2>1, VisitTypes
  <2>3. Callee = "closure"
    <3>1. Len(run.stk) = 2 + NArgs(run.op) /\ run.stk[2] = "closure"
      BY <2>1 DEF InVisit
    <3>2. Len(run.stk) - NArgs(run.op) = 2
      BY <2>2, <3>1
    <3> QED BY <3>1, <3>2 DEF Callee
  <2>4. Size(run.dest) <= run.dest.cap
    BY <2>1 DEF Walking, Fits
  <2>5. ASSUME ~run.touched, run.op # "apply" PROVE IsPrefix(run.given, run.before)
    <3> DEFINE g == run.given
               b == run.before
    <3>1. Len(g) <= Len(b) /\ \A k \in 1 .. Len(g) : g[k] = b[k]
      BY <2>1, <2>5 DEF Walking
    <3>2. g \in Seq(Nat) /\ b \in Seq(Nat)
      BY <2>2
    <3> HIDE DEF g, b
    <3>3. SubSeq(g, 1, Len(g)) = SubSeq(b, 1, Len(g))
      BY <3>1, <3>2
    <3> QED BY <3>1, <3>3 DEF IsPrefix, g, b
  <2> QED BY <2>3, <2>4, <2>5
<1>4. ASSUME run.op = "none" PROVE Left(arr, run.ended)
  BY <1>1, <1>4, RunningOp
<1> QED BY <1>2, <1>3, <1>4 DEF EachElementOnce, Left

\* What the invariant says of sorting.
LEMMA IInvSorts == IInv => SortSorts
<1> SUFFICES ASSUME IInv PROVE SortSorts
  OBVIOUS
<1>1. Fits(arr) /\ Running(arr, run)
  BY DEF IInv
<1>2. CASE run.op = "none"
  <2>1. Left(arr, run.ended)
    BY <1>1, <1>2, RunningOp
  <2> QED BY <1>2, <2>1 DEF SortSorts, Left, Comparing
<1>3. CASE run.op = "sort"
  <2>1. Sorting(arr, run) /\ Indices(arr, run)
    BY <1>1, <1>3, RunningOp DEF Sorting
  <2>2. /\ Size(arr) \in Nat /\ run.root \in Nat /\ run.bottom \in Nat /\ run.child \in Int
        /\ run.root < Size(arr) /\ run.bottom < Size(arr)
    BY <1>1, <2>1, SortTypes
  <2>3. ASSUME run.at = "children"
        PROVE  run.root \in 0 .. Size(arr) - 1 /\ run.child \in 0 .. Size(arr) - 1 /\ run.child + 1 < Size(arr)
    <3>1. run.child = 2 * run.root /\ run.child + 1 <= run.bottom
      BY <2>1, <2>3 DEF Indices
    <3> QED BY <2>2, <3>1
  <2>4. ASSUME run.at = "parent"
        PROVE  run.root \in 0 .. Size(arr) - 1 /\ run.child \in 0 .. Size(arr) - 1
    <3>1. IsChild(run.child, run.root) /\ run.child <= run.bottom
      BY <2>1, <2>4 DEF Indices
    <3> QED BY <2>2, <3>1 DEF IsChild
  <2>5. ~run.touched => Counts(arr.vals) = Counts(run.before)
    BY <2>1 DEF Sorting
  <2> QED BY <1>3, <2>3, <2>4, <2>5 DEF SortSorts, Comparing
<1>4. CASE run.op # "none" /\ run.op # "sort"
  BY <1>4 DEF SortSorts
<1> QED BY <1>2, <1>3, <1>4

\* map, apply, reduce and filter give each element to the callback once and in order, as long as it
\* leaves the array alone, and survive it when it does not: for arrays of every length, any elements
\* and any number of operations (array_map, __map_array, array_reduce, array_filter).
THEOREM AlwaysEachElementOnce == FairSpec => []EachElementOnce
BY AlwaysIInv, IInvVisits, PTL DEF FairSpec

\* _hsort compares only elements that exist, permutes them whatever the compare function answers,
\* and with ObjCmp leaves an array of any length in order.
THEOREM AlwaysSortSorts == FairSpec => []SortSorts
BY AlwaysIInv, IInvSorts, PTL DEF FairSpec
=============================================================================
