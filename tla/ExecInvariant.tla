--------------------------- MODULE ExecInvariant ----------------------------
(***************************************************************************)
(* The inductive invariant of Exec, in parts, and what becomes of each     *)
(* part when a trap is pushed or popped, a frame entered or left, or an    *)
(* activation begun or ended.  ExecProofs takes the actions of Exec to     *)
(* these effects.                                                          *)
(***************************************************************************)
EXTENDS Exec, SequenceTheorems, TLAPS

CallInfo == [prev : Int, gen : Gens \cup {NoGen}, etraps : Nat, root : BOOLEAN,
             native : BOOLEAN, base : Int, below : Nat]
Calls == [native : BOOLEAN, traps : Int, depth : Nat, base : Int]
Generator == [state : {"none", "suspended", "running", "dead"}, traps : Seq(Int), root : BOOLEAN]

TypeOK ==
  /\ frames \in Seq(CallInfo) /\ stackbase \in Int /\ etraps \in Seq(Int)
  /\ raising \in BOOLEAN
  /\ ctl \in Seq(Calls)
  /\ gens \in [Gens -> Generator]
  /\ suspended \in BOOLEAN /\ susp \in [traps : Int, root : BOOLEAN]

\* The traps of the frames lie on _etraps in the order of the frames.
TrapsInOrder ==
  /\ Len(frames) = 0 => Len(etraps) = 0
  /\ Len(frames) > 0 =>
       /\ frames[1].below = 0
       /\ frames[Len(frames)].below + frames[Len(frames)].etraps = Len(etraps)
  /\ \A i \in 1 .. Len(frames) - 1 : frames[i].below + frames[i].etraps = frames[i + 1].below
  /\ \A i, j \in 1 .. Len(frames) : i < j => frames[i].below + frames[i].etraps <= frames[j].below

\* LeaveFrame finds the base of the caller, and a trap that of its frame.
BasesKept ==
  TrapsStay =>
  /\ Len(frames) = 0 => stackbase = 0
  /\ Len(frames) > 0 => /\ stackbase = frames[Len(frames)].base
                        /\ frames[1].base = frames[1].prev
  /\ \A i \in 1 .. Len(frames) - 1 : frames[i + 1].base = frames[i].base + frames[i + 1].prev
  /\ \A i \in 1 .. Len(frames) :
       \A k \in frames[i].below + 1 .. frames[i].below + frames[i].etraps : etraps[k] = frames[i].base

\* What a call found is what there is below its first frame.
CallersKept ==
  TrapsStay =>
  \A k \in 1 .. Len(ctl) : /\ ctl[k].depth = 0 => ctl[k].base = 0
                           /\ ctl[k].depth > 0 => ctl[k].base = frames[ctl[k].depth].base

\* The activations divide the frames among them, Execute and native functions
\* in turn; below them are the frames of a suspended activation.
Nested ==
  /\ \A k \in 1 .. Len(ctl) : ctl[k].depth < Len(frames)
  /\ \A k, l \in 1 .. Len(ctl) : k < l => ctl[k].depth < ctl[l].depth
  /\ \A k \in 1 .. Len(ctl) - 1 :
       /\ ctl[k].native <=> ~ctl[k + 1].native
       /\ ctl[k].native => ctl[k + 1].depth = ctl[k].depth + 1
  /\ Len(ctl) > 0 =>
       /\ ~ctl[1].native
       /\ ctl[Len(ctl)].native => Len(frames) = ctl[Len(ctl)].depth + 1
       /\ suspended <=> ctl[1].depth > 0
  /\ Len(ctl) = 0 => suspended \/ Len(frames) = 0
  /\ suspended => Len(frames) > 0
  /\ raising => Len(ctl) > 0 /\ ~ctl[Len(ctl)].native

\* Where the root frames and those of native functions are, and what they hold.
RootsPlaced ==
  \A i \in 1 .. Len(frames) :
    /\ frames[i].root <=> \/ \E k \in 1 .. Len(ctl) : ~ctl[k].native /\ ctl[k].depth = i - 1
                          \/ suspended /\ i = 1
    /\ frames[i].native <=> \E k \in 1 .. Len(ctl) : ctl[k].native /\ ctl[k].depth = i - 1
    /\ frames[i].native => frames[i].etraps = 0 /\ frames[i].gen = NoGen

\* The frames of the suspended activation end where the first activation begins.
SuspendedKept ==
  suspended => /\ Len(ctl) = 0 => susp.root = frames[Len(frames)].root
               /\ Len(ctl) > 0 => susp.root = frames[ctl[1].depth].root

Counted ==
  TrapsStay \/ "foreach" \notin mode.features =>
  /\ Len(ctl) > 0 =>
       ctl[Len(ctl)].traps = Len(etraps) - frames[ctl[Len(ctl)].depth + 1].below
  /\ \A k \in 1 .. Len(ctl) - 1 :
       ctl[k].traps = frames[ctl[k + 1].depth + 1].below - frames[ctl[k].depth + 1].below
  /\ suspended => /\ Len(ctl) = 0 => susp.traps = Len(etraps)
                  /\ Len(ctl) > 0 => susp.traps = frames[ctl[1].depth + 1].below

OneFrameEach ==
  /\ \A i, j \in 1 .. Len(frames) :
       frames[i].gen = frames[j].gen /\ frames[i].gen # NoGen => i = j
  /\ \A i \in 1 .. Len(frames) : frames[i].gen # NoGen => gens[frames[i].gen].state = "running"
  /\ \A g \in Gens : gens[g].state = "running" => \E i \in 1 .. Len(frames) : frames[i].gen = g
  /\ TrapsStay => \A g \in Gens : gens[g].traps = <<>>

Good ==
  /\ TypeOK /\ TrapsInOrder /\ BasesKept /\ CallersKept
  /\ Nested /\ RootsPlaced /\ SuspendedKept /\ Counted /\ OneFrameEach

IInv == mode \in Modes /\ (RootsStay => Good)

(***************************************************************************)
(* Sequences used as stacks.                                               *)
(***************************************************************************)
\* Append, entry by entry.
LEMMA PushFacts ==
  ASSUME NEW S, NEW s \in Seq(S), NEW x \in S
  PROVE  /\ Append(s, x) \in Seq(S)
         /\ Len(Append(s, x)) = Len(s) + 1 /\ Len(s) \in Nat
         /\ \A i \in 1 .. Len(s) : Append(s, x)[i] = s[i]
         /\ Append(s, x)[Len(s) + 1] = x
  OBVIOUS

\* Front and Last, entry by entry.
LEMMA PopFacts ==
  ASSUME NEW S, NEW s \in Seq(S), Len(s) > 0
  PROVE  /\ Front(s) \in Seq(S)
         /\ Len(Front(s)) = Len(s) - 1 /\ Len(s) \in Nat \ {0}
         /\ \A i \in 1 .. Len(s) - 1 : Front(s)[i] = s[i]
         /\ Last(s) = s[Len(s)] /\ Last(s) \in S
<1>1. Len(s) \in Nat \ {0} /\ Last(s) = s[Len(s)] /\ Last(s) \in S
  BY DEF Last
<1>2. Front(s) = SubSeq(s, 1, Len(s) - 1)
  BY DEF Front
<1>3. Len(s) - 1 \in Nat /\ \A i \in 1 .. Len(s) - 1 : s[i] \in S
  BY <1>1
<1>4. ASSUME NEW m \in Nat, \A i \in 1 .. m : s[i] \in S
      PROVE  /\ SubSeq(s, 1, m) \in Seq(S) /\ Len(SubSeq(s, 1, m)) = m
             /\ \A i \in 1 .. m : SubSeq(s, 1, m)[i] = s[i]
  BY <1>4, SubSeqProperties, Z3
<1>5. /\ SubSeq(s, 1, Len(s) - 1) \in Seq(S) /\ Len(SubSeq(s, 1, Len(s) - 1)) = Len(s) - 1
      /\ \A i \in 1 .. Len(s) - 1 : SubSeq(s, 1, Len(s) - 1)[i] = s[i]
  BY ONLY <1>3, <1>4, Zenon
<1> QED
  BY ONLY <1>1, <1>2, <1>5, Zenon

\* What a sequence says of its domain and its entries.
LEMMA SeqFacts ==
  ASSUME NEW S, NEW s \in Seq(S)
  PROVE  /\ s = <<>> <=> Len(s) = 0
         /\ Len(s) \in Nat /\ DOMAIN s = 1 .. Len(s)
         /\ \A i \in 1 .. Len(s) : s[i] \in S
  OBVIOUS

(***************************************************************************)
(* What the actions do to the stacks, entry by entry.                      *)
(***************************************************************************)
\* One frame more, with its traps (a resumed generator's) on _etraps.
FrameEntered(f) ==
  /\ f \in CallInfo /\ f.below = Len(etraps) /\ f.base = stackbase + f.prev
  /\ f.native => f.etraps = 0 /\ f.gen = NoGen
  /\ TrapsStay => f.etraps = 0
  /\ frames' \in Seq(CallInfo) /\ Len(frames') = Len(frames) + 1
  /\ \A i \in 1 .. Len(frames) : frames'[i] = frames[i]
  /\ frames'[Len(frames) + 1] = f
  /\ stackbase' = f.base
  /\ etraps' \in Seq(Int) /\ Len(etraps') = Len(etraps) + f.etraps
  /\ \A k \in 1 .. Len(etraps) : etraps'[k] = etraps[k]

\* The last frame is gone, and so are its traps.
FrameLeft ==
  /\ Len(frames) > 0
  /\ frames' \in Seq(CallInfo) /\ Len(frames') = Len(frames) - 1
  /\ \A i \in 1 .. Len(frames) - 1 : frames'[i] = frames[i]
  /\ stackbase' = stackbase - frames[Len(frames)].prev
  /\ etraps' \in Seq(Int) /\ Len(etraps') = frames[Len(frames)].below
  /\ \A k \in 1 .. Len(etraps') : etraps'[k] = etraps[k]

\* The last frame has d traps more on top of _etraps, and keeps the rest.
TrapsMoved(d) ==
  /\ Len(frames) > 0 /\ frames[Len(frames)].etraps + d \in Nat
  /\ frames' \in Seq(CallInfo) /\ Len(frames') = Len(frames)
  /\ \A i \in 1 .. Len(frames) :
       /\ frames'[i].prev = frames[i].prev /\ frames'[i].gen = frames[i].gen
       /\ frames'[i].root = frames[i].root /\ frames'[i].native = frames[i].native
       /\ frames'[i].base = frames[i].base /\ frames'[i].below = frames[i].below
       /\ frames'[i].etraps = (IF i = Len(frames) THEN frames[i].etraps + d ELSE frames[i].etraps)
  /\ etraps' \in Seq(Int) /\ Len(etraps') = Len(etraps) + d
  /\ \A k \in 1 .. Len(etraps) : k <= Len(etraps') => etraps'[k] = etraps[k]

\* The activations stay, the innermost with d traps more.
SameCalls(d) ==
  /\ ctl' \in Seq(Calls) /\ Len(ctl') = Len(ctl)
  /\ \A k \in 1 .. Len(ctl) :
       /\ ctl'[k].native = ctl[k].native /\ ctl'[k].depth = ctl[k].depth /\ ctl'[k].base = ctl[k].base
       /\ ctl'[k].traps = (IF k = Len(ctl) THEN ctl[k].traps + d ELSE ctl[k].traps)

\* One activation more, whose first frame is entered with n traps.
CallBegun(native, n) ==
  /\ ctl' \in Seq(Calls) /\ Len(ctl') = Len(ctl) + 1
  /\ \A k \in 1 .. Len(ctl) : ctl'[k] = ctl[k]
  /\ ctl'[Len(ctl) + 1] = [native |-> native, traps |-> n, depth |-> Len(frames), base |-> stackbase]

CallEnded ==
  /\ Len(ctl) > 0
  /\ ctl' \in Seq(Calls) /\ Len(ctl') = Len(ctl) - 1
  /\ \A k \in 1 .. Len(ctl) - 1 : ctl'[k] = ctl[k]

\* The generator g, if it is one, is no longer running, and the others are as they were.
Stopped(g) ==
  /\ gens' \in [Gens -> Generator]
  /\ \A h \in Gens \ {g} : gens'[h] = gens[h]
  /\ g \in Gens => gens'[g].state # "running" /\ (TrapsStay => gens'[g].traps = <<>>)

\* The generator g, if it is one, is running now.
Started(g) ==
  /\ gens' \in [Gens -> Generator]
  /\ \A h \in Gens \ {g} : gens'[h] = gens[h]
  /\ g \in Gens => /\ gens[g].state # "running" /\ gens'[g].state = "running"
                   /\ TrapsStay => gens'[g].traps = <<>>

\* What a typed state gives the steps below.
LEMMA Sizes ==
  ASSUME TypeOK
  PROVE  Len(frames) \in Nat /\ Len(etraps) \in Nat /\ Len(ctl) \in Nat
<1>1. frames \in Seq(CallInfo) /\ etraps \in Seq(Int) /\ ctl \in Seq(Calls)
  BY DEF TypeOK
<1> QED
  BY <1>1, SeqFacts

\* The types of the fields of a frame.
LEMMA FrameTypes ==
  ASSUME TypeOK, NEW i \in 1 .. Len(frames)
  PROVE  /\ frames[i].etraps \in Nat /\ frames[i].below \in Nat
         /\ frames[i].base \in Int /\ frames[i].prev \in Int
         /\ frames[i].root \in BOOLEAN /\ frames[i].native \in BOOLEAN
         /\ frames[i].gen \in Gens \cup {NoGen}
<1>1. frames \in Seq(CallInfo)
  BY DEF TypeOK
<1>2. frames[i] \in CallInfo
  BY <1>1
<1> QED
  BY <1>2 DEF CallInfo

\* The types of the fields of an activation.
LEMMA CallTypes ==
  ASSUME TypeOK, NEW k \in 1 .. Len(ctl)
  PROVE  /\ ctl[k].native \in BOOLEAN /\ ctl[k].depth \in Nat
         /\ ctl[k].traps \in Int /\ ctl[k].base \in Int
<1>1. ctl \in Seq(Calls)
  BY DEF TypeOK
<1>2. ctl[k] \in Calls
  BY <1>1
<1> QED
  BY <1>2 DEF Calls

(***************************************************************************)
(* Traps and bases                                                         *)
(***************************************************************************)
\* No frame has traps above the top of _etraps.
LEMMA TrapsFit ==
  ASSUME TypeOK, TrapsInOrder, NEW i \in 1 .. Len(frames)
  PROVE  frames[i].below + frames[i].etraps <= Len(etraps)
<1> DEFINE n == Len(frames)
<1>1. n \in Nat \ {0} /\ Len(etraps) \in Nat
  BY Sizes
<1>2. /\ frames[n].below + frames[n].etraps = Len(etraps)
      /\ frames[n].etraps \in Nat /\ frames[n].below \in Nat
  BY <1>1, FrameTypes DEF TrapsInOrder
<1>3. i < n => frames[i].below + frames[i].etraps <= frames[n].below
  BY <1>1 DEF TrapsInOrder
<1>4. frames[i].below \in Nat /\ frames[i].etraps \in Nat
  BY FrameTypes
<1> QED
  BY <1>1, <1>2, <1>3, <1>4

\* A frame entered has its traps (those of a resumed generator) on top.
LEMMA EnterTraps ==
  ASSUME TypeOK, TrapsInOrder, NEW f, FrameEntered(f)
  PROVE  TrapsInOrder'
<1> DEFINE n == Len(frames)
           t == Len(etraps)
<1>1. n \in Nat /\ t \in Nat
  BY Sizes
<1>2. /\ f.below = t /\ f.etraps \in Nat
      /\ Len(frames') = n + 1 /\ Len(etraps') = t + f.etraps
      /\ \A i \in 1 .. n : frames'[i] = frames[i]
      /\ frames'[n + 1] = f
  BY DEF FrameEntered, CallInfo
<1>3. \A i \in 1 .. n : frames[i].below + frames[i].etraps <= t
  BY TrapsFit
<1>4. frames'[1].below = 0
  <2>1. CASE n = 0
    BY <2>1, <1>2 DEF TrapsInOrder
  <2>2. CASE n > 0
    BY <2>2, <1>1, <1>2 DEF TrapsInOrder
  <2> QED
    BY <1>1, <2>1, <2>2
<1>5. ASSUME NEW i \in 1 .. n
      PROVE  frames'[i].below + frames'[i].etraps = frames'[i + 1].below
  <2>1. CASE i = n
    BY <2>1, <1>1, <1>2 DEF TrapsInOrder
  <2>2. CASE i < n
    <3>1. i \in 1 .. n - 1 /\ i + 1 \in 1 .. n
      BY <2>2, <1>1
    <3> QED
      BY <3>1, <1>2 DEF TrapsInOrder
  <2> QED
    BY <1>1, <2>1, <2>2
<1>6. ASSUME NEW i \in 1 .. n + 1, NEW j \in 1 .. n + 1, i < j
      PROVE  frames'[i].below + frames'[i].etraps <= frames'[j].below
  <2>1. i \in 1 .. n /\ frames'[i] = frames[i]
    BY <1>1, <1>2, <1>6
  <2>2. CASE j = n + 1
    BY <2>1, <2>2, <1>2, <1>3
  <2>3. CASE j \in 1 .. n
    BY <2>1, <2>3, <1>2, <1>6 DEF TrapsInOrder
  <2> QED
    BY <1>1, <2>2, <2>3
<1> HIDE DEF n, t
<1>7. n + 1 > 0 /\ n + 1 # 0 /\ (n + 1) - 1 = n
  BY <1>1
<1> QED
  BY <1>2, <1>4, <1>5, <1>6, <1>7 DEF TrapsInOrder

\* A frame left takes its traps along, which were on top.
LEMMA LeaveTraps ==
  ASSUME TypeOK, TrapsInOrder, FrameLeft
  PROVE  TrapsInOrder'
<1> DEFINE n == Len(frames)
<1>1. n \in Nat \ {0}
  BY Sizes DEF FrameLeft
<1>2. /\ Len(frames') = n - 1 /\ Len(etraps') = frames[n].below
      /\ \A i \in 1 .. n - 1 : frames'[i] = frames[i]
  BY DEF FrameLeft
<1>3. /\ \A i \in 1 .. n - 1 : frames[i].below + frames[i].etraps = frames[i + 1].below
      /\ frames[1].below = 0
      /\ \A i, j \in 1 .. n : i < j => frames[i].below + frames[i].etraps <= frames[j].below
  BY <1>1 DEF TrapsInOrder
<1> HIDE DEF n
<1>4. Len(frames') = 0 => Len(etraps') = 0
  BY <1>1, <1>2, <1>3
<1>5. ASSUME n - 1 > 0
      PROVE  frames'[1].below = 0 /\ frames'[n - 1].below + frames'[n - 1].etraps = Len(etraps')
  <2>1. 1 \in 1 .. n - 1 /\ n - 1 \in 1 .. n - 1 /\ (n - 1) + 1 = n
    BY <1>1, <1>5
  <2> QED
    BY <2>1, <1>2, <1>3
<1>6. ASSUME NEW i \in 1 .. (n - 1) - 1
      PROVE  frames'[i].below + frames'[i].etraps = frames'[i + 1].below
  <2>1. i \in 1 .. n - 1 /\ i + 1 \in 1 .. n - 1
    BY <1>1
  <2> QED
    BY <2>1, <1>2, <1>3
<1>7. ASSUME NEW i \in 1 .. n - 1, NEW j \in 1 .. n - 1, i < j
      PROVE  frames'[i].below + frames'[i].etraps <= frames'[j].below
  <2>1. i \in 1 .. n /\ j \in 1 .. n
    BY <1>1
  <2> QED
    BY <2>1, <1>2, <1>3, <1>7
<1> QED
  BY <1>2, <1>4, <1>5, <1>6, <1>7 DEF TrapsInOrder

\* Only the last frame, whose traps are on top, pushes and pops.
LEMMA MoveTraps ==
  ASSUME TypeOK, TrapsInOrder, NEW d \in Int, TrapsMoved(d)
  PROVE  TrapsInOrder'
<1> DEFINE n == Len(frames)
<1>1. n \in Nat \ {0} /\ Len(etraps) \in Nat
  BY Sizes DEF TrapsMoved
<1>2. /\ Len(frames') = n /\ Len(etraps') = Len(etraps) + d
      /\ \A i \in 1 .. n :
           /\ frames'[i].below = frames[i].below
           /\ frames'[i].etraps = (IF i = n THEN frames[i].etraps + d ELSE frames[i].etraps)
  BY DEF TrapsMoved
<1>3. /\ \A i \in 1 .. n - 1 : frames[i].below + frames[i].etraps = frames[i + 1].below
      /\ frames[1].below = 0 /\ frames[n].below + frames[n].etraps = Len(etraps)
      /\ \A i, j \in 1 .. n : i < j => frames[i].below + frames[i].etraps <= frames[j].below
  BY <1>1 DEF TrapsInOrder
<1>4. frames[n].below \in Nat /\ frames[n].etraps \in Nat
  BY <1>1, FrameTypes
<1> HIDE DEF n
<1>5. frames'[1].below = 0 /\ frames'[n].below + frames'[n].etraps = Len(etraps')
  <2>1. 1 \in 1 .. n /\ n \in 1 .. n
    BY <1>1
  <2>2. frames'[1].below = 0
    BY <2>1, <1>2, <1>3
  <2>3. frames'[n].below = frames[n].below /\ frames'[n].etraps = frames[n].etraps + d
    BY <2>1, <1>2
  <2>4. /\ frames[n].below + frames[n].etraps = Len(etraps)
        /\ frames[n].below \in Int /\ frames[n].etraps \in Int /\ d \in Int
    BY <1>3, <1>4
  <2>5. frames[n].below + (frames[n].etraps + d) = Len(etraps) + d
    BY ONLY <2>4
  <2> QED
    BY <2>2, <2>3, <2>5, <1>2
<1>6. ASSUME NEW i \in 1 .. n - 1
      PROVE  frames'[i].below + frames'[i].etraps = frames'[i + 1].below
  <2>1. i \in 1 .. n /\ i # n /\ i + 1 \in 1 .. n
    BY <1>1
  <2> QED
    BY <2>1, <1>2, <1>3
<1>7. ASSUME NEW i \in 1 .. n, NEW j \in 1 .. n, i < j
      PROVE  frames'[i].below + frames'[i].etraps <= frames'[j].below
  <2>1. i # n
    BY <1>1, <1>7
  <2> QED
    BY <2>1, <1>2, <1>3, <1>7
<1> QED
  BY <1>1, <1>2, <1>5, <1>6, <1>7 DEF TrapsInOrder

\* EnterFrame keeps the distance to the base of the caller.
LEMMA EnterBases ==
  ASSUME TypeOK, TrapsInOrder, BasesKept, NEW f, FrameEntered(f), mode' = mode
  PROVE  BasesKept'
<1> SUFFICES ASSUME TrapsStay
             PROVE  BasesKept'
  BY DEF BasesKept, TrapsStay
<1> DEFINE n == Len(frames)
           t == Len(etraps)
<1>1. n \in Nat /\ t \in Nat /\ stackbase \in Int
  BY Sizes DEF TypeOK
<1>2. /\ f.prev \in Int /\ f.base = stackbase + f.prev /\ f.etraps = 0 /\ f.below = t
      /\ Len(frames') = n + 1 /\ stackbase' = f.base
      /\ \A i \in 1 .. n : frames'[i] = frames[i]
      /\ frames'[n + 1] = f
      /\ \A k \in 1 .. t : etraps'[k] = etraps[k]
  BY DEF FrameEntered, CallInfo
<1>3. /\ n = 0 => stackbase = 0
      /\ n > 0 => stackbase = frames[n].base /\ frames[1].base = frames[1].prev
      /\ \A i \in 1 .. n - 1 : frames[i + 1].base = frames[i].base + frames[i + 1].prev
      /\ \A i \in 1 .. n :
           \A k \in frames[i].below + 1 .. frames[i].below + frames[i].etraps : etraps[k] = frames[i].base
  BY DEF BasesKept
<1>4. \A i \in 1 .. n : /\ frames[i].below + frames[i].etraps <= t
                        /\ frames[i].below \in Nat /\ frames[i].etraps \in Nat
  BY TrapsFit, FrameTypes
<1> HIDE DEF n, t
<1>5. frames'[1].base = frames'[1].prev
  <2>1. CASE n = 0
    BY <2>1, <1>2, <1>3
  <2>2. CASE n > 0
    BY <2>2, <1>1, <1>2, <1>3
  <2> QED
    BY <1>1, <2>1, <2>2
<1>6. ASSUME NEW i \in 1 .. n
      PROVE  frames'[i + 1].base = frames'[i].base + frames'[i + 1].prev
  <2>1. CASE i = n
    BY <2>1, <1>1, <1>2, <1>3
  <2>2. CASE i < n
    <3>1. i \in 1 .. n - 1 /\ i + 1 \in 1 .. n
      BY <2>2, <1>1
    <3> QED
      BY <3>1, <1>2, <1>3
  <2> QED
    BY <1>1, <2>1, <2>2
<1>7. ASSUME NEW i \in 1 .. n + 1,
             NEW k \in frames'[i].below + 1 .. frames'[i].below + frames'[i].etraps
      PROVE  etraps'[k] = frames'[i].base
  <2>1. CASE i = n + 1
    BY <2>1, <1>1, <1>2
  <2>2. CASE i \in 1 .. n
    <3>1. k \in frames[i].below + 1 .. frames[i].below + frames[i].etraps
      BY <2>2, <1>2
    <3>2. k \in 1 .. t
      BY <2>2, <3>1, <1>1, <1>4
    <3> QED
      BY <2>2, <3>1, <3>2, <1>2, <1>3
  <2> QED
    BY <1>1, <2>1, <2>2
<1>8. n + 1 > 0 /\ n + 1 # 0 /\ (n + 1) - 1 = n
  BY <1>1
<1> QED
  BY <1>2, <1>5, <1>6, <1>7, <1>8 DEF BasesKept

\* LeaveFrame, which only subtracts that distance, comes back to it.
LEMMA LeaveBases ==
  ASSUME TypeOK, TrapsInOrder, BasesKept, FrameLeft, mode' = mode
  PROVE  BasesKept'
<1> SUFFICES ASSUME TrapsStay
             PROVE  BasesKept'
  BY DEF BasesKept, TrapsStay
<1> DEFINE n == Len(frames)
<1>1. n \in Nat \ {0}
  BY Sizes DEF FrameLeft
<1>2. /\ Len(frames') = n - 1 /\ Len(etraps') = frames[n].below
      /\ stackbase' = stackbase - frames[n].prev
      /\ \A i \in 1 .. n - 1 : frames'[i] = frames[i]
      /\ \A k \in 1 .. Len(etraps') : etraps'[k] = etraps[k]
  BY DEF FrameLeft
<1>3. /\ stackbase = frames[n].base /\ frames[1].base = frames[1].prev
      /\ \A i \in 1 .. n - 1 : frames[i + 1].base = frames[i].base + frames[i + 1].prev
      /\ \A i \in 1 .. n :
           \A k \in frames[i].below + 1 .. frames[i].below + frames[i].etraps : etraps[k] = frames[i].base
  BY <1>1 DEF BasesKept
<1>4. \A i \in 1 .. n : /\ frames[i].below \in Nat /\ frames[i].etraps \in Nat
                        /\ frames[i].base \in Int /\ frames[i].prev \in Int
  BY FrameTypes
<1>5. \A i \in 1 .. n - 1 : frames[i].below + frames[i].etraps <= frames[n].below
  BY <1>1 DEF TrapsInOrder
<1> HIDE DEF n
<1>6. n - 1 = 0 => stackbase' = 0
  BY <1>1, <1>2, <1>3, <1>4
<1>7. ASSUME n - 1 > 0
      PROVE  stackbase' = frames'[n - 1].base /\ frames'[1].base = frames'[1].prev
  <2>1. 1 \in 1 .. n - 1 /\ n - 1 \in 1 .. n - 1 /\ (n - 1) + 1 = n
    BY <1>1, <1>7
  <2>2. frames[n].base = frames[n - 1].base + frames[n].prev
    BY <2>1, <1>3
  <2>3. frames[n - 1].base \in Int /\ frames[n].prev \in Int
    BY <2>1, <1>1, <1>4
  <2> QED
    BY <2>1, <2>2, <2>3, <1>2, <1>3
<1>8. ASSUME NEW i \in 1 .. (n - 1) - 1
      PROVE  frames'[i + 1].base = frames'[i].base + frames'[i + 1].prev
  <2>1. i \in 1 .. n - 1 /\ i + 1 \in 1 .. n - 1
    BY <1>1
  <2> QED
    BY <2>1, <1>2, <1>3
<1>9. ASSUME NEW i \in 1 .. n - 1,
             NEW k \in frames'[i].below + 1 .. frames'[i].below + frames'[i].etraps
      PROVE  etraps'[k] = frames'[i].base
  <2>1. i \in 1 .. n /\ n \in 1 .. n
    BY <1>1
  <2>2. k \in frames[i].below + 1 .. frames[i].below + frames[i].etraps
    BY <1>2
  <2>3. /\ frames[i].below + frames[i].etraps <= Len(etraps')
        /\ frames[i].below \in Nat /\ frames[i].etraps \in Nat /\ Len(etraps') \in Nat
    BY <2>1, <1>1, <1>2, <1>4, <1>5
  <2>4. k \in 1 .. Len(etraps')
    BY ONLY <2>2, <2>3
  <2> QED
    BY <2>1, <2>2, <2>4, <1>2, <1>3
<1> QED
  BY <1>2, <1>6, <1>7, <1>8, <1>9 DEF BasesKept

\* A trap pushed keeps the base of its frame, so one popped leads back to it.
LEMMA MoveBases ==
  ASSUME TypeOK, TrapsInOrder, BasesKept, NEW d \in Int, TrapsMoved(d), mode' = mode,
         \/ d = 1 /\ stackbase' = stackbase /\ etraps'[Len(etraps) + 1] = stackbase
         \/ d = -1 /\ stackbase' \in {stackbase, etraps[Len(etraps)]}
  PROVE  BasesKept'
<1> SUFFICES ASSUME TrapsStay
             PROVE  BasesKept'
  BY DEF BasesKept, TrapsStay
<1> DEFINE n == Len(frames)
           t == Len(etraps)
<1>1. n \in Nat \ {0} /\ t \in Nat
  BY Sizes DEF TrapsMoved
<1>2. /\ Len(frames') = n /\ Len(etraps') = t + d
      /\ \A i \in 1 .. n :
           /\ frames'[i].prev = frames[i].prev /\ frames'[i].base = frames[i].base
           /\ frames'[i].below = frames[i].below
           /\ frames'[i].etraps = (IF i = n THEN frames[i].etraps + d ELSE frames[i].etraps)
      /\ \A k \in 1 .. t : k <= Len(etraps') => etraps'[k] = etraps[k]
      /\ frames[n].etraps + d \in Nat
  BY DEF TrapsMoved
<1>3. /\ stackbase = frames[n].base /\ frames[1].base = frames[1].prev
      /\ \A i \in 1 .. n - 1 : frames[i + 1].base = frames[i].base + frames[i + 1].prev
      /\ \A i \in 1 .. n :
           \A k \in frames[i].below + 1 .. frames[i].below + frames[i].etraps : etraps[k] = frames[i].base
  BY <1>1 DEF BasesKept
<1>4. \A i \in 1 .. n : frames[i].below \in Nat /\ frames[i].etraps \in Nat
  BY FrameTypes
<1>5. /\ \A i \in 1 .. n - 1 : frames[i].below + frames[i].etraps <= frames[n].below
      /\ frames[n].below + frames[n].etraps = t
  BY <1>1 DEF TrapsInOrder
<1>6. \/ d = 1 /\ stackbase' = stackbase /\ etraps'[t + 1] = stackbase
      \/ d = -1 /\ stackbase' \in {stackbase, etraps[t]}
  OBVIOUS
<1> HIDE DEF n, t
<1>7. n \in 1 .. n /\ 1 \in 1 .. n
  BY <1>1
<1>8. stackbase' = frames'[n].base
  <2>1. CASE d = 1
    BY <2>1, <1>2, <1>3, <1>6, <1>7
  <2>2. CASE d = -1
    <3>1. t \in frames[n].below + 1 .. frames[n].below + frames[n].etraps
      BY <2>2, <1>1, <1>2, <1>4, <1>5, <1>7
    <3>2. etraps[t] = frames[n].base
      BY <3>1, <1>3, <1>7
    <3> QED
      BY <2>2, <3>2, <1>2, <1>3, <1>6, <1>7
  <2> QED
    BY <1>6, <2>1, <2>2
<1>9. ASSUME NEW i \in 1 .. n - 1
      PROVE  frames'[i + 1].base = frames'[i].base + frames'[i + 1].prev
  <2>1. i \in 1 .. n /\ i + 1 \in 1 .. n
    BY <1>1
  <2> QED
    BY <2>1, <1>2, <1>3
<1>10. ASSUME NEW i \in 1 .. n,
              NEW k \in frames'[i].below + 1 .. frames'[i].below + frames'[i].etraps
       PROVE  etraps'[k] = frames'[i].base
  <2>1. CASE i < n
    <3>1. i \in 1 .. n - 1 /\ i # n
      BY <2>1, <1>1
    <3>2. k \in frames[i].below + 1 .. frames[i].below + frames[i].etraps
      BY <3>1, <1>2
    <3>3. /\ frames[i].below + frames[i].etraps <= frames[n].below
          /\ frames[n].below <= t /\ frames[n].below <= t + d
          /\ frames[i].below \in Nat /\ frames[i].etraps \in Nat
          /\ frames[n].below \in Nat
      <4>1. frames[n].below \in Nat /\ frames[n].etraps \in Nat /\ frames[n].etraps + d \in Nat /\ d \in Int
        BY <1>2, <1>4, <1>7
      <4>2. frames[n].below + frames[n].etraps = t
        BY <1>5
      <4>3. frames[n].below <= t /\ frames[n].below <= t + d
        BY ONLY <4>1, <4>2
      <4> QED
        BY <3>1, <4>1, <4>3, <1>4, <1>5
    <3>4. k \in 1 .. t /\ k <= t + d
      BY ONLY <3>2, <3>3, <1>1, <1>6
    <3> QED
      BY <3>2, <3>4, <1>2, <1>3
  <2>2. CASE i = n
    <3>1. k \in frames[n].below + 1 .. t + d
      <4>1. frames'[n].below = frames[n].below /\ frames'[n].etraps = frames[n].etraps + d
        BY <1>2, <1>7
      <4>2. /\ frames[n].below + frames[n].etraps = t
            /\ frames[n].below \in Int /\ frames[n].etraps \in Int /\ d \in Int
        BY <1>4, <1>5, <1>7
      <4>3. frames[n].below + (frames[n].etraps + d) = t + d
        BY ONLY <4>2
      <4> QED
        BY <2>2, <4>1, <4>3
    <3>2. CASE k <= t
      <4>1. k \in frames[n].below + 1 .. frames[n].below + frames[n].etraps /\ k \in 1 .. t
        BY <3>1, <3>2, <1>1, <1>4, <1>5, <1>7
      <4> QED
        BY <2>2, <3>1, <4>1, <1>2, <1>3, <1>7
    <3>3. CASE k > t
      <4>1. k = t + 1 /\ d = 1
        BY <3>1, <3>3, <1>1, <1>6
      <4> QED
        BY <2>2, <4>1, <1>2, <1>3, <1>6, <1>7
    <3> QED
      BY <3>1, <3>2, <3>3, <1>1
  <2> QED
    BY <1>1, <2>1, <2>2
<1> QED
  BY <1>1, <1>2, <1>3, <1>7, <1>8, <1>9, <1>10 DEF BasesKept

\* Calls that stay find the bases they found.
LEMMA CallersStay ==
  ASSUME TypeOK, Nested, CallersKept, mode' = mode,
         Len(ctl') \in 0 .. Len(ctl),
         \A k \in 1 .. Len(ctl') : ctl'[k].depth = ctl[k].depth /\ ctl'[k].base = ctl[k].base,
         \A i \in 1 .. Len(frames) - 1 : frames'[i].base = frames[i].base
  PROVE  CallersKept'
<1> SUFFICES ASSUME TrapsStay, NEW k \in 1 .. Len(ctl')
             PROVE  /\ ctl'[k].depth = 0 => ctl'[k].base = 0
                    /\ ctl'[k].depth > 0 => ctl'[k].base = frames'[ctl'[k].depth].base
  BY DEF CallersKept, TrapsStay
<1>1. Len(ctl) \in Nat /\ Len(frames) \in Nat
  BY Sizes
<1>2. k \in 1 .. Len(ctl)
  BY <1>1
<1>3. ctl[k].depth \in Nat /\ ctl[k].depth < Len(frames)
  BY <1>2, CallTypes DEF Nested
<1>4. /\ ctl[k].depth = 0 => ctl[k].base = 0
      /\ ctl[k].depth > 0 => ctl[k].base = frames[ctl[k].depth].base
  BY <1>2 DEF CallersKept
<1>5. ctl'[k].depth = ctl[k].depth /\ ctl'[k].base = ctl[k].base
  OBVIOUS
<1>6. ctl[k].depth > 0 => ctl[k].depth \in 1 .. Len(frames) - 1
  BY <1>1, <1>3
<1> QED
  BY <1>4, <1>5, <1>6

\* A new activation finds what is there.
LEMMA BeginCallers ==
  ASSUME TypeOK, Nested, CallersKept, BasesKept, mode' = mode,
         NEW native, NEW m, CallBegun(native, m), NEW f, FrameEntered(f)
  PROVE  CallersKept'
<1> SUFFICES ASSUME TrapsStay, NEW k \in 1 .. Len(ctl')
             PROVE  /\ ctl'[k].depth = 0 => ctl'[k].base = 0
                    /\ ctl'[k].depth > 0 => ctl'[k].base = frames'[ctl'[k].depth].base
  BY DEF CallersKept, TrapsStay
<1> DEFINE n == Len(frames)
<1>1. Len(ctl) \in Nat /\ n \in Nat
  BY Sizes
<1>2. /\ Len(ctl') = Len(ctl) + 1
      /\ \A l \in 1 .. Len(ctl) : ctl'[l] = ctl[l]
      /\ ctl'[Len(ctl) + 1].depth = n /\ ctl'[Len(ctl) + 1].base = stackbase
  BY DEF CallBegun
<1>3. \A i \in 1 .. n : frames'[i] = frames[i]
  BY DEF FrameEntered
<1>4. (n = 0 => stackbase = 0) /\ (n > 0 => stackbase = frames[n].base)
  BY DEF BasesKept
<1>5. CASE k = Len(ctl) + 1
  <2>1. ctl'[k].depth = n /\ ctl'[k].base = stackbase
    BY <1>2, <1>5
  <2>2. n > 0 => frames'[n] = frames[n]
    BY <1>1, <1>3
  <2> QED
    BY <2>1, <2>2, <1>4
<1>6. CASE k \in 1 .. Len(ctl)
  <2>1. ctl[k].depth \in Nat /\ ctl[k].depth < n
    BY <1>6, CallTypes DEF Nested
  <2>2. /\ ctl[k].depth = 0 => ctl[k].base = 0
        /\ ctl[k].depth > 0 => ctl[k].base = frames[ctl[k].depth].base
    BY <1>6 DEF CallersKept
  <2>3. ctl[k].depth > 0 => ctl[k].depth \in 1 .. n
    BY <1>1, <2>1
  <2> QED
    BY <1>2, <1>3, <1>6, <2>2, <2>3
<1> QED
  BY <1>1, <1>2, <1>5, <1>6

(***************************************************************************)
(* Which frames belong to which activation                                 *)
(***************************************************************************)
\* Activations that stay keep their places while the innermost keeps a frame.
LEMMA NestedStays ==
  ASSUME TypeOK, Nested, suspended' = suspended,
         Len(ctl') = Len(ctl),
         \A k \in 1 .. Len(ctl) : ctl'[k].native = ctl[k].native /\ ctl'[k].depth = ctl[k].depth,
         Len(frames') \in Nat,
         Len(ctl) > 0 => ctl[Len(ctl)].depth < Len(frames'),
         Len(ctl) = 0 \/ ctl[Len(ctl)].native => Len(frames') = Len(frames),
         raising' => InScript
  PROVE  Nested'
<1> DEFINE n == Len(frames)
           c == Len(ctl)
           m == Len(frames')
<1>1. n \in Nat /\ c \in Nat /\ m \in Nat
  BY Sizes
<1>2. /\ Len(ctl') = c
      /\ \A k \in 1 .. c : ctl'[k].native = ctl[k].native /\ ctl'[k].depth = ctl[k].depth
      /\ c > 0 => ctl[c].depth < m
      /\ c = 0 \/ ctl[c].native => m = n
  OBVIOUS
<1>3. \A k \in 1 .. c : ctl[k].depth \in Nat
  BY CallTypes
<1>4. /\ \A k, l \in 1 .. c : k < l => ctl[k].depth < ctl[l].depth
      /\ \A k \in 1 .. c - 1 : /\ ctl[k].native <=> ~ctl[k + 1].native
                               /\ ctl[k].native => ctl[k + 1].depth = ctl[k].depth + 1
      /\ c > 0 => /\ ~ctl[1].native
                  /\ ctl[c].native => n = ctl[c].depth + 1
                  /\ suspended <=> ctl[1].depth > 0
      /\ c = 0 => suspended \/ n = 0
      /\ suspended => n > 0
  BY DEF Nested
<1>5. InScript => c > 0 /\ ~ctl[c].native
  BY SeqFacts DEF InScript, Last, TypeOK
<1> HIDE DEF n, c, m
<1>6. ASSUME NEW k \in 1 .. c
      PROVE  ctl'[k].depth < m
  <2>1. c \in 1 .. c /\ (k = c \/ k < c)
    BY <1>1
  <2>2. ctl[k].depth \in Nat /\ ctl[c].depth \in Nat /\ ctl[c].depth < m
    BY <2>1, <1>1, <1>2, <1>3
  <2>3. k = c \/ ctl[k].depth < ctl[c].depth
    BY <2>1, <1>4
  <2>4. ctl[k].depth < m
    <3>1. CASE k = c
      BY <3>1, <2>2
    <3>2. CASE ctl[k].depth < ctl[c].depth
      BY <3>2, <2>2, <1>1
    <3> QED
      BY <2>3, <3>1, <3>2
  <2> QED
    BY <2>4, <1>2
<1>7. \A k, l \in 1 .. c : k < l => ctl'[k].depth < ctl'[l].depth
  BY <1>2, <1>4
<1>8. ASSUME NEW k \in 1 .. c - 1
      PROVE  /\ ctl'[k].native <=> ~ctl'[k + 1].native
             /\ ctl'[k].native => ctl'[k + 1].depth = ctl'[k].depth + 1
  <2>1. k \in 1 .. c /\ k + 1 \in 1 .. c
    BY <1>1
  <2> QED
    BY <2>1, <1>2, <1>4
<1>9. ASSUME c > 0
      PROVE  /\ ~ctl'[1].native
             /\ ctl'[c].native => m = ctl'[c].depth + 1
             /\ suspended' <=> ctl'[1].depth > 0
  <2>1. 1 \in 1 .. c /\ c \in 1 .. c
    BY <1>1, <1>9
  <2> QED
    BY <2>1, <1>2, <1>4, <1>9
<1>10. suspended' => m > 0
  <2>1. CASE c = 0
    BY <2>1, <1>2, <1>4
  <2>2. CASE c > 0
    <3>1. ctl[c].depth < m /\ ctl[c].depth \in Nat
      BY <2>2, <1>1, <1>2, <1>3
    <3> QED
      BY <3>1, <1>1
  <2> QED
    BY <1>1, <2>1, <2>2
<1>11. c = 0 => suspended' \/ m = 0
  BY <1>2, <1>4
<1>12. raising' => c > 0 /\ ~ctl'[c].native
  BY <1>1, <1>2, <1>5
<1> QED
  BY <1>2, <1>6, <1>7, <1>8, <1>9, <1>10, <1>11, <1>12 DEF Nested, m

\* A script calls a native function, anything else a script, on top of what runs.
LEMMA BeginNested ==
  ASSUME TypeOK, Nested, suspended' = suspended, raising' = FALSE,
         NEW native \in BOOLEAN, NEW q, CallBegun(native, q), native <=> InScript,
         Len(frames') = Len(frames) + 1
  PROVE  Nested'
<1> DEFINE n == Len(frames)
           c == Len(ctl)
<1>1. n \in Nat /\ c \in Nat
  BY Sizes
<1>2. /\ Len(ctl') = c + 1 /\ Len(frames') = n + 1
      /\ \A k \in 1 .. c : ctl'[k] = ctl[k]
      /\ ctl'[c + 1].native = native /\ ctl'[c + 1].depth = n
  BY DEF CallBegun
<1>3. \A k \in 1 .. c : ctl[k].depth \in Nat
  BY CallTypes
<1>4. /\ \A k \in 1 .. c : ctl[k].depth < n
      /\ \A k, l \in 1 .. c : k < l => ctl[k].depth < ctl[l].depth
      /\ \A k \in 1 .. c - 1 : /\ ctl[k].native <=> ~ctl[k + 1].native
                               /\ ctl[k].native => ctl[k + 1].depth = ctl[k].depth + 1
      /\ c > 0 => /\ ~ctl[1].native
                  /\ ctl[c].native => n = ctl[c].depth + 1
                  /\ suspended <=> ctl[1].depth > 0
      /\ c = 0 => suspended \/ n = 0
      /\ suspended => n > 0
  BY DEF Nested
<1>5. native <=> c > 0 /\ ~ctl[c].native
  BY SeqFacts DEF InScript, Last, TypeOK
<1> HIDE DEF n, c
<1>6. ASSUME NEW k \in 1 .. c + 1
      PROVE  ctl'[k].depth < n + 1
  <2>1. CASE k = c + 1
    BY <2>1, <1>1, <1>2
  <2>2. CASE k \in 1 .. c
    <3>1. ctl[k].depth \in Nat /\ ctl[k].depth < n
      BY <2>2, <1>3, <1>4
    <3> QED
      BY <2>2, <3>1, <1>1, <1>2
  <2> QED
    BY <1>1, <2>1, <2>2
<1>7. ASSUME NEW k \in 1 .. c + 1, NEW l \in 1 .. c + 1, k < l
      PROVE  ctl'[k].depth < ctl'[l].depth
  <2>1. k \in 1 .. c
    BY <1>1, <1>7
  <2>2. CASE l = c + 1
    BY <2>1, <2>2, <1>2, <1>4
  <2>3. CASE l \in 1 .. c
    BY <2>1, <2>3, <1>2, <1>4, <1>7
  <2> QED
    BY <1>1, <2>2, <2>3
<1>8. ASSUME NEW k \in 1 .. c
      PROVE  /\ ctl'[k].native <=> ~ctl'[k + 1].native
             /\ ctl'[k].native => ctl'[k + 1].depth = ctl'[k].depth + 1
  <2>1. CASE k = c
    <3>1. c > 0
      BY <2>1, <1>1
    <3> QED
      BY <2>1, <3>1, <1>2, <1>4, <1>5
  <2>2. CASE k < c
    <3>1. k \in 1 .. c - 1 /\ k + 1 \in 1 .. c
      BY <2>2, <1>1
    <3> QED
      BY <3>1, <1>2, <1>4
  <2> QED
    BY <1>1, <2>1, <2>2
<1>9. /\ ~ctl'[1].native
      /\ ctl'[c + 1].native => n + 1 = ctl'[c + 1].depth + 1
      /\ suspended' <=> ctl'[1].depth > 0
  <2>1. CASE c = 0
    BY <2>1, <1>1, <1>2, <1>4, <1>5
  <2>2. CASE c > 0
    <3>1. 1 \in 1 .. c
      BY <2>2, <1>1
    <3> QED
      BY <2>2, <3>1, <1>2, <1>4
  <2> QED
    BY <1>1, <2>1, <2>2
<1>10. n + 1 > 0 /\ c + 1 > 0 /\ c + 1 # 0 /\ (c + 1) - 1 = c
  BY <1>1
<1> QED
  BY <1>2, <1>6, <1>7, <1>8, <1>9, <1>10 DEF Nested

\* The innermost activation ends; the one below it has the last frame again.
LEMMA EndNested ==
  ASSUME TypeOK, Nested, suspended' = suspended, CallEnded,
         Len(frames') = Len(frames) - 1,
         ctl[Len(ctl)].depth = Len(frames) - 1,
         raising' => ctl[Len(ctl)].native
  PROVE  Nested'
<1> DEFINE n == Len(frames)
           c == Len(ctl)
<1>1. n \in Nat \ {0} /\ c \in Nat \ {0}
  BY Sizes DEF CallEnded, Nested
<1>2. /\ Len(ctl') = c - 1 /\ Len(frames') = n - 1
      /\ \A k \in 1 .. c - 1 : ctl'[k] = ctl[k]
      /\ ctl[c].depth = n - 1
  BY DEF CallEnded
<1>3. \A k \in 1 .. c : ctl[k].depth \in Nat
  BY CallTypes
<1>4. /\ \A k, l \in 1 .. c : k < l => ctl[k].depth < ctl[l].depth
      /\ \A k \in 1 .. c - 1 : /\ ctl[k].native <=> ~ctl[k + 1].native
                               /\ ctl[k].native => ctl[k + 1].depth = ctl[k].depth + 1
      /\ ~ctl[1].native
      /\ suspended <=> ctl[1].depth > 0
  BY <1>1 DEF Nested
<1>5. raising' => ctl[c].native
  OBVIOUS
<1> HIDE DEF n, c
<1>6. ASSUME NEW k \in 1 .. c - 1
      PROVE  ctl'[k].depth < n - 1
  <2>1. k \in 1 .. c /\ c \in 1 .. c /\ k < c
    BY <1>1
  <2> QED
    BY <2>1, <1>2, <1>4
<1>7. ASSUME NEW k \in 1 .. c - 1, NEW l \in 1 .. c - 1, k < l
      PROVE  ctl'[k].depth < ctl'[l].depth
  <2>1. k \in 1 .. c /\ l \in 1 .. c
    BY <1>1
  <2> QED
    BY <2>1, <1>2, <1>4, <1>7
<1>8. ASSUME NEW k \in 1 .. (c - 1) - 1
      PROVE  /\ ctl'[k].native <=> ~ctl'[k + 1].native
             /\ ctl'[k].native => ctl'[k + 1].depth = ctl'[k].depth + 1
  <2>1. k \in 1 .. c - 1 /\ k + 1 \in 1 .. c - 1
    BY <1>1
  <2> QED
    BY <2>1, <1>2, <1>4
<1>9. ASSUME c - 1 > 0
      PROVE  /\ ~ctl'[1].native
             /\ ctl'[c - 1].native => n - 1 = ctl'[c - 1].depth + 1
             /\ suspended' <=> ctl'[1].depth > 0
             /\ n - 1 > 0
  <2>1. 1 \in 1 .. c - 1 /\ c - 1 \in 1 .. c - 1 /\ (c - 1) + 1 = c /\ c - 1 \in 1 .. c
    BY <1>1, <1>9
  <2>2. ctl[c - 1].native => ctl[c].depth = ctl[c - 1].depth + 1
    BY <2>1, <1>4
  <2>3. ctl'[1] = ctl[1] /\ ctl'[c - 1] = ctl[c - 1]
    BY <2>1, <1>2
  <2>4. ctl'[c - 1].native => n - 1 = ctl'[c - 1].depth + 1
    BY <2>2, <2>3, <1>2
  <2>5. n - 1 > 0
    BY <1>1, <1>9, <1>2, <1>3, <1>6, <2>1, <2>3
  <2> QED
    BY <2>3, <2>4, <2>5, <1>4
<1>10. c - 1 = 0 => ((suspended' \/ n - 1 = 0) /\ (suspended' => n - 1 > 0))
  <2>1. ASSUME c = 1
        PROVE  suspended <=> n - 1 > 0
    BY <2>1, <1>2, <1>4
  <2> QED
    BY <2>1, <1>1
<1>11. raising' => c - 1 > 0 /\ ~ctl'[c - 1].native
  <2>1. SUFFICES ASSUME ctl[c].native
                 PROVE  c - 1 > 0 /\ ~ctl'[c - 1].native
    BY <1>5
  <2>2. c # 1
    BY <2>1, <1>4
  <2>3. c - 1 \in 1 .. c - 1 /\ (c - 1) + 1 = c /\ c - 1 > 0
    BY <2>2, <1>1
  <2> QED
    BY <2>1, <2>3, <1>2, <1>4
<1>12. c - 1 = 0 \/ c - 1 > 0
  BY <1>1
<1> QED
  BY <1>2, <1>6, <1>7, <1>8, <1>9, <1>10, <1>11, <1>12 DEF Nested

\* A script that runs does so in the last frame, not that of a native function,
\* which is a root exactly when it is the first of its activation.
LEMMA ScriptOnTop ==
  ASSUME TypeOK, Nested, RootsPlaced, InScript
  PROVE  /\ Len(ctl) \in Nat \ {0} /\ Len(frames) \in Nat \ {0}
         /\ ~ctl[Len(ctl)].native
         /\ ctl[Len(ctl)].depth \in Nat /\ ctl[Len(ctl)].depth < Len(frames)
         /\ ci = frames[Len(frames)] /\ ~frames[Len(frames)].native
         /\ frames[Len(frames)].root <=> ctl[Len(ctl)].depth = Len(frames) - 1
<1> DEFINE n == Len(frames)
           c == Len(ctl)
<1>1. c \in Nat \ {0} /\ ~ctl[c].native
  BY SeqFacts DEF InScript, Last, TypeOK
<1>2. ctl[c].depth \in Nat /\ ctl[c].depth < n /\ n \in Nat
  BY <1>1, CallTypes, Sizes DEF Nested
<1>3. /\ \A k, l \in 1 .. c : k < l => ctl[k].depth < ctl[l].depth
      /\ suspended <=> ctl[1].depth > 0
      /\ \A k \in 1 .. c : ctl[k].depth \in Nat
  BY <1>1, CallTypes DEF Nested
<1>4. n \in 1 .. n
  BY <1>2
<1>5. /\ frames[n].root <=> \/ \E k \in 1 .. c : ~ctl[k].native /\ ctl[k].depth = n - 1
                            \/ suspended /\ n = 1
      /\ frames[n].native <=> \E k \in 1 .. c : ctl[k].native /\ ctl[k].depth = n - 1
  BY <1>4 DEF RootsPlaced
<1>6. ci = frames[n]
  BY DEF ci, Last
<1> HIDE DEF n, c
<1>7. ASSUME NEW k \in 1 .. c, ctl[k].depth = n - 1
      PROVE  k = c
  <2>1. ASSUME k < c
        PROVE  FALSE
    <3>1. c \in 1 .. c
      BY <1>1
    <3>2. ctl[k].depth < ctl[c].depth
      BY <2>1, <3>1, <1>3
    <3> QED
      BY <3>2, <1>2, <1>7
  <2> QED
    BY <2>1, <1>1
<1>8. ~(suspended /\ n = 1)
  <2>1. ASSUME suspended
        PROVE  ctl[c].depth > 0
    <3>1. ctl[1].depth > 0 /\ 1 \in 1 .. c /\ c \in 1 .. c /\ (c = 1 \/ 1 < c)
      BY <2>1, <1>1, <1>3
    <3>2. c = 1 \/ ctl[1].depth < ctl[c].depth
      BY <3>1, <1>3
    <3>3. ctl[1].depth \in Nat
      BY <3>1, <1>3
    <3> QED
      BY <3>1, <3>2, <3>3, <1>2
  <2> QED
    BY <2>1, <1>2
<1>9. ~frames[n].native
  BY <1>1, <1>5, <1>7
<1>10. frames[n].root <=> ctl[c].depth = n - 1
  <2>1. c \in 1 .. c
    BY <1>1
  <2> QED
    BY <2>1, <1>1, <1>5, <1>7, <1>8
<1>11. n # 0
  BY <1>2
<1> QED
  BY <1>1, <1>2, <1>6, <1>9, <1>10, <1>11 DEF n, c

\* Roots stay where activations stay; of the frames the last may go or come.
LEMMA RootsStayPlaced ==
  ASSUME TypeOK, RootsPlaced, suspended' = suspended,
         Len(ctl') = Len(ctl),
         \A k \in 1 .. Len(ctl) : ctl'[k].native = ctl[k].native /\ ctl'[k].depth = ctl[k].depth,
         Len(frames') \in 0 .. Len(frames),
         \A i \in 1 .. Len(frames') :
           /\ frames'[i].root = frames[i].root /\ frames'[i].native = frames[i].native
           /\ frames'[i].gen = frames[i].gen
           /\ frames'[i].etraps = frames[i].etraps \/ ~frames[i].native
  PROVE  RootsPlaced'
<1> SUFFICES ASSUME NEW i \in 1 .. Len(frames')
             PROVE  /\ frames'[i].root <=>
                         \/ \E k \in 1 .. Len(ctl') : ~ctl'[k].native /\ ctl'[k].depth = i - 1
                         \/ suspended' /\ i = 1
                    /\ frames'[i].native <=> \E k \in 1 .. Len(ctl') : ctl'[k].native /\ ctl'[k].depth = i - 1
                    /\ frames'[i].native => frames'[i].etraps = 0 /\ frames'[i].gen = NoGen
  BY DEF RootsPlaced
<1>1. i \in 1 .. Len(frames)
  BY Sizes
<1>2. /\ frames[i].root <=> \/ \E k \in 1 .. Len(ctl) : ~ctl[k].native /\ ctl[k].depth = i - 1
                            \/ suspended /\ i = 1
      /\ frames[i].native <=> \E k \in 1 .. Len(ctl) : ctl[k].native /\ ctl[k].depth = i - 1
      /\ frames[i].native => frames[i].etraps = 0 /\ frames[i].gen = NoGen
  BY <1>1 DEF RootsPlaced
<1>3. /\ frames'[i].root = frames[i].root /\ frames'[i].native = frames[i].native
      /\ frames'[i].gen = frames[i].gen
      /\ frames'[i].etraps = frames[i].etraps \/ ~frames[i].native
  OBVIOUS
<1>4. /\ (\E k \in 1 .. Len(ctl') : ~ctl'[k].native /\ ctl'[k].depth = i - 1)
           <=> \E k \in 1 .. Len(ctl) : ~ctl[k].native /\ ctl[k].depth = i - 1
      /\ (\E k \in 1 .. Len(ctl') : ctl'[k].native /\ ctl'[k].depth = i - 1)
           <=> \E k \in 1 .. Len(ctl) : ctl[k].native /\ ctl[k].depth = i - 1
  OBVIOUS
<1>5. suspended' = suspended
  OBVIOUS
<1> QED
  BY ONLY <1>2, <1>3, <1>4, <1>5

\* A frame that continues an activation is not its first.
LEMMA EnterRoots ==
  ASSUME TypeOK, Nested, RootsPlaced, suspended' = suspended, Len(ctl) > 0,
         Len(ctl') = Len(ctl),
         \A k \in 1 .. Len(ctl) : ctl'[k].native = ctl[k].native /\ ctl'[k].depth = ctl[k].depth,
         NEW f, FrameEntered(f), ~f.root, ~f.native
  PROVE  RootsPlaced'
<1> DEFINE n == Len(frames)
           c == Len(ctl)
<1>1. n \in Nat /\ c \in Nat
  BY Sizes
<1>2. /\ Len(frames') = n + 1
      /\ \A i \in 1 .. n : frames'[i] = frames[i]
      /\ frames'[n + 1] = f
      /\ Len(ctl') = c
      /\ \A k \in 1 .. c : ctl'[k].native = ctl[k].native /\ ctl'[k].depth = ctl[k].depth
  BY DEF FrameEntered
<1>3. /\ \A k \in 1 .. c : ctl[k].depth < n
      /\ suspended => n > 0
  BY DEF Nested
<1>4. \A i \in 1 .. n :
        /\ frames[i].root <=> \/ \E k \in 1 .. c : ~ctl[k].native /\ ctl[k].depth = i - 1
                              \/ suspended /\ i = 1
        /\ frames[i].native <=> \E k \in 1 .. c : ctl[k].native /\ ctl[k].depth = i - 1
        /\ frames[i].native => frames[i].etraps = 0 /\ frames[i].gen = NoGen
  BY DEF RootsPlaced
<1> HIDE DEF n, c
<1>5. ASSUME NEW i \in 1 .. n + 1
      PROVE  /\ frames'[i].root <=> \/ \E k \in 1 .. c : ~ctl'[k].native /\ ctl'[k].depth = i - 1
                                    \/ suspended' /\ i = 1
             /\ frames'[i].native <=> \E k \in 1 .. c : ctl'[k].native /\ ctl'[k].depth = i - 1
             /\ frames'[i].native => frames'[i].etraps = 0 /\ frames'[i].gen = NoGen
  <2>1. CASE i \in 1 .. n
    BY <2>1, <1>2, <1>4
  <2>2. CASE i = n + 1
    <3>1. \A k \in 1 .. c : ctl'[k].depth # i - 1
      BY <2>2, <1>1, <1>2, <1>3
    <3>2. ~(suspended' /\ i = 1)
      BY <2>2, <1>1, <1>3
    <3> QED
      BY <2>2, <3>1, <3>2, <1>2
  <2> QED
    BY <1>1, <2>1, <2>2
<1> QED
  BY <1>2, <1>5 DEF RootsPlaced

\* The frame an activation begins with is its first.
LEMMA BeginRoots ==
  ASSUME TypeOK, Nested, RootsPlaced, suspended' = suspended,
         NEW f, FrameEntered(f), f.root <=> ~f.native,
         NEW q, CallBegun(f.native, q)
  PROVE  RootsPlaced'
<1> DEFINE n == Len(frames)
           c == Len(ctl)
<1>1. n \in Nat /\ c \in Nat
  BY Sizes
<1>2. /\ Len(frames') = n + 1
      /\ \A i \in 1 .. n : frames'[i] = frames[i]
      /\ frames'[n + 1] = f
      /\ f.native \in BOOLEAN /\ f.root \in BOOLEAN
      /\ f.native => f.etraps = 0 /\ f.gen = NoGen
  BY DEF FrameEntered, CallInfo
<1>3. /\ Len(ctl') = c + 1
      /\ \A k \in 1 .. c : ctl'[k] = ctl[k]
      /\ ctl'[c + 1].native = f.native /\ ctl'[c + 1].depth = n
  BY DEF CallBegun
<1>4. /\ \A k \in 1 .. c : ctl[k].depth < n
      /\ suspended => n > 0
  BY DEF Nested
<1>5. \A i \in 1 .. n :
        /\ frames[i].root <=> \/ \E k \in 1 .. c : ~ctl[k].native /\ ctl[k].depth = i - 1
                              \/ suspended /\ i = 1
        /\ frames[i].native <=> \E k \in 1 .. c : ctl[k].native /\ ctl[k].depth = i - 1
        /\ frames[i].native => frames[i].etraps = 0 /\ frames[i].gen = NoGen
  BY DEF RootsPlaced
<1> HIDE DEF n, c
<1>6. c + 1 \in 1 .. c + 1 /\ \A k \in 1 .. c + 1 : k \in 1 .. c \/ k = c + 1
  BY <1>1
<1>7. ASSUME NEW i \in 1 .. n + 1
      PROVE  /\ frames'[i].root <=> \/ \E k \in 1 .. c + 1 : ~ctl'[k].native /\ ctl'[k].depth = i - 1
                                    \/ suspended' /\ i = 1
             /\ frames'[i].native <=> \E k \in 1 .. c + 1 : ctl'[k].native /\ ctl'[k].depth = i - 1
             /\ frames'[i].native => frames'[i].etraps = 0 /\ frames'[i].gen = NoGen
  <2>1. CASE i \in 1 .. n
    <3>1. ctl'[c + 1].depth # i - 1
      BY <2>1, <1>1, <1>3
    <3>2. \A k \in 1 .. c : k \in 1 .. c + 1 /\ ctl'[k] = ctl[k]
      BY <1>1, <1>3
    <3>3. /\ (\E k \in 1 .. c + 1 : ~ctl'[k].native /\ ctl'[k].depth = i - 1)
               <=> \E k \in 1 .. c : ~ctl[k].native /\ ctl[k].depth = i - 1
          /\ (\E k \in 1 .. c + 1 : ctl'[k].native /\ ctl'[k].depth = i - 1)
               <=> \E k \in 1 .. c : ctl[k].native /\ ctl[k].depth = i - 1
      BY <3>1, <3>2, <1>6
    <3> QED
      BY <2>1, <3>3, <1>2, <1>5
  <2>2. CASE i = n + 1
    <3>1. \A k \in 1 .. c : ctl'[k].depth # i - 1
      BY <2>2, <1>1, <1>3, <1>4
    <3>2. ~(suspended' /\ i = 1)
      BY <2>2, <1>1, <1>4
    <3>3. ctl'[c + 1].depth = i - 1
      BY <2>2, <1>1, <1>3
    <3>4. /\ (\E k \in 1 .. c + 1 : ~ctl'[k].native /\ ctl'[k].depth = i - 1) <=> ~f.native
          /\ (\E k \in 1 .. c + 1 : ctl'[k].native /\ ctl'[k].depth = i - 1) <=> f.native
      BY <3>1, <3>3, <1>3, <1>6
    <3> QED
      BY <2>2, <3>2, <3>4, <1>2
  <2> QED
    BY <1>1, <2>1, <2>2
<1> QED
  BY <1>2, <1>3, <1>7 DEF RootsPlaced

\* The first frame of an activation goes with it.
LEMMA EndRoots ==
  ASSUME TypeOK, RootsPlaced, suspended' = suspended, CallEnded, FrameLeft,
         ctl[Len(ctl)].depth = Len(frames) - 1
  PROVE  RootsPlaced'
<1> DEFINE n == Len(frames)
           c == Len(ctl)
<1>1. n \in Nat \ {0} /\ c \in Nat \ {0}
  BY Sizes DEF CallEnded, FrameLeft
<1>2. /\ Len(frames') = n - 1 /\ Len(ctl') = c - 1
      /\ \A i \in 1 .. n - 1 : frames'[i] = frames[i]
      /\ \A k \in 1 .. c - 1 : ctl'[k] = ctl[k]
      /\ ctl[c].depth = n - 1
  BY DEF CallEnded, FrameLeft
<1>3. \A i \in 1 .. n :
        /\ frames[i].root <=> \/ \E k \in 1 .. c : ~ctl[k].native /\ ctl[k].depth = i - 1
                              \/ suspended /\ i = 1
        /\ frames[i].native <=> \E k \in 1 .. c : ctl[k].native /\ ctl[k].depth = i - 1
        /\ frames[i].native => frames[i].etraps = 0 /\ frames[i].gen = NoGen
  BY DEF RootsPlaced
<1> HIDE DEF n, c
<1>4. \A k \in 1 .. c - 1 : k \in 1 .. c
  BY <1>1
<1>5. \A k \in 1 .. c : k \in 1 .. c - 1 \/ k = c
  BY <1>1
<1>6. ASSUME NEW i \in 1 .. n - 1
      PROVE  /\ frames'[i].root <=> \/ \E k \in 1 .. c - 1 : ~ctl'[k].native /\ ctl'[k].depth = i - 1
                                    \/ suspended' /\ i = 1
             /\ frames'[i].native <=> \E k \in 1 .. c - 1 : ctl'[k].native /\ ctl'[k].depth = i - 1
             /\ frames'[i].native => frames'[i].etraps = 0 /\ frames'[i].gen = NoGen
  <2>1. ctl[c].depth # i - 1 /\ i \in 1 .. n
    BY <1>1, <1>2
  <2>2. /\ (\E k \in 1 .. c - 1 : ~ctl'[k].native /\ ctl'[k].depth = i - 1)
             <=> \E k \in 1 .. c : ~ctl[k].native /\ ctl[k].depth = i - 1
        /\ (\E k \in 1 .. c - 1 : ctl'[k].native /\ ctl'[k].depth = i - 1)
             <=> \E k \in 1 .. c : ctl[k].native /\ ctl[k].depth = i - 1
    BY <2>1, <1>2, <1>4, <1>5
  <2>3. /\ frames[i].root <=> \/ \E k \in 1 .. c : ~ctl[k].native /\ ctl[k].depth = i - 1
                              \/ suspended /\ i = 1
        /\ frames[i].native <=> \E k \in 1 .. c : ctl[k].native /\ ctl[k].depth = i - 1
        /\ frames[i].native => frames[i].etraps = 0 /\ frames[i].gen = NoGen
    BY <2>1, <1>3
  <2>4. frames'[i] = frames[i]
    BY <1>2
  <2> QED
    BY <2>2, <2>3, <2>4
<1> QED
  BY <1>2, <1>6 DEF RootsPlaced

(***************************************************************************)
(* The suspended activation and the counts of traps                        *)
(***************************************************************************)
\* The suspended frames lie below those that come and go.
LEMMA SuspendedStays ==
  ASSUME TypeOK, Nested, SuspendedKept, suspended' = suspended, susp' = susp,
         Len(ctl) > 0, Len(ctl') = Len(ctl),
         \A k \in 1 .. Len(ctl) : ctl'[k].depth = ctl[k].depth,
         \A i \in 1 .. Len(frames) - 1 : frames'[i].root = frames[i].root
  PROVE  SuspendedKept'
<1> SUFFICES ASSUME suspended
             PROVE  susp.root = frames'[ctl'[1].depth].root
  BY DEF SuspendedKept
<1>1. 1 \in 1 .. Len(ctl) /\ Len(frames) \in Nat
  BY Sizes
<1>2. ctl[1].depth \in Nat /\ ctl[1].depth < Len(frames) /\ ctl[1].depth > 0
  BY <1>1, CallTypes DEF Nested
<1>3. susp.root = frames[ctl[1].depth].root
  BY DEF SuspendedKept
<1>4. ctl'[1].depth = ctl[1].depth
  BY <1>1
<1>5. ctl[1].depth \in 1 .. Len(frames) - 1
  BY <1>1, <1>2
<1> QED
  BY <1>3, <1>4, <1>5

\* The first activation in a suspended VM begins above the suspended frames.
LEMMA BeginSuspended ==
  ASSUME TypeOK, Nested, SuspendedKept, suspended' = suspended, susp' = susp,
         NEW f, FrameEntered(f), NEW native, NEW q, CallBegun(native, q)
  PROVE  SuspendedKept'
<1> DEFINE n == Len(frames)
           c == Len(ctl)
<1> SUFFICES ASSUME suspended
             PROVE  susp.root = frames'[ctl'[1].depth].root /\ Len(ctl') > 0
  BY DEF SuspendedKept
<1>1. n \in Nat /\ c \in Nat
  BY Sizes
<1>2. /\ Len(ctl') = c + 1
      /\ \A k \in 1 .. c : ctl'[k] = ctl[k]
      /\ ctl'[c + 1].depth = n
      /\ \A i \in 1 .. n : frames'[i] = frames[i]
  BY DEF CallBegun, FrameEntered
<1>3. /\ c = 0 => susp.root = frames[n].root
      /\ c > 0 => susp.root = frames[ctl[1].depth].root
  BY DEF SuspendedKept
<1>4. n > 0
  BY DEF Nested
<1>5. c > 0 => ctl[1].depth \in 1 .. n
  <2>1. SUFFICES ASSUME c > 0
                 PROVE  ctl[1].depth \in 1 .. n
    OBVIOUS
  <2>2. 1 \in 1 .. c
    BY <2>1, <1>1
  <2>3. ctl[1].depth \in Nat /\ ctl[1].depth < n /\ ctl[1].depth > 0
    BY <2>1, <2>2, CallTypes DEF Nested
  <2> QED
    BY ONLY <2>3, <1>1
<1> HIDE DEF n, c
<1>6. CASE c = 0
  <2>1. ctl'[1].depth = n /\ n \in 1 .. n
    BY <1>6, <1>1, <1>2, <1>4
  <2> QED
    BY <2>1, <1>6, <1>1, <1>2, <1>3
<1>7. CASE c > 0
  <2>1. ctl'[1] = ctl[1]
    BY <1>7, <1>1, <1>2
  <2> QED
    BY <2>1, <1>7, <1>1, <1>2, <1>3, <1>5
<1> QED
  BY <1>1, <1>6, <1>7

\* When the last of those ends, the suspended frames are on top again.
LEMMA EndSuspended ==
  ASSUME TypeOK, Nested, SuspendedKept, suspended' = suspended, susp' = susp,
         CallEnded, FrameLeft, ctl[Len(ctl)].depth = Len(frames) - 1
  PROVE  SuspendedKept'
<1> DEFINE n == Len(frames)
           c == Len(ctl)
<1> SUFFICES ASSUME suspended
             PROVE  /\ c - 1 = 0 => susp.root = frames'[n - 1].root
                    /\ c - 1 > 0 => susp.root = frames'[ctl'[1].depth].root
  BY DEF SuspendedKept, CallEnded, FrameLeft
<1>1. n \in Nat \ {0} /\ c \in Nat \ {0}
  BY Sizes DEF CallEnded, FrameLeft
<1>2. /\ \A k \in 1 .. c - 1 : ctl'[k] = ctl[k]
      /\ ctl[c].depth = n - 1
      /\ \A i \in 1 .. n - 1 : frames'[i] = frames[i]
  BY DEF CallEnded, FrameLeft
<1>3. susp.root = frames[ctl[1].depth].root
  BY <1>1 DEF SuspendedKept
<1>4. 1 \in 1 .. c
  BY <1>1
<1>5. ctl[1].depth \in Nat /\ ctl[1].depth < n /\ ctl[1].depth > 0
  BY <1>1, <1>4, CallTypes DEF Nested
<1>6. ctl[1].depth \in 1 .. n - 1
  BY ONLY <1>1, <1>5
<1> HIDE DEF n, c
<1>7. c - 1 = 0 => ctl[1].depth = n - 1
  BY <1>1, <1>2
<1>8. c - 1 > 0 => ctl'[1] = ctl[1]
  BY <1>1, <1>2
<1> QED
  BY <1>2, <1>3, <1>6, <1>7, <1>8

\* The running activation counts the traps that come and go on top of _etraps.
LEMMA CountedStays ==
  ASSUME TypeOK, Nested, Counted, mode' = mode, suspended' = suspended, susp' = susp,
         NEW d \in Int, SameCalls(d), Len(ctl) > 0,
         TrapsStay \/ "foreach" \notin mode.features => Len(etraps') = Len(etraps) + d,
         \A i \in 1 .. ctl[Len(ctl)].depth + 1 : frames'[i].below = frames[i].below
  PROVE  Counted'
<1> DEFINE n == Len(frames)
           c == Len(ctl)
           t == Len(etraps)
<1> SUFFICES ASSUME TrapsStay \/ "foreach" \notin mode.features
             PROVE  Counted'
  BY DEF Counted, TrapsStay
<1>1. n \in Nat /\ c \in Nat \ {0} /\ t \in Nat
  BY Sizes
<1>2. /\ Len(ctl') = c /\ Len(etraps') = t + d
      /\ \A k \in 1 .. c : ctl'[k].depth = ctl[k].depth
      /\ \A k \in 1 .. c : ctl'[k].traps = (IF k = c THEN ctl[k].traps + d ELSE ctl[k].traps)
      /\ \A i \in 1 .. ctl[c].depth + 1 : frames'[i].below = frames[i].below
  BY DEF SameCalls
<1>3. /\ ctl[c].traps = t - frames[ctl[c].depth + 1].below
      /\ \A k \in 1 .. c - 1 :
           ctl[k].traps = frames[ctl[k + 1].depth + 1].below - frames[ctl[k].depth + 1].below
      /\ suspended => susp.traps = frames[ctl[1].depth + 1].below
  BY <1>1 DEF Counted
<1>4. \A k, l \in 1 .. c : k < l => ctl[k].depth < ctl[l].depth
  BY DEF Nested
<1>5. \A k \in 1 .. c : ctl[k].depth \in Nat /\ ctl[k].depth < n
  BY CallTypes DEF Nested
<1>6. \A k \in 1 .. c : frames[ctl[k].depth + 1].below \in Nat
  <2>1. SUFFICES ASSUME NEW k \in 1 .. c
                 PROVE  frames[ctl[k].depth + 1].below \in Nat
    OBVIOUS
  <2>2. ctl[k].depth \in Nat /\ ctl[k].depth < n
    BY <1>5
  <2>3. ctl[k].depth + 1 \in 1 .. n
    BY ONLY <2>2, <1>1
  <2> QED
    BY <2>3, FrameTypes
<1> HIDE DEF n, c, t
<1>7. ASSUME NEW k \in 1 .. c
      PROVE  /\ ctl'[k].depth = ctl[k].depth
             /\ frames'[ctl'[k].depth + 1].below = frames[ctl[k].depth + 1].below
  <2>1. ctl'[k].depth = ctl[k].depth /\ ctl[k].depth \in Nat /\ ctl[c].depth \in Nat
    BY <1>1, <1>2, <1>5
  <2>2. ctl[k].depth <= ctl[c].depth
    <3>1. CASE k = c
      BY <2>1, <3>1
    <3>2. CASE k < c
      <4>1. c \in 1 .. c
        BY <1>1
      <4>2. ctl[k].depth < ctl[c].depth
        BY <3>2, <4>1, <1>4
      <4> QED
        BY <2>1, <4>2
    <3> QED
      BY <1>1, <3>1, <3>2
  <2>3. ctl[k].depth + 1 \in 1 .. ctl[c].depth + 1
    BY ONLY <2>1, <2>2
  <2> QED
    BY <2>1, <2>3, <1>2
<1>8. ctl'[c].traps = (t + d) - frames'[ctl'[c].depth + 1].below
  <2>1. c \in 1 .. c
    BY <1>1
  <2>2. ctl'[c].traps = ctl[c].traps + d /\ frames[ctl[c].depth + 1].below \in Nat /\ d \in Int
    BY <2>1, <1>2, <1>6
  <2>3. ctl[c].traps = t - frames[ctl[c].depth + 1].below
    BY <1>3
  <2>4. ctl'[c].traps = (t + d) - frames[ctl[c].depth + 1].below
    BY ONLY <2>2, <2>3, <1>1
  <2> QED
    BY <2>1, <2>4, <1>7
<1>9. ASSUME NEW k \in 1 .. c - 1
      PROVE  ctl'[k].traps = frames'[ctl'[k + 1].depth + 1].below - frames'[ctl'[k].depth + 1].below
  <2>1. k \in 1 .. c /\ k + 1 \in 1 .. c /\ k # c
    BY <1>1
  <2> QED
    BY <2>1, <1>2, <1>3, <1>7
<1>10. suspended' => susp'.traps = frames'[ctl'[1].depth + 1].below
  <2>1. 1 \in 1 .. c
    BY <1>1
  <2> QED
    BY <2>1, <1>3, <1>7
<1>11. c > 0 /\ c # 0
  BY <1>1
<1> QED
  BY <1>2, <1>8, <1>9, <1>10, <1>11 DEF Counted

\* A new activation counts the traps its first frame comes with.
LEMMA BeginCounted ==
  ASSUME TypeOK, Nested, TrapsInOrder, Counted, mode' = mode, suspended' = suspended, susp' = susp,
         NEW f, FrameEntered(f), NEW native, CallBegun(native, f.etraps)
  PROVE  Counted'
<1> DEFINE n == Len(frames)
           c == Len(ctl)
           t == Len(etraps)
<1> SUFFICES ASSUME TrapsStay \/ "foreach" \notin mode.features
             PROVE  Counted'
  BY DEF Counted, TrapsStay
<1>1. n \in Nat /\ c \in Nat /\ t \in Nat
  BY Sizes
<1>2. /\ f.below = t /\ f.etraps \in Nat
      /\ Len(frames') = n + 1 /\ Len(etraps') = t + f.etraps
      /\ \A i \in 1 .. n : frames'[i] = frames[i]
      /\ frames'[n + 1] = f
      /\ Len(ctl') = c + 1
      /\ \A k \in 1 .. c : ctl'[k] = ctl[k]
      /\ ctl'[c + 1].depth = n /\ ctl'[c + 1].traps = f.etraps
  BY DEF CallBegun, FrameEntered, CallInfo
<1>3. /\ c > 0 => ctl[c].traps = t - frames[ctl[c].depth + 1].below
      /\ \A k \in 1 .. c - 1 :
           ctl[k].traps = frames[ctl[k + 1].depth + 1].below - frames[ctl[k].depth + 1].below
      /\ suspended => /\ c = 0 => susp.traps = t
                      /\ c > 0 => susp.traps = frames[ctl[1].depth + 1].below
  BY DEF Counted
<1>4. \A k \in 1 .. c : ctl[k].depth \in Nat /\ ctl[k].depth < n
  BY CallTypes DEF Nested
<1> HIDE DEF n, c, t
<1>5. ASSUME NEW k \in 1 .. c
      PROVE  ctl'[k] = ctl[k] /\ frames'[ctl'[k].depth + 1].below = frames[ctl[k].depth + 1].below
  <2>1. ctl[k].depth \in Nat /\ ctl[k].depth < n
    BY <1>4
  <2>2. ctl[k].depth + 1 \in 1 .. n
    BY ONLY <2>1, <1>1
  <2> QED
    BY <2>2, <1>2
<1>6. frames'[ctl'[c + 1].depth + 1].below = t
  BY <1>2
<1>7. ctl'[c + 1].traps = Len(etraps') - frames'[ctl'[c + 1].depth + 1].below
  BY <1>1, <1>2, <1>6
<1>8. ASSUME NEW k \in 1 .. c
      PROVE  ctl'[k].traps = frames'[ctl'[k + 1].depth + 1].below - frames'[ctl'[k].depth + 1].below
  <2>1. CASE k = c
    BY <2>1, <1>1, <1>3, <1>5, <1>6
  <2>2. CASE k < c
    <3>1. k \in 1 .. c - 1 /\ k + 1 \in 1 .. c
      BY <2>2, <1>1
    <3> QED
      BY <3>1, <1>3, <1>5
  <2> QED
    BY <1>1, <2>1, <2>2
<1>9. suspended' => susp'.traps = frames'[ctl'[1].depth + 1].below
  <2>1. CASE c = 0
    BY <2>1, <1>1, <1>3, <1>6
  <2>2. CASE c > 0
    <3>1. 1 \in 1 .. c
      BY <2>2, <1>1
    <3> QED
      BY <2>2, <3>1, <1>3, <1>5
  <2> QED
    BY <1>1, <2>1, <2>2
<1>10. c + 1 > 0 /\ c + 1 # 0 /\ (c + 1) - 1 = c
  BY <1>1
<1> QED
  BY <1>2, <1>7, <1>8, <1>9, <1>10 DEF Counted

\* An activation that ends has left no traps of its own.
LEMMA EndCounted ==
  ASSUME TypeOK, Nested, Counted, mode' = mode, suspended' = suspended, susp' = susp,
         CallEnded, FrameLeft, ctl[Len(ctl)].depth = Len(frames) - 1
  PROVE  Counted'
<1> DEFINE n == Len(frames)
           c == Len(ctl)
<1> SUFFICES ASSUME TrapsStay \/ "foreach" \notin mode.features
             PROVE  Counted'
  BY DEF Counted, TrapsStay
<1>1. n \in Nat \ {0} /\ c \in Nat \ {0}
  BY Sizes DEF CallEnded, FrameLeft
<1>2. /\ Len(frames') = n - 1 /\ Len(etraps') = frames[n].below
      /\ \A i \in 1 .. n - 1 : frames'[i] = frames[i]
      /\ Len(ctl') = c - 1
      /\ \A k \in 1 .. c - 1 : ctl'[k] = ctl[k]
      /\ ctl[c].depth = n - 1
  BY DEF CallEnded, FrameLeft
<1>3. /\ \A k \in 1 .. c - 1 :
           ctl[k].traps = frames[ctl[k + 1].depth + 1].below - frames[ctl[k].depth + 1].below
      /\ suspended => susp.traps = frames[ctl[1].depth + 1].below
  BY <1>1 DEF Counted
<1>4. /\ \A k, l \in 1 .. c : k < l => ctl[k].depth < ctl[l].depth
      /\ \A k \in 1 .. c : ctl[k].depth \in Nat
  BY CallTypes DEF Nested
<1> HIDE DEF n, c
<1>5. ctl[c].depth + 1 = n
  BY <1>1, <1>2
<1>6. ASSUME NEW k \in 1 .. c - 1
      PROVE  ctl'[k] = ctl[k] /\ frames'[ctl'[k].depth + 1].below = frames[ctl[k].depth + 1].below
  <2>1. k \in 1 .. c /\ c \in 1 .. c /\ k < c
    BY <1>1
  <2>2. ctl[k].depth \in Nat /\ ctl[k].depth < n - 1
    BY <2>1, <1>2, <1>4
  <2>3. ctl[k].depth + 1 \in 1 .. n - 1
    BY ONLY <2>2, <1>1
  <2> QED
    BY <2>3, <1>2
<1>7. c - 1 > 0 => ctl'[c - 1].traps = Len(etraps') - frames'[ctl'[c - 1].depth + 1].below
  <2>1. SUFFICES ASSUME c - 1 > 0
                 PROVE  ctl'[c - 1].traps = Len(etraps') - frames'[ctl'[c - 1].depth + 1].below
    OBVIOUS
  <2>2. c - 1 \in 1 .. c - 1 /\ (c - 1) + 1 = c
    BY <2>1, <1>1
  <2>3. ctl[c - 1].traps = frames[ctl[c].depth + 1].below - frames[ctl[c - 1].depth + 1].below
    BY <2>2, <1>3
  <2> QED
    BY <2>2, <2>3, <1>2, <1>5, <1>6
<1>8. ASSUME NEW k \in 1 .. (c - 1) - 1
      PROVE  ctl'[k].traps = frames'[ctl'[k + 1].depth + 1].below - frames'[ctl'[k].depth + 1].below
  <2>1. k \in 1 .. c - 1 /\ k + 1 \in 1 .. c - 1
    BY <1>1
  <2> QED
    BY <2>1, <1>3, <1>6
<1>9. suspended' => /\ c - 1 = 0 => susp'.traps = Len(etraps')
                    /\ c - 1 > 0 => susp'.traps = frames'[ctl'[1].depth + 1].below
  <2>1. CASE c - 1 = 0
    BY <2>1, <1>1, <1>2, <1>3, <1>5
  <2>2. CASE c - 1 > 0
    <3>1. 1 \in 1 .. c - 1
      BY <2>2, <1>1
    <3> QED
      BY <2>2, <3>1, <1>3, <1>6
  <2> QED
    BY <1>1, <2>1, <2>2
<1> QED
  BY <1>2, <1>7, <1>8, <1>9 DEF Counted

(***************************************************************************)
(* Generators                                                              *)
(***************************************************************************)
\* Generators that neither start nor stop keep their frames.
LEMMA EachStays ==
  ASSUME TypeOK, OneFrameEach, mode' = mode,
         Len(frames') = Len(frames),
         \A i \in 1 .. Len(frames) : frames'[i].gen = frames[i].gen,
         \A g \in Gens : /\ gens'[g].state = "running" <=> gens[g].state = "running"
                         /\ gens'[g].traps \in {gens[g].traps, <<>>}
  PROVE  OneFrameEach'
<1> DEFINE n == Len(frames)
<1>1. /\ \A i, j \in 1 .. n : frames[i].gen = frames[j].gen /\ frames[i].gen # NoGen => i = j
      /\ \A i \in 1 .. n : frames[i].gen # NoGen => gens[frames[i].gen].state = "running"
      /\ \A g \in Gens : gens[g].state = "running" => \E i \in 1 .. n : frames[i].gen = g
      /\ TrapsStay => \A g \in Gens : gens[g].traps = <<>>
  BY DEF OneFrameEach
<1>2. \A i \in 1 .. n : frames[i].gen \in Gens \cup {NoGen}
  BY FrameTypes
<1>3. /\ Len(frames') = n
      /\ \A i \in 1 .. n : frames'[i].gen = frames[i].gen
      /\ \A g \in Gens : /\ gens'[g].state = "running" <=> gens[g].state = "running"
                         /\ gens'[g].traps \in {gens[g].traps, <<>>}
  OBVIOUS
<1> HIDE DEF n
<1>4. \A i, j \in 1 .. n : frames'[i].gen = frames'[j].gen /\ frames'[i].gen # NoGen => i = j
  BY <1>1, <1>3
<1>5. \A i \in 1 .. n : frames'[i].gen # NoGen => gens'[frames'[i].gen].state = "running"
  BY <1>1, <1>2, <1>3
<1>6. \A g \in Gens : gens'[g].state = "running" => \E i \in 1 .. n : frames'[i].gen = g
  BY <1>1, <1>3
<1>7. TrapsStay' => \A g \in Gens : gens'[g].traps = <<>>
  BY <1>1, <1>3 DEF TrapsStay
<1> QED
  BY <1>3, <1>4, <1>5, <1>6, <1>7 DEF OneFrameEach

\* A generator that starts has the new frame, and had none.
LEMMA EachEntered ==
  ASSUME TypeOK, OneFrameEach, mode' = mode, NEW f, FrameEntered(f), Started(f.gen)
  PROVE  OneFrameEach'
<1> DEFINE n == Len(frames)
<1>1. /\ \A i, j \in 1 .. n : frames[i].gen = frames[j].gen /\ frames[i].gen # NoGen => i = j
      /\ \A i \in 1 .. n : frames[i].gen # NoGen => gens[frames[i].gen].state = "running"
      /\ \A g \in Gens : gens[g].state = "running" => \E i \in 1 .. n : frames[i].gen = g
      /\ TrapsStay => \A g \in Gens : gens[g].traps = <<>>
  BY DEF OneFrameEach
<1>2. \A i \in 1 .. n : frames[i].gen \in Gens \cup {NoGen}
  BY FrameTypes
<1>3. /\ n \in Nat /\ Len(frames') = n + 1
      /\ \A i \in 1 .. n : frames'[i] = frames[i]
      /\ frames'[n + 1] = f /\ f.gen \in Gens \cup {NoGen}
  BY Sizes DEF FrameEntered, CallInfo
<1>4. /\ \A h \in Gens \ {f.gen} : gens'[h] = gens[h]
      /\ f.gen \in Gens => /\ gens[f.gen].state # "running" /\ gens'[f.gen].state = "running"
                           /\ TrapsStay => gens'[f.gen].traps = <<>>
  BY DEF Started
<1> HIDE DEF n
<1>5. \A i \in 1 .. n : frames[i].gen # NoGen => frames[i].gen # f.gen
  BY <1>1, <1>2, <1>4
<1>6. \A i \in 1 .. n + 1 : i \in 1 .. n \/ i = n + 1
  BY <1>3
<1>7. \A i, j \in 1 .. n + 1 : frames'[i].gen = frames'[j].gen /\ frames'[i].gen # NoGen => i = j
  BY <1>1, <1>3, <1>5, <1>6
<1>8. ASSUME NEW i \in 1 .. n + 1, frames'[i].gen # NoGen
      PROVE  gens'[frames'[i].gen].state = "running"
  <2>1. CASE i \in 1 .. n
    <3>1. frames'[i] = frames[i] /\ frames[i].gen \in Gens /\ frames[i].gen # f.gen
      BY <2>1, <1>2, <1>3, <1>5, <1>8
    <3> QED
      BY <2>1, <3>1, <1>1, <1>4, <1>8
  <2>2. CASE i = n + 1
    BY <2>2, <1>3, <1>4, <1>8
  <2> QED
    BY <1>6, <2>1, <2>2
<1>9. ASSUME NEW g \in Gens, gens'[g].state = "running"
      PROVE  \E i \in 1 .. n + 1 : frames'[i].gen = g
  <2>1. CASE g = f.gen
    <3>1. n + 1 \in 1 .. n + 1
      BY <1>3
    <3> QED
      BY <2>1, <3>1, <1>3
  <2>2. CASE g # f.gen
    <3>1. PICK i \in 1 .. n : frames[i].gen = g
      BY <2>2, <1>1, <1>4, <1>9
    <3>2. i \in 1 .. n + 1
      BY <1>3
    <3> QED
      BY <3>1, <3>2, <1>3
  <2> QED
    BY <2>1, <2>2
<1>10. TrapsStay' => \A g \in Gens : gens'[g].traps = <<>>
  BY <1>1, <1>4 DEF TrapsStay
<1> QED
  BY <1>3, <1>7, <1>8, <1>9, <1>10 DEF OneFrameEach

\* A generator whose frame is left runs no more.
LEMMA EachLeft ==
  ASSUME TypeOK, OneFrameEach, mode' = mode, FrameLeft, Stopped(frames[Len(frames)].gen)
  PROVE  OneFrameEach'
<1> DEFINE n == Len(frames)
           G == frames[n].gen
<1>1. /\ \A i, j \in 1 .. n : frames[i].gen = frames[j].gen /\ frames[i].gen # NoGen => i = j
      /\ \A i \in 1 .. n : frames[i].gen # NoGen => gens[frames[i].gen].state = "running"
      /\ \A g \in Gens : gens[g].state = "running" => \E i \in 1 .. n : frames[i].gen = g
      /\ TrapsStay => \A g \in Gens : gens[g].traps = <<>>
  BY DEF OneFrameEach
<1>2. \A i \in 1 .. n : frames[i].gen \in Gens \cup {NoGen}
  BY FrameTypes
<1>3. /\ n \in Nat \ {0} /\ Len(frames') = n - 1
      /\ \A i \in 1 .. n - 1 : frames'[i] = frames[i]
  BY Sizes DEF FrameLeft
<1>4. /\ \A h \in Gens \ {G} : gens'[h] = gens[h]
      /\ G \in Gens => gens'[G].state # "running" /\ (TrapsStay => gens'[G].traps = <<>>)
  BY DEF Stopped
<1> HIDE DEF n
<1>5. \A i \in 1 .. n - 1 : i \in 1 .. n /\ i # n
  BY <1>3
<1>6. n \in 1 .. n /\ \A i \in 1 .. n : i \in 1 .. n - 1 \/ i = n
  BY <1>3
<1>7. \A i, j \in 1 .. n - 1 : frames'[i].gen = frames'[j].gen /\ frames'[i].gen # NoGen => i = j
  BY <1>1, <1>3, <1>5
<1>8. ASSUME NEW i \in 1 .. n - 1, frames'[i].gen # NoGen
      PROVE  gens'[frames'[i].gen].state = "running"
  <2>1. frames'[i] = frames[i] /\ frames[i].gen \in Gens /\ frames[i].gen # G
    BY <1>1, <1>2, <1>3, <1>5, <1>6, <1>8
  <2> QED
    BY <2>1, <1>1, <1>4, <1>5, <1>8
<1>9. ASSUME NEW g \in Gens, gens'[g].state = "running"
      PROVE  \E i \in 1 .. n - 1 : frames'[i].gen = g
  <2>1. g # G /\ gens[g].state = "running"
    BY <1>4, <1>9
  <2>2. PICK i \in 1 .. n : frames[i].gen = g
    BY <2>1, <1>1
  <2>3. i \in 1 .. n - 1
    BY <2>1, <2>2, <1>6
  <2> QED
    BY <2>2, <2>3, <1>3
<1>10. TrapsStay' => \A g \in Gens : gens'[g].traps = <<>>
  BY <1>1, <1>4 DEF TrapsStay
<1> QED
  BY <1>3, <1>7, <1>8, <1>9, <1>10 DEF OneFrameEach
=============================================================================
