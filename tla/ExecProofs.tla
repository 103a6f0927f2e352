----------------------------- MODULE ExecProofs -----------------------------
(***************************************************************************)
(* Exec keeps its invariant in every mode in which RootsStay, whatever the *)
(* generators and the bounds: each action has one of the effects of        *)
(* ExecInvariant, and the properties of Exec follow.                       *)
(***************************************************************************)
EXTENDS ExecInvariant

(***************************************************************************)
(* What the actions have in common                                         *)
(***************************************************************************)
\* A trap is pushed or popped.
LEMMA Moved ==
  ASSUME Good, mode' = mode, InScript, gens' = gens, raising' = FALSE,
         suspended' = suspended, susp' = susp,
         NEW d \in Int, TrapsMoved(d), SameCalls(d), stackbase' \in Int,
         \/ d = 1 /\ stackbase' = stackbase /\ etraps'[Len(etraps) + 1] = stackbase
         \/ d = -1 /\ stackbase' \in {stackbase, etraps[Len(etraps)]}
  PROVE  Good'
<1>1. /\ TypeOK /\ TrapsInOrder /\ BasesKept /\ CallersKept
      /\ Nested /\ RootsPlaced /\ SuspendedKept /\ Counted /\ OneFrameEach
  BY DEF Good
<1>2. TypeOK'
  BY <1>1 DEF TypeOK, TrapsMoved, SameCalls
<1>3. TrapsInOrder' /\ BasesKept'
  BY <1>1, MoveTraps, MoveBases
<1>4. /\ Len(ctl) \in Nat \ {0} /\ Len(frames) \in Nat \ {0} /\ ~ctl[Len(ctl)].native
      /\ ctl[Len(ctl)].depth \in Nat /\ ctl[Len(ctl)].depth < Len(frames)
      /\ ~frames[Len(frames)].native
  BY <1>1, ScriptOnTop
<1>5. /\ Len(ctl') = Len(ctl)
      /\ \A k \in 1 .. Len(ctl) :
           /\ ctl'[k].native = ctl[k].native /\ ctl'[k].depth = ctl[k].depth
           /\ ctl'[k].base = ctl[k].base
  BY DEF SameCalls
<1>6. /\ Len(frames') = Len(frames)
      /\ \A i \in 1 .. Len(frames) :
           /\ frames'[i].gen = frames[i].gen /\ frames'[i].root = frames[i].root
           /\ frames'[i].native = frames[i].native
           /\ frames'[i].base = frames[i].base /\ frames'[i].below = frames[i].below
           /\ frames'[i].etraps = frames[i].etraps \/ i = Len(frames)
      /\ Len(etraps') = Len(etraps) + d
  BY DEF TrapsMoved
<1>7. Len(ctl') \in 0 .. Len(ctl) /\ Len(frames') \in 0 .. Len(frames)
  BY <1>4, <1>5, <1>6
<1>8. /\ \A i \in 1 .. Len(frames) - 1 : i \in 1 .. Len(frames)
      /\ \A i \in 1 .. ctl[Len(ctl)].depth + 1 : i \in 1 .. Len(frames)
  BY ONLY <1>4
<1>9. CallersKept'
  BY <1>1, <1>5, <1>6, <1>7, <1>8, CallersStay
<1>10. Nested'
  BY <1>1, <1>4, <1>5, <1>6, NestedStays
<1>11. RootsPlaced'
  BY <1>1, <1>4, <1>5, <1>6, <1>7, RootsStayPlaced
<1>12. SuspendedKept'
  <2>1. \A i \in 1 .. Len(frames) - 1 : frames'[i].root = frames[i].root
    BY <1>6, <1>8
  <2>2. Len(ctl) > 0 /\ \A k \in 1 .. Len(ctl) : ctl'[k].depth = ctl[k].depth
    BY <1>4, <1>5
  <2> QED
    BY <2>1, <2>2, <1>1, <1>5, SuspendedStays
<1>13. Counted'
  <2>1. \A i \in 1 .. ctl[Len(ctl)].depth + 1 : frames'[i].below = frames[i].below
    BY <1>6, <1>8
  <2>2. Len(etraps') = Len(etraps) + d /\ Len(ctl) > 0
    BY <1>4, <1>6
  <2> QED
    BY <2>1, <2>2, <1>1, CountedStays
<1>14. OneFrameEach'
  BY <1>1, <1>6, EachStays
<1> QED
  BY <1>2, <1>3, <1>9, <1>10, <1>11, <1>12, <1>13, <1>14 DEF Good

\* A script enters a frame in its own activation.
LEMMA Entered ==
  ASSUME Good, mode' = mode, InScript, raising' = FALSE, suspended' = suspended, susp' = susp,
         NEW f, FrameEntered(f), ~f.root, ~f.native, Started(f.gen),
         NEW d \in Int, SameCalls(d),
         TrapsStay \/ "foreach" \notin mode.features => d = f.etraps
  PROVE  Good'
<1>1. /\ TypeOK /\ TrapsInOrder /\ BasesKept /\ CallersKept
      /\ Nested /\ RootsPlaced /\ SuspendedKept /\ Counted /\ OneFrameEach
  BY DEF Good
<1>2. TypeOK'
  <2>1. f.base \in Int
    BY DEF FrameEntered, CallInfo
  <2> QED
    BY <2>1, <1>1 DEF TypeOK, FrameEntered, SameCalls, Started
<1>3. TrapsInOrder' /\ BasesKept'
  BY <1>1, EnterTraps, EnterBases
<1>4. /\ Len(ctl) \in Nat \ {0} /\ Len(frames) \in Nat \ {0} /\ ~ctl[Len(ctl)].native
      /\ ctl[Len(ctl)].depth \in Nat /\ ctl[Len(ctl)].depth < Len(frames)
  BY <1>1, ScriptOnTop
<1>5. /\ Len(ctl') = Len(ctl)
      /\ \A k \in 1 .. Len(ctl) :
           /\ ctl'[k].native = ctl[k].native /\ ctl'[k].depth = ctl[k].depth
           /\ ctl'[k].base = ctl[k].base
  BY DEF SameCalls
<1>6. /\ Len(frames') = Len(frames) + 1
      /\ \A i \in 1 .. Len(frames) : frames'[i] = frames[i]
      /\ Len(etraps') = Len(etraps) + f.etraps
  BY DEF FrameEntered
<1>7. Len(ctl') \in 0 .. Len(ctl)
  BY <1>4, <1>5
<1>8. /\ \A i \in 1 .. Len(frames) - 1 : i \in 1 .. Len(frames)
      /\ \A i \in 1 .. ctl[Len(ctl)].depth + 1 : i \in 1 .. Len(frames)
  BY ONLY <1>4
<1>9. CallersKept'
  BY <1>1, <1>5, <1>6, <1>7, <1>8, CallersStay
<1>10. Nested'
  <2>1. Len(frames') \in Nat /\ ctl[Len(ctl)].depth < Len(frames')
    BY <1>4, <1>6
  <2> QED
    BY <2>1, <1>1, <1>4, <1>5, NestedStays
<1>11. RootsPlaced'
  BY <1>1, <1>4, <1>5, EnterRoots
<1>12. SuspendedKept'
  <2>1. \A i \in 1 .. Len(frames) - 1 : frames'[i].root = frames[i].root
    BY <1>6, <1>8
  <2>2. Len(ctl) > 0 /\ \A k \in 1 .. Len(ctl) : ctl'[k].depth = ctl[k].depth
    BY <1>4, <1>5
  <2> QED
    BY <2>1, <2>2, <1>1, <1>5, SuspendedStays
<1>13. Counted'
  <2>1. \A i \in 1 .. ctl[Len(ctl)].depth + 1 : frames'[i].below = frames[i].below
    BY <1>6, <1>8
  <2>2. TrapsStay \/ "foreach" \notin mode.features => Len(etraps') = Len(etraps) + d
    BY <1>6
  <2> QED
    BY <2>1, <2>2, <1>1, <1>4, CountedStays
<1>14. OneFrameEach'
  BY <1>1, EachEntered
<1> QED
  BY <1>2, <1>3, <1>9, <1>10, <1>11, <1>12, <1>13, <1>14 DEF Good

\* An activation begins with the frame f.
LEMMA Begun ==
  ASSUME Good, mode' = mode, raising' = FALSE, suspended' = suspended, susp' = susp,
         NEW f, FrameEntered(f), f.root <=> ~f.native, f.native <=> InScript, Started(f.gen),
         CallBegun(f.native, f.etraps)
  PROVE  Good'
<1>1. /\ TypeOK /\ TrapsInOrder /\ BasesKept /\ CallersKept
      /\ Nested /\ RootsPlaced /\ SuspendedKept /\ Counted /\ OneFrameEach
  BY DEF Good
<1>2. f.base \in Int /\ f.native \in BOOLEAN /\ Len(frames') = Len(frames) + 1
  BY DEF FrameEntered, CallInfo
<1>3. TypeOK'
  BY <1>1, <1>2 DEF TypeOK, FrameEntered, CallBegun, Started
<1>4. TrapsInOrder' /\ BasesKept'
  BY <1>1, EnterTraps, EnterBases
<1>5. CallersKept'
  BY <1>1, BeginCallers
<1>6. Nested'
  BY <1>1, <1>2, BeginNested
<1>7. RootsPlaced'
  BY <1>1, BeginRoots
<1>8. SuspendedKept' /\ Counted'
  BY <1>1, BeginSuspended, BeginCounted
<1>9. OneFrameEach'
  BY <1>1, EachEntered
<1> QED
  BY <1>3, <1>4, <1>5, <1>6, <1>7, <1>8, <1>9 DEF Good

\* A frame is left that is not the first of its activation.
LEMMA FrameGone ==
  ASSUME Good, mode' = mode, InScript, raising' \in BOOLEAN, suspended' = suspended, susp' = susp,
         FrameLeft, ~frames[Len(frames)].root, Stopped(frames[Len(frames)].gen),
         SameCalls(-frames[Len(frames)].etraps)
  PROVE  Good'
<1> DEFINE e == frames[Len(frames)].etraps
<1>1. /\ TypeOK /\ TrapsInOrder /\ BasesKept /\ CallersKept
      /\ Nested /\ RootsPlaced /\ SuspendedKept /\ Counted /\ OneFrameEach
  BY DEF Good
<1>2. /\ Len(ctl) \in Nat \ {0} /\ Len(frames) \in Nat \ {0} /\ ~ctl[Len(ctl)].native
      /\ ctl[Len(ctl)].depth \in Nat /\ ctl[Len(ctl)].depth < Len(frames)
      /\ ctl[Len(ctl)].depth # Len(frames) - 1
  BY <1>1, ScriptOnTop
<1>3. /\ frames[Len(frames)].prev \in Int /\ e \in Nat
      /\ frames[Len(frames)].below \in Nat
  <2>1. Len(frames) \in 1 .. Len(frames)
    BY <1>2
  <2> QED
    BY <2>1, <1>1, FrameTypes
<1>4. TypeOK'
  BY <1>1, <1>3 DEF TypeOK, FrameLeft, SameCalls, Stopped
<1>5. TrapsInOrder' /\ BasesKept'
  BY <1>1, LeaveTraps, LeaveBases
<1>6. /\ Len(ctl') = Len(ctl)
      /\ \A k \in 1 .. Len(ctl) :
           /\ ctl'[k].native = ctl[k].native /\ ctl'[k].depth = ctl[k].depth
           /\ ctl'[k].base = ctl[k].base
  BY DEF SameCalls
<1>7. /\ Len(frames') = Len(frames) - 1
      /\ \A i \in 1 .. Len(frames) - 1 : frames'[i] = frames[i]
  BY DEF FrameLeft
<1>8. Len(ctl') \in 0 .. Len(ctl) /\ Len(frames') \in 0 .. Len(frames)
  BY <1>2, <1>6, <1>7
<1>9. CallersKept'
  BY <1>1, <1>6, <1>7, <1>8, CallersStay
<1>10. Nested'
  <2>1. Len(frames') \in Nat /\ ctl[Len(ctl)].depth < Len(frames')
    BY <1>2, <1>7
  <2> QED
    BY <2>1, <1>1, <1>2, <1>6, NestedStays
<1>11. RootsPlaced'
  BY <1>1, <1>6, <1>7, <1>8, RootsStayPlaced
<1>12. SuspendedKept'
  BY <1>1, <1>2, <1>6, <1>7, SuspendedStays
<1>13. Counted'
  <2>1. Len(etraps') = frames[Len(frames)].below /\ frames[Len(frames)].below + e = Len(etraps)
    BY <1>1, <1>2 DEF FrameLeft, TrapsInOrder
  <2>2. Len(etraps') = Len(etraps) + (-e) /\ -e \in Int
    BY ONLY <2>1, <1>3
  <2>3. \A i \in 1 .. ctl[Len(ctl)].depth + 1 : i \in 1 .. Len(frames) - 1
    BY ONLY <1>2
  <2>4. \A i \in 1 .. ctl[Len(ctl)].depth + 1 : frames'[i].below = frames[i].below
    BY <2>3, <1>7
  <2>5. PICK d \in Int : d = -e
    BY <2>2
  <2>6. SameCalls(d) /\ Len(etraps') = Len(etraps) + d /\ Len(ctl) > 0
    BY <2>2, <2>5, <1>2
  <2> QED
    BY <2>4, <2>6, <1>1, CountedStays
<1>14. OneFrameEach'
  BY <1>1, EachLeft
<1> QED
  BY <1>4, <1>5, <1>9, <1>10, <1>11, <1>12, <1>13, <1>14 DEF Good

\* An activation ends when its first frame is left.
LEMMA CallGone ==
  ASSUME Good, mode' = mode, raising' \in BOOLEAN, raising' => ctl[Len(ctl)].native,
         suspended' = suspended, susp' = susp,
         FrameLeft, Stopped(frames[Len(frames)].gen), CallEnded,
         ctl[Len(ctl)].depth = Len(frames) - 1
  PROVE  Good'
<1>1. /\ TypeOK /\ TrapsInOrder /\ BasesKept /\ CallersKept
      /\ Nested /\ RootsPlaced /\ SuspendedKept /\ Counted /\ OneFrameEach
  BY DEF Good
<1>2. frames[Len(frames)].prev \in Int
  <2>1. Len(frames) \in 1 .. Len(frames)
    BY <1>1, Sizes DEF FrameLeft
  <2> QED
    BY <2>1, <1>1, FrameTypes
<1>3. TypeOK'
  BY <1>1, <1>2 DEF TypeOK, FrameLeft, CallEnded, Stopped
<1>4. /\ Len(frames') = Len(frames) - 1
      /\ \A i \in 1 .. Len(frames) - 1 : frames'[i] = frames[i]
      /\ Len(ctl') = Len(ctl) - 1 /\ Len(ctl) > 0 /\ Len(ctl) \in Nat
      /\ \A k \in 1 .. Len(ctl) - 1 : ctl'[k] = ctl[k]
  BY <1>1, Sizes DEF FrameLeft, CallEnded
<1>5. TrapsInOrder' /\ BasesKept'
  BY <1>1, LeaveTraps, LeaveBases
<1>6. CallersKept'
  <2>1. Len(ctl') \in 0 .. Len(ctl)
    BY <1>4
  <2>2. \A k \in 1 .. Len(ctl') : ctl'[k].depth = ctl[k].depth /\ ctl'[k].base = ctl[k].base
    BY <1>4
  <2> QED
    BY <2>1, <2>2, <1>1, <1>4, CallersStay
<1>7. Nested'
  BY <1>1, <1>4, EndNested
<1>8. RootsPlaced' /\ SuspendedKept' /\ Counted'
  BY <1>1, EndRoots, EndSuspended, EndCounted
<1>9. OneFrameEach'
  BY <1>1, EachLeft
<1> QED
  BY <1>3, <1>5, <1>6, <1>7, <1>8, <1>9 DEF Good

(***************************************************************************)
(* The operators of the model                                              *)
(***************************************************************************)
\* EXCEPT on a sequence, entry by entry.
LEMMA SetFacts ==
  ASSUME NEW S, NEW s \in Seq(S), NEW i \in 1 .. Len(s), NEW x \in S
  PROVE  /\ [s EXCEPT ![i] = x] \in Seq(S)
         /\ Len([s EXCEPT ![i] = x]) = Len(s)
         /\ [s EXCEPT ![i] = x][i] = x
         /\ \A j \in 1 .. Len(s) : j # i => [s EXCEPT ![i] = x][j] = s[j]
  OBVIOUS

\* What concatenation keeps of its first operand.
LEMMA ConcatFacts ==
  ASSUME NEW S, NEW s \in Seq(S), NEW r \in Seq(S)
  PROVE  /\ s \o r \in Seq(S) /\ Len(s \o r) = Len(s) + Len(r)
         /\ \A i \in 1 .. Len(s) : (s \o r)[i] = s[i]
  OBVIOUS

\* Reverse keeps the type and the length.
LEMMA ReverseFacts ==
  ASSUME NEW S, NEW s \in Seq(S)
  PROVE  Reverse(s) \in Seq(S) /\ Len(Reverse(s)) = Len(s)
<1>1. Len(s) \in Nat /\ \A i \in 1 .. Len(s) : s[i] \in S
  OBVIOUS
<1>2. \A i \in 1 .. Len(s) : (Len(s) - i) + 1 \in 1 .. Len(s)
  BY <1>1
<1>3. Reverse(s) = [i \in 1 .. Len(s) |-> s[(Len(s) - i) + 1]]
  BY DEF Reverse
<1> QED
  BY <1>1, <1>2, <1>3

\* SetTraps changes the count of the innermost activation only.
LEMMA CallsSet ==
  ASSUME TypeOK, Len(ctl) > 0, NEW d \in Int, ctl' = SetTraps(ctl, d)
  PROVE  SameCalls(d)
<1> DEFINE c == Len(ctl)
           x == [ctl[c] EXCEPT !.traps = @ + d]
<1>1. ctl \in Seq(Calls) /\ c \in 1 .. Len(ctl)
  BY Sizes DEF TypeOK
<1>2. ctl[c] \in Calls
  BY <1>1
<1>3. /\ x \in Calls /\ x.native = ctl[c].native /\ x.depth = ctl[c].depth /\ x.base = ctl[c].base
      /\ x.traps = ctl[c].traps + d
  BY <1>2 DEF Calls
<1>4. ctl' = [ctl EXCEPT ![c] = x]
  BY DEF SetTraps
<1> HIDE DEF x
<1>5. /\ ctl' \in Seq(Calls) /\ Len(ctl') = Len(ctl) /\ ctl'[c] = x
      /\ \A k \in 1 .. Len(ctl) : k # c => ctl'[k] = ctl[k]
  BY <1>1, <1>3, <1>4, SetFacts
<1>6. ASSUME NEW k \in 1 .. Len(ctl)
      PROVE  /\ ctl'[k].native = ctl[k].native /\ ctl'[k].depth = ctl[k].depth /\ ctl'[k].base = ctl[k].base
             /\ ctl'[k].traps = (IF k = Len(ctl) THEN ctl[k].traps + d ELSE ctl[k].traps)
  <2>1. CASE k = c
    BY <2>1, <1>3, <1>5
  <2>2. CASE k # c
    BY <2>2, <1>5
  <2> QED
    BY <2>1, <2>2
<1> QED
  BY <1>5, <1>6 DEF SameCalls

\* No change is a change by no traps.
LEMMA CallsUnchanged ==
  ASSUME TypeOK, ctl' = ctl
  PROVE  SameCalls(0)
<1>1. \A k \in 1 .. Len(ctl) : ctl[k].traps \in Int
  BY CallTypes
<1>2. \A k \in 1 .. Len(ctl) : ctl[k].traps + 0 = ctl[k].traps
  BY <1>1
<1>3. ctl' \in Seq(Calls)
  BY DEF TypeOK
<1> QED
  BY <1>2, <1>3 DEF SameCalls

\* SetEtraps changes the count of the last frame only.
LEMMA TrapsSet ==
  ASSUME TypeOK, Len(frames) > 0, NEW d \in Int, frames[Len(frames)].etraps + d \in Nat,
         frames' = SetEtraps(frames, d),
         etraps' \in Seq(Int), Len(etraps') = Len(etraps) + d,
         \A k \in 1 .. Len(etraps) : k <= Len(etraps') => etraps'[k] = etraps[k]
  PROVE  TrapsMoved(d)
<1> DEFINE n == Len(frames)
           x == [frames[n] EXCEPT !.etraps = @ + d]
<1>1. frames \in Seq(CallInfo) /\ n \in 1 .. Len(frames)
  BY Sizes DEF TypeOK
<1>2. frames[n] \in CallInfo
  BY <1>1
<1>3. /\ x \in CallInfo /\ x.prev = frames[n].prev /\ x.gen = frames[n].gen
      /\ x.root = frames[n].root /\ x.native = frames[n].native
      /\ x.base = frames[n].base /\ x.below = frames[n].below
      /\ x.etraps = frames[n].etraps + d
  BY <1>2 DEF CallInfo
<1>4. frames' = [frames EXCEPT ![n] = x]
  BY DEF SetEtraps
<1> HIDE DEF x
<1>5. /\ frames' \in Seq(CallInfo) /\ Len(frames') = Len(frames) /\ frames'[n] = x
      /\ \A k \in 1 .. Len(frames) : k # n => frames'[k] = frames[k]
  BY <1>1, <1>3, <1>4, SetFacts
<1>6. ASSUME NEW i \in 1 .. Len(frames)
      PROVE  /\ frames'[i].prev = frames[i].prev /\ frames'[i].gen = frames[i].gen
             /\ frames'[i].root = frames[i].root /\ frames'[i].native = frames[i].native
             /\ frames'[i].base = frames[i].base /\ frames'[i].below = frames[i].below
             /\ frames'[i].etraps = (IF i = Len(frames) THEN frames[i].etraps + d ELSE frames[i].etraps)
  <2>1. CASE i = n
    BY <2>1, <1>3, <1>5
  <2>2. CASE i # n
    BY <2>2, <1>5
  <2> QED
    BY <2>1, <2>2
<1> QED
  BY <1>5, <1>6 DEF TrapsMoved

\* A call enters a frame without traps or generator.
LEMMA EnterNew ==
  ASSUME TypeOK, NEW root \in BOOLEAN, NEW native \in BOOLEAN,
         Enter(Frame(CallOffset, NoGen, 0, root, native)), etraps' = etraps, gens' = gens
  PROVE  /\ FrameEntered(Frame(CallOffset, NoGen, 0, root, native))
         /\ Started(Frame(CallOffset, NoGen, 0, root, native).gen)
<1> DEFINE f == Frame(CallOffset, NoGen, 0, root, native)
<1>1. frames \in Seq(CallInfo) /\ stackbase \in Int /\ etraps \in Seq(Int) /\ Len(etraps) \in Nat
  BY Sizes DEF TypeOK
<1>2. /\ f.prev = 1 /\ f.gen = NoGen /\ f.etraps = 0 /\ f.root = root /\ f.native = native
      /\ f.base = stackbase + f.prev /\ f.below = Len(etraps)
      /\ f \in CallInfo
  BY <1>1 DEF Frame, CallOffset, CallInfo
<1>3. frames' = Append(frames, f) /\ stackbase' = stackbase + f.prev
  BY DEF Enter
<1> HIDE DEF f
<1>4. /\ frames' \in Seq(CallInfo) /\ Len(frames') = Len(frames) + 1
      /\ \A i \in 1 .. Len(frames) : frames'[i] = frames[i]
      /\ frames'[Len(frames) + 1] = f
  BY <1>1, <1>2, <1>3, PushFacts
<1>5. Len(etraps') = Len(etraps) + f.etraps
  BY <1>1, <1>2
<1>6. FrameEntered(f)
  BY <1>1, <1>2, <1>3, <1>4, <1>5 DEF FrameEntered
<1>7. Started(f.gen)
  BY <1>2, GensAssumption DEF Started, TypeOK
<1> QED
  BY <1>6, <1>7 DEF f

\* SQGenerator::Resume enters a frame with the traps that Yield had kept.
LEMMA EnterResumed ==
  ASSUME TypeOK, OneFrameEach, NEW g \in Gens, gens[g].state = "suspended",
         NEW root \in BOOLEAN, Resumed(g, root)
  PROVE  /\ FrameEntered(ResumedFrame(g, root)) /\ Started(g)
         /\ ResumedFrame(g, root).gen = g /\ ResumedFrame(g, root).root = root
         /\ ~ResumedFrame(g, root).native
         /\ ResumedFrame(g, root).etraps = Len(gens[g].traps)
         /\ Len(gens[g].traps) \in Int
<1> DEFINE f == ResumedFrame(g, root)
           s == gens[g].traps
<1>1. frames \in Seq(CallInfo) /\ stackbase \in Int /\ etraps \in Seq(Int) /\ Len(etraps) \in Nat
  BY Sizes DEF TypeOK
<1>2. gens \in [Gens -> Generator] /\ gens[g] \in Generator /\ s \in Seq(Int) /\ Len(s) \in Nat
  BY DEF TypeOK, Generator
<1>3. Reverse(s) \in Seq(Int) /\ Len(Reverse(s)) = Len(s)
  BY <1>2, ReverseFacts
<1>4. /\ f.prev = 2 /\ f.gen = g /\ f.etraps = Len(s) /\ f.root = root /\ f.native = FALSE
      /\ f.base = stackbase + f.prev /\ f.below = Len(etraps)
      /\ f \in CallInfo
  BY <1>1, <1>2 DEF ResumedFrame, Frame, FrameSize, CallInfo
<1>5. /\ frames' = Append(frames, f) /\ stackbase' = stackbase + f.prev
      /\ etraps' = etraps \o Reverse(s)
      /\ gens' = [gens EXCEPT ![g].state = "running", ![g].traps = <<>>]
  BY DEF Resumed, Enter
<1>6. TrapsStay => Len(s) = 0
  BY DEF OneFrameEach
<1>7. Started(g)
  <2>1. gens' \in [Gens -> Generator]
    <3>1. <<>> \in Seq(Int)
      OBVIOUS
    <3>2. [gens[g] EXCEPT !.state = "running", !.traps = <<>>] \in Generator
      BY <3>1, <1>2 DEF Generator
    <3>3. gens' = [gens EXCEPT ![g] = [gens[g] EXCEPT !.state = "running", !.traps = <<>>]]
      BY <1>2, <1>5
    <3> QED
      BY <3>2, <3>3, <1>2
  <2>2. \A h \in Gens \ {g} : gens'[h] = gens[h]
    BY <1>2, <1>5
  <2>3. gens'[g].state = "running" /\ gens'[g].traps = <<>>
    BY <1>2, <1>5 DEF Generator
  <2> QED
    BY <2>1, <2>2, <2>3 DEF Started
<1> HIDE DEF f, s
<1>8. /\ frames' \in Seq(CallInfo) /\ Len(frames') = Len(frames) + 1
      /\ \A i \in 1 .. Len(frames) : frames'[i] = frames[i]
      /\ frames'[Len(frames) + 1] = f
  BY <1>1, <1>4, <1>5, PushFacts
<1>9. /\ etraps' \in Seq(Int) /\ Len(etraps') = Len(etraps) + f.etraps
      /\ \A k \in 1 .. Len(etraps) : etraps'[k] = etraps[k]
  <2>1. ASSUME NEW r \in Seq(Int), etraps' = etraps \o r, Len(r) = f.etraps
        PROVE  /\ etraps' \in Seq(Int) /\ Len(etraps') = Len(etraps) + f.etraps
               /\ \A k \in 1 .. Len(etraps) : etraps'[k] = etraps[k]
    <3>1. /\ etraps \o r \in Seq(Int) /\ Len(etraps \o r) = Len(etraps) + Len(r)
          /\ \A k \in 1 .. Len(etraps) : (etraps \o r)[k] = etraps[k]
      BY ONLY <1>1, <2>1, ConcatFacts, Zenon
    <3> QED
      BY <2>1, <3>1, Zenon
  <2> QED
    BY <2>1, <1>3, <1>4, <1>5
<1>10. FrameEntered(f)
  BY <1>1, <1>4, <1>5, <1>6, <1>8, <1>9 DEF FrameEntered
<1> QED
  BY <1>2, <1>4, <1>7, <1>10 DEF f, s

\* ci is left with its traps; those below it stay.
LEMMA Leaving ==
  ASSUME TypeOK, TrapsInOrder, Len(frames) > 0, LeaveFrame,
         \/ frames[Len(frames)].etraps = 0 /\ etraps' = etraps
         \/ etraps' = SubSeq(etraps, 1, Len(etraps) - frames[Len(frames)].etraps)
  PROVE  FrameLeft
<1> DEFINE n == Len(frames)
           b == frames[n].below
<1>1. /\ frames \in Seq(CallInfo) /\ etraps \in Seq(Int)
      /\ n \in Nat \ {0} /\ Len(etraps) \in Nat
  BY Sizes DEF TypeOK
<1>2. /\ frames' \in Seq(CallInfo) /\ Len(frames') = n - 1
      /\ \A i \in 1 .. n - 1 : frames'[i] = frames[i]
      /\ ci = frames[n]
  BY <1>1, PopFacts DEF LeaveFrame, ci
<1>3. stackbase' = stackbase - frames[n].prev
  BY <1>2 DEF LeaveFrame
<1>4. n \in 1 .. n
  BY <1>1
<1>5. b \in Nat /\ frames[n].etraps \in Nat /\ b + frames[n].etraps = Len(etraps)
  BY <1>1, <1>4, FrameTypes DEF TrapsInOrder
<1>6. Len(etraps) - frames[n].etraps = b /\ b <= Len(etraps)
  BY ONLY <1>1, <1>5
<1>7. etraps' \in Seq(Int) /\ Len(etraps') = b /\ \A k \in 1 .. b : etraps'[k] = etraps[k]
  <2>1. CASE frames[n].etraps = 0 /\ etraps' = etraps
    BY <2>1, <1>1, <1>5
  <2>2. CASE etraps' = SubSeq(etraps, 1, Len(etraps) - frames[n].etraps)
    <3>1. \A k \in 1 .. b : etraps[k] \in Int
      BY ONLY <1>1, <1>5, <1>6
    <3>2. etraps' = SubSeq(etraps, 1, b)
      BY <2>2, <1>6
    <3> HIDE DEF b
    <3>3. ASSUME NEW m \in Nat, \A k \in 1 .. m : etraps[k] \in Int
          PROVE  /\ SubSeq(etraps, 1, m) \in Seq(Int) /\ Len(SubSeq(etraps, 1, m)) = m
                 /\ \A k \in 1 .. m : SubSeq(etraps, 1, m)[k] = etraps[k]
      BY <3>3, SubSeqProperties, Z3
    <3> QED
      BY <3>1, <3>2, <3>3, <1>5
  <2> QED
    BY <2>1, <2>2
<1> QED
  BY <1>1, <1>2, <1>3, <1>7 DEF FrameLeft

\* SQGenerator::Kill stops the generator and moves no trap.
LEMMA Killing ==
  ASSUME TypeOK, OneFrameEach, NEW g \in Gens \cup {NoGen}, gens' = Kill(gens, g)
  PROVE  Stopped(g)
<1>1. gens \in [Gens -> Generator]
  BY DEF TypeOK
<1>2. TrapsStay => \A h \in Gens : gens[h].traps = <<>>
  BY DEF OneFrameEach
<1>3. CASE g \in Gens
  <2>1. gens' = [gens EXCEPT ![g].state = "dead"]
    BY <1>3 DEF Kill
  <2>2. gens' \in [Gens -> Generator] /\ gens'[g].state = "dead" /\ gens'[g].traps = gens[g].traps
    BY <2>1, <1>1, <1>3 DEF Generator
  <2>3. \A h \in Gens \ {g} : gens'[h] = gens[h]
    BY <2>1, <1>1
  <2> QED
    BY <2>2, <2>3, <1>2 DEF Stopped
<1>4. CASE g \notin Gens
  BY <1>1, <1>4 DEF Kill, Stopped
<1> QED
  BY <1>3, <1>4

\* A C++ call of Execute or of a native function.
LEMMA CallsPush ==
  ASSUME TypeOK, NEW native \in BOOLEAN, NEW m \in Int, ctl' = Append(ctl, Activation(native, m))
  PROVE  CallBegun(native, m)
<1> DEFINE x == Activation(native, m)
<1>1. ctl \in Seq(Calls) /\ Len(frames) \in Nat /\ stackbase \in Int
  BY Sizes DEF TypeOK
<1>2. x = [native |-> native, traps |-> m, depth |-> Len(frames), base |-> stackbase] /\ x \in Calls
  BY <1>1 DEF Activation, Calls
<1>3. ctl' = Append(ctl, x)
  OBVIOUS
<1> HIDE DEF x
<1>4. /\ ctl' \in Seq(Calls) /\ Len(ctl') = Len(ctl) + 1
      /\ \A k \in 1 .. Len(ctl) : ctl'[k] = ctl[k]
      /\ ctl'[Len(ctl) + 1] = x
  BY <1>1, <1>2, <1>3, PushFacts
<1> QED
  BY <1>2, <1>4 DEF CallBegun

\* Its return.
LEMMA CallsPop ==
  ASSUME TypeOK, Len(ctl) > 0, ctl' = Front(ctl)
  PROVE  CallEnded
<1>1. ctl \in Seq(Calls)
  BY DEF TypeOK
<1>2. /\ ctl' \in Seq(Calls) /\ Len(ctl') = Len(ctl) - 1
      /\ \A k \in 1 .. Len(ctl) - 1 : ctl'[k] = ctl[k]
  BY <1>1, PopFacts
<1> QED
  BY <1>2 DEF CallEnded

\* A native function that runs does so in the last frame, which holds nothing.
LEMMA NativeOnTop ==
  ASSUME TypeOK, Nested, RootsPlaced, InNative, Len(ctl) > 0
  PROVE  /\ Len(ctl) \in Nat \ {0} /\ Len(frames) \in Nat \ {0}
         /\ ctl[Len(ctl)].native /\ ctl[Len(ctl)].depth = Len(frames) - 1
         /\ ci = frames[Len(frames)]
         /\ frames[Len(frames)].etraps = 0 /\ frames[Len(frames)].gen = NoGen
<1> DEFINE n == Len(frames)
           c == Len(ctl)
<1>1. c \in Nat \ {0} /\ ctl[c].native
  BY SeqFacts DEF InNative, InScript, Last, TypeOK
<1>2. ctl[c].depth \in Nat /\ n = ctl[c].depth + 1
  BY <1>1, CallTypes DEF Nested
<1>3. ctl[c].depth = n - 1 /\ n \in Nat \ {0} /\ c \in 1 .. c
  BY ONLY <1>1, <1>2
<1>4. n \in 1 .. n
  BY <1>3
<1>5. frames[n].native
  BY <1>1, <1>3, <1>4 DEF RootsPlaced
<1>6. frames[n].etraps = 0 /\ frames[n].gen = NoGen
  BY <1>4, <1>5 DEF RootsPlaced
<1>7. ci = frames[n]
  BY DEF ci, Last
<1> QED
  BY <1>1, <1>3, <1>6, <1>7

\* Nothing happens to the stacks.
LEMMA StacksKept ==
  ASSUME Good, mode' = mode, UNCHANGED <<frames, stackbase, etraps, ctl, suspended, susp>>,
         raising' \in BOOLEAN, raising' => InScript,
         gens' \in [Gens -> Generator],
         \A g \in Gens : /\ gens'[g].state = "running" <=> gens[g].state = "running"
                         /\ gens'[g].traps \in {gens[g].traps, <<>>}
  PROVE  Good'
<1>1. /\ TypeOK /\ TrapsInOrder /\ BasesKept /\ CallersKept
      /\ Nested /\ RootsPlaced /\ SuspendedKept /\ Counted /\ OneFrameEach
  BY DEF Good
<1>2. TypeOK'
  BY <1>1 DEF TypeOK
<1>3. TrapsInOrder'
  BY <1>1 DEF TrapsInOrder
<1>4. BasesKept' /\ CallersKept'
  BY <1>1 DEF BasesKept, CallersKept, TrapsStay
<1>5. Nested'
  <2>1. InScript => Len(ctl) > 0 /\ ~ctl[Len(ctl)].native
    BY <1>1, SeqFacts DEF InScript, Last, TypeOK
  <2> QED
    BY <1>1, <2>1 DEF Nested
<1>6. RootsPlaced'
  BY <1>1 DEF RootsPlaced
<1>7. SuspendedKept'
  BY <1>1 DEF SuspendedKept
<1>8. Counted'
  BY <1>1 DEF Counted, TrapsStay
<1>9. OneFrameEach'
  BY <1>1, EachStays
<1> QED
  BY <1>2, <1>3, <1>4, <1>5, <1>6, <1>7, <1>8, <1>9 DEF Good

(***************************************************************************)
(* The instructions                                                        *)
(***************************************************************************)
\* An error leaves everything to the rounds of exception_trap.
LEMMA ThrowStep ==
  ASSUME Good, mode' = mode, Throw
  PROVE  Good'
<1>1. gens' \in [Gens -> Generator] /\ gens' = gens
  BY DEF Throw, Good, TypeOK
<1> QED
  BY <1>1, StacksKept DEF Throw, Raise, Others

\* _OP_PUSHTRAP keeps the base of the running frame.
LEMMA PushTrapStep ==
  ASSUME Good, mode' = mode, PushTrap
  PROVE  Good'
<1>1. TypeOK /\ TrapsInOrder /\ Nested /\ RootsPlaced /\ InScript
  BY DEF Good, PushTrap
<1>2. Len(frames) \in Nat \ {0} /\ Len(ctl) \in Nat \ {0}
  BY <1>1, ScriptOnTop
<1>3. frames[Len(frames)].etraps \in Nat /\ frames[Len(frames)].etraps + 1 \in Nat
  <2>1. Len(frames) \in 1 .. Len(frames)
    BY <1>2
  <2> QED
    BY <2>1, <1>1, FrameTypes
<1>4. etraps \in Seq(Int) /\ stackbase \in Int
  BY <1>1 DEF TypeOK
<1>5. etraps' = Append(etraps, stackbase)
  BY DEF PushTrap
<1>6. /\ etraps' \in Seq(Int) /\ Len(etraps') = Len(etraps) + 1
      /\ \A k \in 1 .. Len(etraps) : etraps'[k] = etraps[k]
      /\ etraps'[Len(etraps) + 1] = stackbase
  BY <1>4, <1>5, PushFacts
<1>7. TrapsMoved(1)
  BY <1>1, <1>2, <1>3, <1>6, TrapsSet DEF PushTrap
<1>8. SameCalls(1)
  BY <1>1, <1>2, CallsSet DEF PushTrap
<1>9. stackbase' = stackbase /\ gens' = gens /\ raising' = FALSE /\ suspended' = suspended /\ susp' = susp
  BY DEF PushTrap, Calm, Others
<1>10. PICK d \in Int : d = 1
  OBVIOUS
<1>11. /\ TrapsMoved(d) /\ SameCalls(d) /\ stackbase' \in Int
       /\ d = 1 /\ stackbase' = stackbase /\ etraps'[Len(etraps) + 1] = stackbase
  BY <1>4, <1>6, <1>7, <1>8, <1>9, <1>10
<1> QED
  BY <1>1, <1>9, <1>11, Moved

\* A trap of ci goes, and the stack base stays or becomes the one it keeps.
LEMMA TrapGoes ==
  ASSUME Good, mode' = mode, InScript, ci.etraps > 0, etraps' = Front(etraps),
         frames' = SetEtraps(frames, -1), ctl' = SetTraps(ctl, -1),
         stackbase' \in {stackbase, Last(etraps)}, gens' = gens, Calm
  PROVE  Good'
<1>1. TypeOK /\ TrapsInOrder /\ Nested /\ RootsPlaced
  BY DEF Good
<1>2. Len(frames) \in Nat \ {0} /\ Len(ctl) \in Nat \ {0} /\ ci = frames[Len(frames)]
  BY <1>1, ScriptOnTop
<1>3. /\ frames[Len(frames)].etraps \in Nat \ {0} /\ frames[Len(frames)].below \in Nat
      /\ frames[Len(frames)].below + frames[Len(frames)].etraps = Len(etraps)
  <2>1. Len(frames) \in 1 .. Len(frames)
    BY <1>2
  <2>2. frames[Len(frames)].etraps \in Nat /\ frames[Len(frames)].below \in Nat
    BY <2>1, <1>1, FrameTypes
  <2> QED
    BY <2>2, <1>1, <1>2 DEF TrapsInOrder
<1>4. Len(etraps) > 0 /\ frames[Len(frames)].etraps + (-1) \in Nat
  BY ONLY <1>3
<1>5. etraps \in Seq(Int) /\ stackbase \in Int
  BY <1>1 DEF TypeOK
<1>6. /\ etraps' \in Seq(Int) /\ Len(etraps') = Len(etraps) - 1 /\ Len(etraps) \in Nat
      /\ \A k \in 1 .. Len(etraps) - 1 : etraps'[k] = etraps[k]
      /\ Last(etraps) = etraps[Len(etraps)] /\ Last(etraps) \in Int
  BY <1>4, <1>5, PopFacts
<1>7. /\ Len(etraps') = Len(etraps) + (-1)
      /\ \A k \in 1 .. Len(etraps) : k <= Len(etraps') => etraps'[k] = etraps[k]
  <2>1. \A k \in 1 .. Len(etraps) : k <= Len(etraps') => k \in 1 .. Len(etraps) - 1
    BY ONLY <1>6
  <2> QED
    BY <2>1, <1>6
<1>8. TrapsMoved(-1)
  BY <1>1, <1>2, <1>4, <1>6, <1>7, TrapsSet
<1>9. SameCalls(-1)
  BY <1>1, <1>2, CallsSet
<1>10. stackbase' \in Int /\ stackbase' \in {stackbase, etraps[Len(etraps)]}
  BY <1>5, <1>6
<1>11. PICK d \in Int : d = -1
  OBVIOUS
<1>12. /\ TrapsMoved(d) /\ SameCalls(d) /\ stackbase' \in Int
       /\ d = -1 /\ stackbase' \in {stackbase, etraps[Len(etraps)]}
  BY <1>8, <1>9, <1>10, <1>11
<1> QED
  BY <1>12, Moved DEF Calm, Others

\* _OP_POPTRAP takes away a trap of the running frame.
LEMMA PopTrapStep ==
  ASSUME Good, mode' = mode, PopTrap
  PROVE  Good'
  BY TrapGoes DEF PopTrap

\* _OP_CALL of a closure stays in the same activation.
LEMMA CallStep ==
  ASSUME Good, mode' = mode, Call
  PROVE  Good'
<1> DEFINE f == Frame(CallOffset, NoGen, 0, FALSE, FALSE)
<1>1. TypeOK
  BY DEF Good
<1>2. /\ InScript /\ raising' = FALSE /\ suspended' = suspended /\ susp' = susp
      /\ Enter(f) /\ etraps' = etraps /\ gens' = gens /\ ctl' = ctl
  BY DEF Call, Calm, Others
<1>3. FrameEntered(f) /\ Started(f.gen)
  BY <1>1, <1>2, EnterNew
<1>4. ~f.root /\ ~f.native /\ f.etraps = 0
  BY DEF Frame
<1>5. SameCalls(0)
  BY <1>1, <1>2, CallsUnchanged
<1>6. PICK d \in Int : d = 0
  OBVIOUS
<1> HIDE DEF f
<1>7. SameCalls(d) /\ d = f.etraps
  BY <1>4, <1>5, <1>6
<1> QED
  BY <1>2, <1>3, <1>4, <1>7, Entered

\* A call of a generator function leaves no trace on the stacks.
LEMMA CallGeneratorStep ==
  ASSUME Good, mode' = mode, NEW g \in Gens, CallGenerator(g)
  PROVE  Good'
<1> DEFINE x == [state |-> "suspended", traps |-> <<>>, root |-> FALSE]
<1>1. gens \in [Gens -> Generator] /\ gens[g].state \in {"none", "dead"} /\ gens' = [gens EXCEPT ![g] = x]
  BY DEF CallGenerator, Good, TypeOK
<1>2. x \in Generator
  <2>1. <<>> \in Seq(Int)
    OBVIOUS
  <2> QED
    BY <2>1 DEF Generator
<1>3. x.state = "suspended" /\ x.traps = <<>>
  OBVIOUS
<1> HIDE DEF x
<1>4. gens' \in [Gens -> Generator] /\ gens'[g] = x /\ \A h \in Gens \ {g} : gens'[h] = gens[h]
  BY <1>1, <1>2
<1>5. \A h \in Gens : /\ gens'[h].state = "running" <=> gens[h].state = "running"
                      /\ gens'[h].traps \in {gens[h].traps, <<>>}
  BY <1>1, <1>3, <1>4
<1>6. UNCHANGED <<frames, stackbase, etraps, ctl, suspended, susp>> /\ raising' = FALSE
  BY DEF CallGenerator, Calm, Others
<1> QED
  BY <1>4, <1>5, <1>6, StacksKept

\* ci is left with the count of its traps taken from that of its activation, which
\* ends if it is its first frame.
LEMMA ScriptLeaves ==
  ASSUME Good, mode' = mode, InScript, FrameLeft, Stopped(frames[Len(frames)].gen),
         suspended' = suspended, susp' = susp, raising' \in BOOLEAN,
         \/ ~frames[Len(frames)].root /\ SameCalls(-frames[Len(frames)].etraps)
         \/ frames[Len(frames)].root /\ CallEnded /\ raising' = FALSE
  PROVE  Good'
<1>1. TypeOK /\ Nested /\ RootsPlaced
  BY DEF Good
<1>2. frames[Len(frames)].root <=> ctl[Len(ctl)].depth = Len(frames) - 1
  BY <1>1, ScriptOnTop
<1>3. CASE ~frames[Len(frames)].root /\ SameCalls(-frames[Len(frames)].etraps)
  BY <1>3, FrameGone
<1>4. CASE frames[Len(frames)].root /\ CallEnded /\ raising' = FALSE
  BY <1>2, <1>4, CallGone
<1> QED
  BY <1>3, <1>4

\* A frame without traps is left; its generator, if it is one's, is dead.
LEMMA TraplessLeaves ==
  ASSUME Good, mode' = mode, InScript, ci.etraps = 0, LeaveFrame, etraps' = etraps,
         gens' = Kill(gens, ci.gen), suspended' = suspended, susp' = susp, raising' \in BOOLEAN,
         \/ ~ci.root /\ ctl' = ctl
         \/ ci.root /\ ctl' = Front(ctl) /\ raising' = FALSE
  PROVE  Good'
<1>1. TypeOK /\ TrapsInOrder /\ Nested /\ RootsPlaced /\ OneFrameEach
  BY DEF Good
<1>2. Len(frames) \in Nat \ {0} /\ Len(ctl) \in Nat \ {0} /\ ci = frames[Len(frames)]
  BY <1>1, ScriptOnTop
<1>3. FrameLeft
  BY <1>1, <1>2, Leaving
<1>4. Stopped(frames[Len(frames)].gen)
  <2>1. Len(frames) \in 1 .. Len(frames)
    BY <1>2
  <2>2. frames[Len(frames)].gen \in Gens \cup {NoGen}
    BY <2>1, <1>1, FrameTypes
  <2> QED
    BY <2>2, <1>1, <1>2, Killing
<1>5. ctl' = ctl => SameCalls(-frames[Len(frames)].etraps)
  <2>1. -frames[Len(frames)].etraps = 0
    BY <1>2
  <2> QED
    BY <2>1, <1>1, CallsUnchanged
<1>6. ctl' = Front(ctl) => CallEnded
  BY <1>1, <1>2, CallsPop
<1> QED
  BY <1>2, <1>3, <1>4, <1>5, <1>6, ScriptLeaves

\* _OP_RETURN leaves a frame that has no traps.
LEMMA ReturnStep ==
  ASSUME Good, mode' = mode, Return
  PROVE  Good'
  BY TraplessLeaves DEF Return, EndIfRoot, Calm, Others

\* _OP_YIELD takes the traps of its frame along.
LEMMA YieldStep ==
  ASSUME Good, mode' = mode, Yield
  PROVE  Good'
<1> DEFINE n == frames[Len(frames)].etraps
           m == Len(etraps) - n
           g == frames[Len(frames)].gen
           s == SubSeq(etraps, m + 1, Len(etraps))
           x == [state |-> "suspended", traps |-> Reverse(s), root |-> frames[Len(frames)].root]
<1>1. TypeOK /\ TrapsInOrder /\ Nested /\ RootsPlaced /\ OneFrameEach /\ InScript
  BY DEF Good, Yield
<1>2. Len(frames) \in Nat \ {0} /\ Len(ctl) \in Nat \ {0} /\ ci = frames[Len(frames)]
  BY <1>1, ScriptOnTop
<1>3. /\ g # NoGen /\ (n > 0 => "yieldInTry" \in mode.features)
      /\ gens' = [gens EXCEPT ![g] = x]
      /\ etraps' = SubSeq(etraps, 1, m) /\ LeaveFrame
      /\ ctl' = EndIfRoot(SetTraps(ctl, -n))
      /\ raising' = FALSE /\ suspended' = suspended /\ susp' = susp
  BY <1>2 DEF Yield, Calm, Others
<1>4. Len(frames) \in 1 .. Len(frames)
  BY <1>2
<1>5. /\ n \in Nat /\ frames[Len(frames)].below \in Nat /\ g \in Gens
      /\ frames[Len(frames)].root \in BOOLEAN
      /\ frames[Len(frames)].below + n = Len(etraps) /\ Len(etraps) \in Nat
  BY <1>1, <1>2, <1>3, <1>4, FrameTypes, Sizes DEF TrapsInOrder
<1>6. m \in Nat /\ m + n = Len(etraps) /\ -n \in Int
  BY ONLY <1>5
<1>7. FrameLeft
  BY <1>1, <1>2, <1>3, Leaving
<1>8. etraps \in Seq(Int) /\ gens \in [Gens -> Generator]
  BY <1>1 DEF TypeOK
<1>9. s \in Seq(Int) /\ (n = 0 => Len(s) = 0)
  <2>1. \A i \in m + 1 .. Len(etraps) : etraps[i] \in Int
    <3>1. \A i \in m + 1 .. Len(etraps) : i \in 1 .. Len(etraps)
      BY <1>5, <1>6
    <3> QED
      BY <3>1, <1>8
  <2> HIDE DEF m, n
  <2>2. m + 1 \in Int /\ Len(etraps) \in Int /\ (n = 0 => m + 1 > Len(etraps))
    BY ONLY <1>5, <1>6
  <2>3. ASSUME NEW a \in Int, NEW b \in Int, \A i \in a .. b : etraps[i] \in Int
        PROVE  SubSeq(etraps, a, b) \in Seq(Int) /\ (a > b => Len(SubSeq(etraps, a, b)) = 0)
    BY <2>3, SubSeqProperties, Z3
  <2> QED
    BY <2>1, <2>2, <2>3
<1>10. Reverse(s) \in Seq(Int) /\ Len(Reverse(s)) = Len(s)
  BY <1>9, ReverseFacts
<1>11. Stopped(g)
  <2>1. x \in Generator /\ x.state = "suspended" /\ x.traps = Reverse(s)
    BY <1>5, <1>10 DEF Generator
  <2>2. TrapsStay => Reverse(s) = <<>>
    <3>1. TrapsStay => n = 0
      BY <1>3, <1>5 DEF TrapsStay
    <3>2. Len(Reverse(s)) = 0 => Reverse(s) = <<>>
      BY <1>10, SeqFacts
    <3> QED
      BY <3>1, <3>2, <1>9, <1>10
  <2> HIDE DEF x, s
  <2>3. gens' \in [Gens -> Generator] /\ gens'[g] = x /\ \A h \in Gens \ {g} : gens'[h] = gens[h]
    BY <2>1, <1>3, <1>5, <1>8
  <2> QED
    BY <2>1, <2>2, <2>3 DEF Stopped
<1> HIDE DEF n, m, s, x, g
<1>12. CASE frames[Len(frames)].root
  <2>1. ctl' = Front(SetTraps(ctl, -n))
    BY <1>2, <1>3, <1>12 DEF EndIfRoot
  <2>2. CallEnded
    <3> DEFINE c == Len(ctl)
               y == [ctl[c] EXCEPT !.traps = @ + (-n)]
               z == [ctl EXCEPT ![c] = y]
    <3>1. ctl \in Seq(Calls) /\ c \in 1 .. Len(ctl)
      BY <1>1, <1>2 DEF TypeOK
    <3>2. ctl[c] \in Calls
      BY <3>1
    <3>3. y \in Calls
      BY <3>2, <1>6 DEF Calls
    <3>4. ctl' = Front(z)
      BY <2>1 DEF SetTraps
    <3> HIDE DEF y
    <3>5. /\ z \in Seq(Calls) /\ Len(z) = Len(ctl)
          /\ \A k \in 1 .. Len(ctl) : k # c => z[k] = ctl[k]
      BY <3>1, <3>3, SetFacts
    <3> HIDE DEF z
    <3>6. /\ Front(z) \in Seq(Calls) /\ Len(Front(z)) = Len(z) - 1
          /\ \A k \in 1 .. Len(z) - 1 : Front(z)[k] = z[k]
      BY <3>5, <1>2, PopFacts
    <3>7. \A k \in 1 .. Len(ctl) - 1 : k \in 1 .. Len(ctl) /\ k # c
      BY <1>2
    <3>8. \A k \in 1 .. Len(ctl) - 1 : ctl'[k] = ctl[k]
      BY <3>4, <3>5, <3>6, <3>7
    <3>9. ctl' \in Seq(Calls) /\ Len(ctl') = Len(ctl) - 1 /\ Len(ctl) > 0
      BY <3>4, <3>5, <3>6, <1>2
    <3> QED
      BY ONLY <3>8, <3>9 DEF CallEnded
  <2> QED
    BY <2>2, <1>1, <1>3, <1>7, <1>11, <1>12, ScriptLeaves DEF g
<1>13. CASE ~frames[Len(frames)].root
  <2>1. ctl' = SetTraps(ctl, -n)
    BY <1>2, <1>3, <1>13 DEF EndIfRoot
  <2>2. SameCalls(-n)
    BY <2>1, <1>1, <1>2, <1>6, CallsSet
  <2> QED
    BY <2>2, <1>1, <1>3, <1>7, <1>11, <1>13, ScriptLeaves DEF g, n
<1> QED
  BY <1>12, <1>13

\* A round of exception_trap that finds a trap.
LEMMA CatchStep ==
  ASSUME Good, mode' = mode, InScript, Catch
  PROVE  Good'
  BY TrapGoes DEF Catch

\* A round that finds none: the frame is left, and the loop ends at the root.
LEMMA AbandonStep ==
  ASSUME Good, mode' = mode, InScript, Abandon
  PROVE  Good'
<1>1. TypeOK /\ TrapsInOrder /\ Nested /\ RootsPlaced /\ raising \in BOOLEAN
  BY DEF Good, TypeOK
<1>2. /\ Len(frames) \in Nat \ {0} /\ ci = frames[Len(frames)]
      /\ ctl[Len(ctl)].depth \in Nat /\ ctl[Len(ctl)].depth < Len(frames)
      /\ frames[Len(frames)].root <=> ctl[Len(ctl)].depth = Len(frames) - 1
  BY <1>1, ScriptOnTop
<1>3. Len(frames) = 1 => ci.root
  BY <1>2
<1>4. /\ ci.etraps = 0 /\ LeaveFrame /\ etraps' = etraps /\ gens' = Kill(gens, ci.gen)
      /\ suspended' = suspended /\ susp' = susp
  BY DEF Abandon, Others
<1>5. CASE ci.root
  <2>1. ctl' = Front(ctl) /\ raising' = FALSE
    BY <1>5 DEF Abandon
  <2> QED
    BY <2>1, <1>4, <1>5, TraplessLeaves
<1>6. CASE ~ci.root
  <2>1. ctl' = ctl /\ raising' = raising
    BY <1>3, <1>6 DEF Abandon
  <2> QED
    BY <2>1, <1>1, <1>4, <1>6, TraplessLeaves
<1> QED
  BY <1>5, <1>6

\* A native function has an activation and a frame of its own.
LEMMA CallNativeStep ==
  ASSUME Good, mode' = mode, CallNative
  PROVE  Good'
<1> DEFINE f == Frame(CallOffset, NoGen, 0, FALSE, TRUE)
<1>1. CASE Throw
  BY <1>1, ThrowStep
<1>2. CASE /\ Enter(f) /\ ctl' = Append(ctl, Native) /\ UNCHANGED <<etraps, gens>> /\ Calm
  <2>1. TypeOK /\ InScript
    BY DEF Good, CallNative
  <2>2. FrameEntered(f) /\ Started(f.gen)
    BY <2>1, <1>2, EnterNew
  <2>3. ~f.root /\ f.native /\ f.etraps = 0
    BY DEF Frame
  <2>4. CallBegun(TRUE, 0)
    <3>1. PICK m \in Int : m = 0
      OBVIOUS
    <3>2. ctl' = Append(ctl, Activation(TRUE, m))
      BY <3>1, <1>2 DEF Native
    <3>3. CallBegun(TRUE, m)
      BY <3>2, <2>1, CallsPush
    <3> QED
      BY <3>1, <3>3
  <2>5. f.native = TRUE
    BY DEF Frame
  <2> HIDE DEF f
  <2>6. CallBegun(f.native, f.etraps)
    BY <2>3, <2>4, <2>5
  <2> QED
    BY <2>1, <2>2, <2>3, <2>6, <1>2, Begun DEF Calm, Others
<1> QED
  BY <1>1, <1>2 DEF CallNative

\* A script resumes a generator, in a frame of its own activation.
LEMMA ScriptResumes ==
  ASSUME Good, RootsStay, mode' = mode, InScript, NEW g \in Gens, ScriptMayResume(g),
         gens[g].state = "suspended", Resumed(g, gens[g].root), Calm,
         \/ ctl' = SetTraps(ctl, Len(gens[g].traps))
         \/ ctl' = ctl /\ "foreach" \in mode.features
  PROVE  Good'
<1> DEFINE f == ResumedFrame(g, FALSE)
<1>1. TypeOK /\ Nested /\ RootsPlaced /\ OneFrameEach
  BY DEF Good
<1>2. gens[g].root = FALSE
  <2>1. gens[g].root \in BOOLEAN
    BY <1>1 DEF TypeOK, Generator
  <2> QED
    BY <2>1 DEF ScriptMayResume, RootsStay
<1>3. Len(ctl) > 0
  BY <1>1, ScriptOnTop
<1>4. Resumed(g, FALSE)
  BY <1>2
<1>5. /\ FrameEntered(f) /\ Started(g) /\ f.gen = g /\ f.root = FALSE /\ ~f.native
      /\ f.etraps = Len(gens[g].traps) /\ Len(gens[g].traps) \in Int
  BY <1>1, <1>4, EnterResumed
<1> HIDE DEF f
<1>6. CASE ctl' = SetTraps(ctl, Len(gens[g].traps))
  <2>1. SameCalls(f.etraps) /\ f.etraps \in Int
    BY <1>1, <1>3, <1>5, <1>6, CallsSet
  <2>2. PICK d \in Int : d = f.etraps
    BY <2>1
  <2>3. SameCalls(d)
    BY <2>1, <2>2
  <2> QED
    BY <2>2, <2>3, <1>5, Entered DEF Calm, Others
<1>7. CASE ctl' = ctl /\ "foreach" \in mode.features
  <2>1. TrapsStay => f.etraps = 0
    BY <1>5 DEF FrameEntered
  <2>2. PICK d \in Int : d = 0
    OBVIOUS
  <2>3. SameCalls(d)
    BY <2>2, <1>1, <1>7, CallsUnchanged
  <2>4. TrapsStay \/ "foreach" \notin mode.features => d = f.etraps
    BY <2>1, <2>2, <1>7
  <2> QED
    BY <2>3, <2>4, <1>5, Entered DEF Calm, Others
<1> QED
  BY <1>6, <1>7

\* _OP_RESUME adds the traps of the generator to the count.
LEMMA ResumeStep ==
  ASSUME Good, RootsStay, mode' = mode, NEW g \in Gens, Resume(g)
  PROVE  Good'
<1>1. CASE Throw
  BY <1>1, ThrowStep
<1>2. CASE /\ gens[g].state = "suspended" /\ Resumed(g, gens[g].root)
           /\ ctl' = SetTraps(ctl, Len(gens[g].traps)) /\ Calm
  BY <1>2, ScriptResumes DEF Resume
<1> QED
  BY <1>1, <1>2 DEF Resume

\* foreach over a generator does not.
LEMMA ForeachStep ==
  ASSUME Good, RootsStay, mode' = mode, NEW g \in Gens, Foreach(g)
  PROVE  Good'
<1>1. CASE Throw
  BY <1>1, ThrowStep
<1>2. CASE /\ gens[g].state = "suspended" /\ Resumed(g, gens[g].root)
           /\ UNCHANGED ctl /\ Calm
  BY <1>2, ScriptResumes DEF Foreach
<1> QED
  BY <1>1, <1>2 DEF Foreach

(***************************************************************************)
(* The host and native functions                                           *)
(***************************************************************************)
\* sq_call begins an activation with a root frame.
LEMMA HostCallStep ==
  ASSUME Good, mode' = mode, HostCall
  PROVE  Good'
<1> DEFINE f == Frame(CallOffset, NoGen, 0, TRUE, FALSE)
<1>1. /\ InNative /\ raising' = FALSE /\ suspended' = suspended /\ susp' = susp
      /\ Enter(f) /\ etraps' = etraps /\ gens' = gens /\ ctl' = Append(ctl, Execute(0))
  BY DEF HostCall, Calm, Others
<1>2. TypeOK
  BY DEF Good
<1>3. FrameEntered(f) /\ Started(f.gen)
  BY <1>1, <1>2, EnterNew
<1>4. f.root /\ f.native = FALSE /\ f.etraps = 0
  BY DEF Frame
<1>5. CallBegun(FALSE, 0)
  <2>1. PICK m \in Int : m = 0
    OBVIOUS
  <2>2. ctl' = Append(ctl, Activation(FALSE, m))
    BY <2>1, <1>1 DEF Execute
  <2>3. CallBegun(FALSE, m)
    BY <2>2, <1>2, CallsPush
  <2> QED
    BY <2>1, <2>3
<1> HIDE DEF f
<1>6. CallBegun(f.native, f.etraps)
  BY <1>4, <1>5
<1> QED
  BY <1>1, <1>3, <1>4, <1>6, Begun DEF InNative

\* sq_resume begins one with the frame of the generator, which becomes a root.
LEMMA HostResumeStep ==
  ASSUME Good, mode' = mode, NEW g \in Gens, HostResume(g)
  PROVE  Good'
<1> DEFINE f == ResumedFrame(g, TRUE)
<1>1. InNative /\ raising' = FALSE /\ suspended' = suspended /\ susp' = susp
  BY DEF HostResume
<1>2. TypeOK /\ OneFrameEach /\ gens \in [Gens -> Generator]
  BY DEF Good, TypeOK
<1>3. CASE UNCHANGED <<frames, stackbase, etraps, ctl, gens>>
  BY <1>1, <1>2, <1>3, StacksKept
<1>4. CASE /\ gens[g].state = "suspended" /\ Resumed(g, TRUE)
           /\ ctl' = Append(ctl, Execute(Len(gens[g].traps)))
  <2>1. /\ FrameEntered(f) /\ Started(g) /\ f.gen = g /\ f.root = TRUE /\ ~f.native
        /\ f.etraps = Len(gens[g].traps) /\ Len(gens[g].traps) \in Int
    BY <1>2, <1>4, EnterResumed
  <2>2. CallBegun(FALSE, Len(gens[g].traps))
    BY <2>1, <1>2, <1>4, CallsPush DEF Execute
  <2>3. f.native = FALSE
    BY DEF ResumedFrame, Frame
  <2> HIDE DEF f
  <2>4. CallBegun(f.native, f.etraps)
    BY <2>1, <2>2, <2>3
  <2> QED
    BY <2>1, <2>4, <1>1, Begun DEF InNative
<1> QED
  BY <1>3, <1>4 DEF HostResume

\* A native function leaves its frame, the last.
LEMMA NativeEndsStep ==
  ASSUME Good, mode' = mode, NativeEnds, raising' \in BOOLEAN, suspended' = suspended, susp' = susp
  PROVE  Good'
<1>1. TypeOK /\ TrapsInOrder /\ Nested /\ RootsPlaced /\ InNative /\ Len(ctl) > 0
  <2>1. ctl # <<>> /\ InNative /\ ctl \in Seq(Calls)
    BY DEF NativeEnds, Good, TypeOK
  <2>2. Len(ctl) # 0 /\ Len(ctl) \in Nat
    BY <2>1, SeqFacts
  <2> QED
    BY <2>1, <2>2 DEF Good
<1>2. /\ Len(ctl) \in Nat \ {0} /\ Len(frames) \in Nat \ {0}
      /\ ctl[Len(ctl)].native /\ ctl[Len(ctl)].depth = Len(frames) - 1
      /\ frames[Len(frames)].etraps = 0 /\ frames[Len(frames)].gen = NoGen
  BY <1>1, NativeOnTop
<1>3. LeaveFrame /\ ctl' = Front(ctl) /\ etraps' = etraps /\ gens' = gens
  BY DEF NativeEnds
<1>4. FrameLeft
  BY <1>1, <1>2, <1>3, Leaving
<1>5. CallEnded
  BY <1>1, <1>3, CallsPop
<1>6. Stopped(frames[Len(frames)].gen)
  BY <1>1, <1>2, <1>3, GensAssumption DEF Stopped, TypeOK
<1> QED
  BY <1>2, <1>4, <1>5, <1>6, CallGone

\* sq_suspendvm leaves the frames of the script where they are.
LEMMA SuspendStep ==
  ASSUME Good, mode' = mode, Suspend
  PROVE  Good'
<1> DEFINE n == Len(frames)
<1>1. /\ TypeOK /\ TrapsInOrder /\ BasesKept /\ CallersKept
      /\ Nested /\ RootsPlaced /\ SuspendedKept /\ Counted /\ OneFrameEach
  BY DEF Good
<1>2. /\ InNative /\ ~suspended /\ Len(ctl) = 2 /\ LeaveFrame /\ ctl' = <<>> /\ suspended'
      /\ suspended' \in BOOLEAN
      /\ susp' = [traps |-> ctl[1].traps, root |-> frames[n - 1].root]
      /\ raising' = FALSE /\ etraps' = etraps /\ gens' = gens
  BY DEF Suspend
<1>3. /\ n \in Nat \ {0} /\ ctl[2].native /\ ctl[2].depth = n - 1
      /\ frames[n].etraps = 0 /\ frames[n].gen = NoGen
  BY <1>1, <1>2, NativeOnTop
<1>4. 1 \in 1 .. Len(ctl) /\ 2 \in 1 .. Len(ctl) /\ 1 \in 1 .. Len(ctl) - 1 /\ 1 < 2
  BY <1>2
<1>5. ~ctl[1].native /\ ctl[1].depth = 0 /\ ctl[1].depth < ctl[2].depth /\ ctl[1].traps \in Int
  <2>1. /\ ~ctl[1].native /\ (suspended <=> ctl[1].depth > 0) /\ ctl[1].depth < ctl[2].depth
    BY <1>1, <1>2, <1>4 DEF Nested
  <2>2. ctl[1].depth \in Nat /\ ctl[1].traps \in Int
    BY <1>1, <1>4, CallTypes
  <2> QED
    BY <2>1, <2>2, <1>2
<1>6. n - 1 \in 1 .. n /\ n - 1 > 0 /\ n - 1 \in 1 .. n - 1 /\ n \in 1 .. n
  BY <1>3, <1>5
<1>7. FrameLeft
  BY <1>1, <1>2, <1>3, Leaving
<1>8. /\ Len(frames') = n - 1 /\ frames' \in Seq(CallInfo)
      /\ \A i \in 1 .. n - 1 : frames'[i] = frames[i]
      /\ stackbase' = stackbase - frames[n].prev
      /\ etraps' \in Seq(Int) /\ Len(etraps') = frames[n].below
  BY <1>7 DEF FrameLeft
<1>9. /\ frames[n].prev \in Int /\ frames[n].below \in Nat
      /\ frames[n - 1].root \in BOOLEAN
  BY <1>1, <1>6, FrameTypes
<1>10. Len(ctl') = 0 /\ ctl' \in Seq(Calls)
  BY <1>2
<1>11. TypeOK'
  <2>1. stackbase \in Int /\ gens \in [Gens -> Generator]
    BY <1>1 DEF TypeOK
  <2>2. stackbase' \in Int
    BY <2>1, <1>8, <1>9
  <2>3. susp' \in [traps : Int, root : BOOLEAN]
    BY <1>2, <1>5, <1>9
  <2>4. raising' \in BOOLEAN /\ gens' \in [Gens -> Generator]
    BY <2>1, <1>2
  <2> QED
    BY <2>2, <2>3, <2>4, <1>2, <1>8, <1>10 DEF TypeOK
<1>12. TrapsInOrder' /\ BasesKept'
  BY <1>1, <1>7, LeaveTraps, LeaveBases
<1>13. CallersKept'
  BY <1>10 DEF CallersKept
<1>14. Nested'
  BY <1>2, <1>6, <1>8, <1>10 DEF Nested
<1>15. RootsPlaced'
  <2>1. ASSUME NEW i \in 1 .. n - 1
        PROVE  /\ frames'[i].root <=> i = 1
               /\ ~frames'[i].native
    <3>1. i \in 1 .. n /\ frames'[i] = frames[i] /\ i - 1 # n - 1 /\ (i - 1 = 0 <=> i = 1)
      BY <1>3, <1>8
    <3>2. \A k \in 1 .. Len(ctl) : k = 1 \/ k = 2
      BY <1>2
    <3>3. /\ frames[i].root <=> \/ \E k \in 1 .. Len(ctl) : ~ctl[k].native /\ ctl[k].depth = i - 1
                                \/ suspended /\ i = 1
          /\ frames[i].native <=> \E k \in 1 .. Len(ctl) : ctl[k].native /\ ctl[k].depth = i - 1
      BY <3>1, <1>1 DEF RootsPlaced
    <3>4. ~frames[i].native
      BY <3>1, <3>2, <3>3, <1>3, <1>5
    <3>5. frames[i].root <=> i = 1
      BY <3>1, <3>2, <3>3, <1>2, <1>3, <1>4, <1>5
    <3> QED
      BY <3>1, <3>4, <3>5
  <2> HIDE DEF n
  <2> QED
    BY <2>1, <1>2, <1>8, <1>10 DEF RootsPlaced
<1>16. SuspendedKept'
  BY <1>2, <1>6, <1>8, <1>10 DEF SuspendedKept
<1>17. Counted'
  <2>1. SUFFICES ASSUME TrapsStay \/ "foreach" \notin mode.features
                 PROVE  susp'.traps = Len(etraps')
    BY <1>10 DEF Counted, TrapsStay
  <2>2. ctl[1].traps = frames[ctl[2].depth + 1].below - frames[ctl[1].depth + 1].below
    <3>1. \A k \in 1 .. Len(ctl) - 1 :
            ctl[k].traps = frames[ctl[k + 1].depth + 1].below - frames[ctl[k].depth + 1].below
      BY <1>1, <2>1 DEF Counted
    <3>2. 1 + 1 = 2
      OBVIOUS
    <3> QED
      BY <3>1, <3>2, <1>4
  <2>3. ctl[2].depth + 1 = n /\ ctl[1].depth + 1 = 1 /\ n > 0
    BY <1>3, <1>5
  <2>4. frames[1].below = 0
    BY <2>3, <1>1 DEF TrapsInOrder
  <2>5. ctl[1].traps = frames[n].below
    BY <2>2, <2>3, <2>4, <1>9
  <2> QED
    BY <2>5, <1>2, <1>8
<1>18. OneFrameEach'
  <2>1. Stopped(frames[Len(frames)].gen)
    BY <1>1, <1>2, <1>3, GensAssumption DEF Stopped, TypeOK
  <2> QED
    BY <2>1, <1>1, <1>7, EachLeft
<1> QED
  BY <1>11, <1>12, <1>13, <1>14, <1>15, <1>16, <1>17, <1>18 DEF Good

\* sq_wakeupvm finds them there, with the same root and count of traps.
LEMMA WakeUpStep ==
  ASSUME Good, mode' = mode, NEW throw \in BOOLEAN, WakeUp(throw)
  PROVE  Good'
<1> DEFINE n == Len(frames)
           x == [native |-> FALSE, traps |-> susp.traps, depth |-> 0, base |-> 0]
<1>1. /\ TypeOK /\ TrapsInOrder /\ BasesKept /\ CallersKept
      /\ Nested /\ RootsPlaced /\ SuspendedKept /\ Counted /\ OneFrameEach
  BY DEF Good
<1>2. suspended /\ UNCHANGED <<stackbase, etraps, gens, susp>>
  BY DEF WakeUp
<1>3. CASE UNCHANGED <<frames, ctl, raising, suspended>>
  <2>1. raising \in BOOLEAN /\ gens \in [Gens -> Generator] /\ ctl \in Seq(Calls)
    BY <1>1 DEF TypeOK
  <2>2. raising => Len(ctl) > 0 /\ ~ctl[Len(ctl)].native
    BY <1>1 DEF Nested
  <2>3. raising => InScript
    BY <2>1, <2>2, SeqFacts DEF InScript, Last
  <2> QED
    BY <2>1, <2>3, <1>2, <1>3, StacksKept
<1>4. CASE /\ ctl = <<>> /\ suspended' = FALSE
           /\ frames' = [frames EXCEPT ![n].root = susp.root]
           /\ ctl' = <<x>> /\ raising' = throw
  <2>1. Len(ctl) = 0 /\ n \in Nat \ {0}
    BY <1>1, <1>2, <1>4, Sizes DEF Nested
  <2>2. n \in 1 .. n /\ frames \in Seq(CallInfo) /\ frames[n] \in CallInfo
    BY <1>1, <2>1 DEF TypeOK
  <2>3. susp.root = frames[n].root /\ susp.traps \in Int
    BY <1>1, <1>2, <2>1 DEF SuspendedKept, TypeOK
  <2>4. frames' = frames
    <3>1. [frames[n] EXCEPT !.root = susp.root] = frames[n]
      BY <2>2, <2>3 DEF CallInfo
    <3>2. frames' = [frames EXCEPT ![n] = frames[n]]
      BY <3>1, <1>4
    <3> QED
      BY <3>2, <2>2
  <2>5. x \in Calls /\ x.native = FALSE /\ x.depth = 0 /\ x.base = 0 /\ x.traps = susp.traps
    BY <2>3 DEF Calls
  <2> HIDE DEF x
  <2>6. Len(ctl') = 1 /\ ctl'[1] = x /\ ctl' \in Seq(Calls)
    BY <2>5, <1>4
  <2>7. \A k \in 1 .. 1 : k = 1
    OBVIOUS
  <2>8. TypeOK'
    BY <1>1, <1>2, <1>4, <2>4, <2>6 DEF TypeOK
  <2>9. TrapsInOrder' /\ BasesKept'
    BY <1>1, <1>2, <2>4 DEF TrapsInOrder, BasesKept, TrapsStay
  <2>10. CallersKept'
    BY <2>5, <2>6, <2>7 DEF CallersKept
  <2>11. Nested'
    BY <1>4, <2>1, <2>4, <2>5, <2>6, <2>7 DEF Nested
  <2>12. RootsPlaced'
    <3>1. ASSUME NEW i \in 1 .. n
          PROVE  /\ frames[i].root <=> \/ \E k \in 1 .. 1 : ~ctl'[k].native /\ ctl'[k].depth = i - 1
                                       \/ suspended' /\ i = 1
                 /\ frames[i].native <=> \E k \in 1 .. 1 : ctl'[k].native /\ ctl'[k].depth = i - 1
                 /\ frames[i].native => frames[i].etraps = 0 /\ frames[i].gen = NoGen
      <4>1. /\ frames[i].root <=> i = 1
            /\ ~frames[i].native
        BY <1>1, <1>2, <2>1 DEF RootsPlaced
      <4>2. i = 1 <=> i - 1 = 0
        OBVIOUS
      <4> QED
        BY <4>1, <4>2, <1>4, <2>5, <2>6, <2>7
    <3> HIDE DEF n
    <3> QED
      BY <3>1, <2>4, <2>6 DEF RootsPlaced, n
  <2>13. SuspendedKept'
    BY <1>4 DEF SuspendedKept
  <2>14. Counted'
    <3>1. SUFFICES ASSUME TrapsStay \/ "foreach" \notin mode.features
                   PROVE  ctl'[1].traps = Len(etraps) - frames[ctl'[1].depth + 1].below
      BY <1>2, <1>4, <2>4, <2>6 DEF Counted, TrapsStay
    <3>2. susp.traps = Len(etraps) /\ Len(etraps) \in Nat
      <4>1. Len(etraps) \in Nat
        BY <1>1, Sizes
      <4>2. susp.traps = Len(etraps)
        BY <1>1, <1>2, <2>1, <3>1 DEF Counted
      <4> QED
        BY <4>1, <4>2
    <3>3. frames[1].below = 0
      BY <1>1, <2>1 DEF TrapsInOrder
    <3> QED
      BY <3>2, <3>3, <2>5, <2>6
  <2>15. OneFrameEach'
    BY <1>1, <1>2, <2>4 DEF OneFrameEach, TrapsStay
  <2> QED
    BY <2>8, <2>9, <2>10, <2>11, <2>12, <2>13, <2>14, <2>15 DEF Good
<1> QED
  BY <1>3, <1>4 DEF WakeUp

(***************************************************************************)
(* The invariant, and the properties that follow from it                   *)
(***************************************************************************)
\* A new VM has nothing on its stacks.
LEMMA InitIInv == Init => IInv
<1> SUFFICES ASSUME Init
             PROVE  IInv
  OBVIOUS
<1>1. /\ frames = <<>> /\ stackbase = 0 /\ etraps = <<>> /\ raising = FALSE /\ ctl = <<>>
      /\ gens = [g \in Gens |-> [state |-> "none", traps |-> <<>>, root |-> FALSE]]
      /\ suspended = FALSE /\ susp = [traps |-> -1, root |-> FALSE] /\ mode \in Modes
  BY DEF Init
<1>2. /\ frames \in Seq(CallInfo) /\ etraps \in Seq(Int) /\ ctl \in Seq(Calls) /\ <<>> \in Seq(Int)
      /\ Len(frames) = 0 /\ Len(etraps) = 0 /\ Len(ctl) = 0
  BY <1>1
<1>3. TypeOK
  <2>1. [state |-> "none", traps |-> <<>>, root |-> FALSE] \in Generator
    BY <1>2 DEF Generator
  <2>2. gens \in [Gens -> Generator]
    BY <2>1, <1>1
  <2>3. susp \in [traps : Int, root : BOOLEAN]
    BY <1>1
  <2>4. stackbase \in Int
    BY <1>1
  <2>5. raising \in BOOLEAN /\ suspended \in BOOLEAN
    BY <1>1
  <2> QED
    BY <2>2, <2>3, <2>4, <2>5, <1>2 DEF TypeOK
<1>4. TrapsInOrder /\ BasesKept /\ CallersKept
  BY <1>1, <1>2 DEF TrapsInOrder, BasesKept, CallersKept
<1>5. Nested /\ RootsPlaced /\ SuspendedKept
  <2>1. 1 .. 0 = {} /\ ~suspended /\ ~raising
    BY <1>1
  <2>2. Nested
    BY <2>1, <1>2 DEF Nested
  <2>3. RootsPlaced /\ SuspendedKept
    BY <2>1, <1>2 DEF RootsPlaced, SuspendedKept
  <2> QED
    BY <2>2, <2>3
<1>6. Counted /\ OneFrameEach
  BY <1>1, <1>2 DEF Counted, OneFrameEach
<1> QED
  BY <1>1, <1>3, <1>4, <1>5, <1>6 DEF IInv, Good

\* An exception is unwound by the script it came from.
LEMMA UnwindStep ==
  ASSUME Good, mode' = mode, Unwind
  PROVE  Good'
<1>1. raising /\ ctl \in Seq(Calls)
  BY DEF Unwind, Good, TypeOK
<1>2. Len(ctl) > 0 /\ ~ctl[Len(ctl)].native
  BY <1>1 DEF Good, Nested
<1>3. InScript
  BY <1>1, <1>2, SeqFacts DEF InScript, Last
<1> QED
  BY <1>3, CatchStep, AbandonStep DEF Unwind

\* One case for every action.
LEMMA GoodStep ==
  ASSUME Good, RootsStay, mode \in Modes, Next
  PROVE  Good'
<1>1. mode' = mode
  BY DEF Next
<1>2. mode.gens \subseteq Gens
  BY ModesAssumption
<1>3. CASE Unwind
  BY <1>1, <1>3, UnwindStep
<1>4. ASSUME Instruction
      PROVE  Good'
  <2>1. CASE Throw
    BY <2>1, <1>1, ThrowStep
  <2>2. CASE PushTrap
    BY <2>2, <1>1, PushTrapStep
  <2>3. CASE PopTrap
    BY <2>3, <1>1, PopTrapStep
  <2>4. CASE Call
    BY <2>4, <1>1, CallStep
  <2>5. CASE Return
    BY <2>5, <1>1, ReturnStep
  <2>6. CASE CallNative
    BY <2>6, <1>1, CallNativeStep
  <2>7. CASE Yield
    BY <2>7, <1>1, YieldStep
  <2>8. CASE \E g \in mode.gens : CallGenerator(g) \/ Resume(g) \/ Foreach(g) \/ HostResume(g)
    <3>1. PICK g \in Gens : CallGenerator(g) \/ Resume(g) \/ Foreach(g) \/ HostResume(g)
      BY <2>8, <1>2
    <3> QED
      BY <3>1, <1>1, CallGeneratorStep, ResumeStep, ForeachStep, HostResumeStep
  <2>9. CASE HostCall
    BY <2>9, <1>1, HostCallStep
  <2>10. CASE NativeReturn
    BY <2>10, <1>1, NativeEndsStep DEF NativeReturn, Calm, Others
  <2>11. CASE NativeFails
    BY <2>11, <1>1, NativeEndsStep DEF NativeFails, Raise, Others
  <2>12. CASE Suspend
    BY <2>12, <1>1, SuspendStep
  <2>13. CASE \E throw \in BOOLEAN : WakeUp(throw)
    BY <2>13, <1>1, WakeUpStep
  <2> QED
    BY <1>4, <2>1, <2>2, <2>3, <2>4, <2>5, <2>6, <2>7, <2>8, <2>9, <2>10, <2>11, <2>12, <2>13
       DEF Instruction
<1> QED
  BY <1>3, <1>4 DEF Next

\* IInv is inductive.
LEMMA StepIInv == IInv /\ [Next]_vars => IInv'
<1> SUFFICES ASSUME IInv, [Next]_vars
             PROVE  IInv'
  OBVIOUS
<1>1. mode \in Modes /\ (RootsStay => Good)
  BY DEF IInv
<1>2. CASE Next
  <2>1. mode' = mode
    BY <1>2 DEF Next
  <2>2. RootsStay' => Good'
    BY <2>1, <1>1, <1>2, GoodStep DEF RootsStay
  <2> QED
    BY <2>1, <2>2, <1>1 DEF IInv
<1>3. CASE UNCHANGED vars
  <2>1. mode' = mode /\ (RootsStay' => RootsStay)
    BY <1>3 DEF vars, RootsStay
  <2>2. ASSUME Good
        PROVE  Good'
    <3>1. TypeOK /\ ctl \in Seq(Calls) /\ (raising => Len(ctl) > 0 /\ ~ctl[Len(ctl)].native)
      BY <2>2 DEF Good, TypeOK, Nested
    <3>2. raising => InScript
      BY <3>1, SeqFacts DEF InScript, Last
    <3>3. raising \in BOOLEAN /\ gens \in [Gens -> Generator]
      BY <3>1 DEF TypeOK
    <3> QED
      BY <2>1, <2>2, <3>2, <3>3, <1>3, StacksKept DEF vars
  <2> QED
    BY <2>1, <2>2, <1>1 DEF IInv
<1> QED
  BY <1>2, <1>3

\* The order of the traps and the chain of bases give TrapsLeadHome.
LEMMA SafeTraps == IInv => TrapsLeadHome
<1> SUFFICES ASSUME Good, TrapsStay
             PROVE  /\ stackbase = (IF frames = <<>> THEN 0 ELSE ci.base)
                    /\ \A i \in DOMAIN frames :
                         /\ frames[i].below + frames[i].etraps =
                              (IF i = Len(frames) THEN Len(etraps) ELSE frames[i + 1].below)
                         /\ \A k \in frames[i].below + 1 .. frames[i].below + frames[i].etraps :
                              etraps[k] = frames[i].base
                    /\ frames = <<>> => etraps = <<>>
  BY DEF IInv, TrapsLeadHome
<1>1. TypeOK /\ TrapsInOrder /\ BasesKept
  BY DEF Good
<1>2. frames \in Seq(CallInfo) /\ etraps \in Seq(Int)
  BY <1>1 DEF TypeOK
<1>3. /\ Len(frames) \in Nat /\ DOMAIN frames = 1 .. Len(frames)
      /\ frames = <<>> <=> Len(frames) = 0
      /\ etraps = <<>> <=> Len(etraps) = 0
  BY <1>2, SeqFacts
<1>4. ci = frames[Len(frames)]
  BY DEF ci, Last
<1>5. /\ Len(frames) = 0 => stackbase = 0
      /\ Len(frames) > 0 => stackbase = frames[Len(frames)].base
  BY <1>1 DEF BasesKept
<1>6. ASSUME NEW i \in 1 .. Len(frames)
      PROVE  /\ frames[i].below + frames[i].etraps =
                  (IF i = Len(frames) THEN Len(etraps) ELSE frames[i + 1].below)
             /\ \A k \in frames[i].below + 1 .. frames[i].below + frames[i].etraps :
                  etraps[k] = frames[i].base
  <2>1. CASE i = Len(frames)
    BY <2>1, <1>1, <1>3 DEF TrapsInOrder, BasesKept
  <2>2. CASE i # Len(frames)
    <3>1. Len(frames) \in Nat
      BY <1>3
    <3>2. i \in 1 .. Len(frames) - 1
      BY <2>2, <3>1
    <3> QED
      BY <2>2, <3>2, <1>1 DEF TrapsInOrder, BasesKept
  <2> QED
    BY <2>1, <2>2
<1>7. frames = <<>> => etraps = <<>>
  BY <1>1, <1>3 DEF TrapsInOrder
<1>8. stackbase = (IF frames = <<>> THEN 0 ELSE ci.base)
  BY <1>3, <1>4, <1>5
<1> QED
  BY <1>3, <1>6, <1>7, <1>8

\* The counts, taken apart by activation, give TrapCountExact.
LEMMA SafeCounts == IInv => TrapCountExact
<1> SUFFICES ASSUME Good, TrapsStay \/ "foreach" \notin mode.features,
                    NEW k \in DOMAIN ctl
             PROVE  ctl[k].traps = TrapsBelow(k + 1) - TrapsBelow(k)
  BY DEF IInv, TrapCountExact
<1>1. TypeOK /\ Counted /\ ctl \in Seq(Calls)
  BY DEF Good, TypeOK
<1>2. Len(ctl) \in Nat /\ k \in 1 .. Len(ctl)
  BY <1>1, SeqFacts
<1>3. TrapsBelow(k) = frames[ctl[k].depth + 1].below
  BY <1>2 DEF TrapsBelow
<1>4. CASE k = Len(ctl)
  <2>1. TrapsBelow(k + 1) = Len(etraps)
    BY <1>2, <1>4 DEF TrapsBelow
  <2> QED
    BY <2>1, <1>1, <1>2, <1>3, <1>4 DEF Counted
<1>5. CASE k # Len(ctl)
  <2>1. k \in 1 .. Len(ctl) - 1 /\ ~(k + 1 > Len(ctl))
    BY <1>2, <1>5
  <2>2. TrapsBelow(k + 1) = frames[ctl[k + 1].depth + 1].below
    BY <2>1 DEF TrapsBelow
  <2>3. ctl[k].traps = frames[ctl[k + 1].depth + 1].below - frames[ctl[k].depth + 1].below
    BY <2>1, <1>1 DEF Counted
  <2> QED
    BY <2>2, <2>3, <1>3
<1> QED
  BY <1>4, <1>5

\* The places of roots and native frames give RootsBoundActivations.
LEMMA SafeRoots == IInv => RootsBoundActivations
<1> SUFFICES ASSUME Good
             PROVE  RootsBoundActivations
  BY DEF IInv, RootsBoundActivations
<1>1. TypeOK /\ Nested /\ RootsPlaced /\ frames \in Seq(CallInfo) /\ ctl \in Seq(Calls)
  BY DEF Good, TypeOK
<1>2. DOMAIN frames = 1 .. Len(frames) /\ DOMAIN ctl = 1 .. Len(ctl)
  BY <1>1, SeqFacts
<1>3. \A i \in DOMAIN frames :
        /\ frames[i].root <=> \/ \E k \in DOMAIN ctl : ~ctl[k].native /\ ctl[k].depth = i - 1
                              \/ suspended /\ i = 1
        /\ frames[i].native <=> \E k \in DOMAIN ctl : ctl[k].native /\ ctl[k].depth = i - 1
  <2>1. \A i \in 1 .. Len(frames) :
          /\ frames[i].root <=> \/ \E k \in 1 .. Len(ctl) : ~ctl[k].native /\ ctl[k].depth = i - 1
                                \/ suspended /\ i = 1
          /\ frames[i].native <=> \E k \in 1 .. Len(ctl) : ctl[k].native /\ ctl[k].depth = i - 1
    BY <1>1 DEF RootsPlaced
  <2> QED
    BY ONLY <2>1, <1>2, Zenon
<1>4. InScript => Len(frames) > Last(ctl).depth /\ ~ci.native
  <2>1. SUFFICES ASSUME InScript
                 PROVE  Len(frames) > Last(ctl).depth /\ ~ci.native
    OBVIOUS
  <2>2. /\ ctl[Len(ctl)].depth \in Nat /\ ctl[Len(ctl)].depth < Len(frames) /\ Len(frames) \in Nat
        /\ ci = frames[Len(frames)] /\ ~frames[Len(frames)].native
    BY <1>1, <2>1, ScriptOnTop
  <2>3. Last(ctl) = ctl[Len(ctl)]
    BY DEF Last
  <2> QED
    BY <2>2, <2>3
<1> QED
  BY <1>3, <1>4 DEF RootsBoundActivations

\* The frames of generators give GeneratorsExclusive.
LEMMA SafeGenerators == IInv => GeneratorsExclusive
<1> SUFFICES ASSUME Good
             PROVE  GeneratorsExclusive
  BY DEF IInv, GeneratorsExclusive
<1>1. TypeOK /\ OneFrameEach /\ frames \in Seq(CallInfo)
  BY DEF Good, TypeOK
<1>2. DOMAIN frames = 1 .. Len(frames)
  BY <1>1, SeqFacts
<1>3. \A g \in Gens : g # NoGen
  BY GensAssumption
<1> QED
  BY <1>1, <1>2, <1>3 DEF GeneratorsExclusive, OneFrameEach

\* Only the first frame of an activation ends it, as it is left.
LEMMA CallEndsAtRoot ==
  ASSUME Good, mode \in Modes, Next, CallEnds
  PROVE  ci.root /\ LeaveFrame
<1>1. TypeOK /\ Nested /\ RootsPlaced /\ ctl \in Seq(Calls) /\ InScript /\ Len(ctl') < Len(ctl)
  BY DEF Good, TypeOK, CallEnds
<1>2. /\ Len(ctl) \in Nat \ {0} /\ Len(frames) \in Nat \ {0} /\ ci = frames[Len(frames)]
      /\ ctl[Len(ctl)].depth \in Nat /\ ctl[Len(ctl)].depth < Len(frames)
      /\ frames[Len(frames)].root <=> ctl[Len(ctl)].depth = Len(frames) - 1
  BY <1>1, ScriptOnTop
<1>3. ctl' # ctl
  BY <1>1, <1>2
<1>4. ASSUME NEW d \in Int, ctl' = SetTraps(ctl, d)
      PROVE  FALSE
  <2>1. SameCalls(d)
    BY <1>1, <1>2, <1>4, CallsSet
  <2> QED
    BY <2>1, <1>1, <1>2 DEF SameCalls
<1>5. ASSUME NEW native \in BOOLEAN, NEW m \in Int, ctl' = Append(ctl, Activation(native, m))
      PROVE  FALSE
  <2>1. CallBegun(native, m)
    BY <1>1, <1>5, CallsPush
  <2> QED
    BY <2>1, <1>1, <1>2 DEF CallBegun
<1>6. CASE Catch
  BY <1>4, <1>6 DEF Catch
<1>7. CASE Abandon
  <2>1. Len(frames) = 1 => ci.root
    BY <1>2
  <2> QED
    BY <2>1, <1>3, <1>7 DEF Abandon
<1>8. CASE Throw
  BY <1>3, <1>8 DEF Throw
<1>9. CASE PushTrap \/ PopTrap
  BY <1>4, <1>9 DEF PushTrap, PopTrap
<1>10. CASE Call
  BY <1>3, <1>10 DEF Call
<1>11. CASE Return
  BY <1>3, <1>11 DEF Return, EndIfRoot
<1>12. CASE CallNative
  <2>1. PICK m \in Int : m = 0
    OBVIOUS
  <2>2. ctl' # Append(ctl, Activation(TRUE, m))
    BY <1>5
  <2> QED
    BY <2>1, <2>2, <1>8, <1>12 DEF CallNative, Native
<1>13. CASE Yield
  <2>1. Len(frames) \in 1 .. Len(frames)
    BY <1>2
  <2>2. -ci.etraps \in Int
    BY <2>1, <1>1, <1>2, FrameTypes
  <2>3. LeaveFrame /\ ctl' = EndIfRoot(SetTraps(ctl, -ci.etraps))
    BY <1>13 DEF Yield
  <2>4. ~ci.root => ctl' = SetTraps(ctl, -ci.etraps)
    BY <2>3 DEF EndIfRoot
  <2> QED
    BY <2>2, <2>3, <2>4, <1>4
<1>14. ASSUME NEW g \in mode.gens, CallGenerator(g) \/ Resume(g) \/ Foreach(g) \/ HostResume(g)
       PROVE  FALSE
  <2>1. g \in Gens
    BY ModesAssumption
  <2>2. CASE CallGenerator(g)
    BY <2>2, <1>3 DEF CallGenerator
  <2>3. Len(gens[g].traps) \in Int
    BY <2>1, <1>1 DEF TypeOK, Generator
  <2>4. ~Throw
    BY <1>3 DEF Throw
  <2>5. CASE Resume(g)
    BY <2>3, <2>4, <2>5, <1>4 DEF Resume
  <2>6. CASE Foreach(g)
    BY <2>4, <2>6, <1>3 DEF Foreach
  <2>7. CASE HostResume(g)
    BY <2>7, <1>1 DEF HostResume, InNative
  <2> QED
    BY <1>14, <2>2, <2>5, <2>6, <2>7
<1>15. CASE HostCall \/ NativeReturn \/ NativeFails \/ Suspend \/ \E throw \in BOOLEAN : WakeUp(throw)
  BY <1>1, <1>15 DEF HostCall, NativeReturn, NativeFails, NativeEnds, Suspend, WakeUp, InNative
<1> QED
  BY <1>6, <1>7, <1>8, <1>9, <1>10, <1>11, <1>12, <1>13, <1>14, <1>15 DEF Next, Unwind, Instruction

\* What is left then is what the caller had.
LEMMA CallerIsFound ==
  ASSUME Good, TrapsStay, InScript, ci.root, LeaveFrame
  PROVE  CallerFound
<1> DEFINE n == Len(frames)
           c == Len(ctl)
<1>1. TypeOK /\ Nested /\ RootsPlaced /\ BasesKept /\ CallersKept /\ frames \in Seq(CallInfo)
  BY DEF Good, TypeOK
<1>2. /\ c \in Nat \ {0} /\ n \in Nat \ {0} /\ ci = frames[n]
      /\ ctl[c].depth \in Nat /\ ctl[c].depth < n
      /\ frames[n].root <=> ctl[c].depth = n - 1
  BY <1>1, ScriptOnTop
<1>3. ctl[c].depth = n - 1 /\ Last(ctl) = ctl[c] /\ c \in 1 .. c
  BY <1>2 DEF Last
<1>4. Len(frames') = n - 1 /\ stackbase' = stackbase - frames[n].prev
  <2>1. Len(Front(frames)) = Len(frames) - 1
    BY <1>1, <1>2, PopFacts
  <2> QED
    BY <2>1, <1>2 DEF LeaveFrame
<1>5. /\ ctl[c].depth = 0 => ctl[c].base = 0
      /\ ctl[c].depth > 0 => ctl[c].base = frames[ctl[c].depth].base
  BY <1>1, <1>3 DEF CallersKept
<1>6. /\ stackbase = frames[n].base /\ frames[1].base = frames[1].prev
      /\ \A i \in 1 .. n - 1 : frames[i + 1].base = frames[i].base + frames[i + 1].prev
  BY <1>1, <1>2 DEF BasesKept
<1>7. \A i \in 1 .. n : frames[i].base \in Int /\ frames[i].prev \in Int
  BY <1>1, FrameTypes
<1> HIDE DEF n, c
<1>8. CASE n = 1
  <2>1. 1 \in 1 .. n
    BY <1>8
  <2> QED
    BY <2>1, <1>3, <1>4, <1>5, <1>6, <1>7, <1>8 DEF CallerFound
<1>9. CASE n # 1
  <2>1. n - 1 \in 1 .. n - 1 /\ (n - 1) + 1 = n /\ n - 1 > 0 /\ n - 1 \in 1 .. n /\ n \in 1 .. n
    BY <1>2, <1>9
  <2>2. frames[n].base = frames[n - 1].base + frames[n].prev
    BY <2>1, <1>6
  <2>3. frames[n - 1].base \in Int /\ frames[n].prev \in Int
    BY <2>1, <1>7
  <2>4. stackbase' = frames[n - 1].base
    BY <2>2, <2>3, <1>4, <1>6
  <2> QED
    BY <2>1, <2>4, <1>3, <1>4, <1>5 DEF CallerFound
<1> QED
  BY <1>8, <1>9

\* IInv is inductive: every behaviour keeps the traps in the order of the frames, the
\* chain of bases, the nesting of activations, the places of the roots, the counts
\* and the generators' frames, unless scripts resume what sq_resume has resumed.
THEOREM AlwaysIInv == Spec => []IInv
  BY InitIInv, StepIInv, PTL DEF Spec

\* In every behaviour the traps of a frame lead back to its own base, and _stackbase
\* is that of the running frame, after any number of throws, returns, yields,
\* resumptions and suspensions.
THEOREM AlwaysTrapsLeadHome == Spec => []TrapsLeadHome
  BY AlwaysIInv, SafeTraps, PTL

\* In every behaviour the local count of traps of each running Execute is the number
\* of traps pushed since it began.
THEOREM AlwaysTrapCountExact == Spec => []TrapCountExact
  BY AlwaysIInv, SafeCounts, PTL

\* In every behaviour the root frames are the first frames of the running calls of
\* Execute, so that an exception or a return stops at the call that started it.
THEOREM AlwaysRootsBound == Spec => []RootsBoundActivations
  BY AlwaysIInv, SafeRoots, PTL

\* In every behaviour a running generator has exactly one frame, any other none.
THEOREM AlwaysExclusive == Spec => []GeneratorsExclusive
  BY AlwaysIInv, SafeGenerators, PTL

\* In every behaviour a call of Execute that ends, however it does, leaves to its
\* caller the stack base and the frames the caller had (sqvm.cpp:1638).
THEOREM AlwaysRestoresBase == Spec => CallRestoresBase
<1>1. IInv /\ [Next]_vars => [(TrapsStay /\ RootsStay /\ CallEnds) => CallerFound]_vars
  <2> SUFFICES ASSUME IInv, Next, TrapsStay, RootsStay, CallEnds
               PROVE  CallerFound
    OBVIOUS
  <2>1. Good /\ mode \in Modes /\ InScript
    BY DEF IInv, CallEnds
  <2>2. ci.root /\ LeaveFrame
    BY <2>1, CallEndsAtRoot
  <2> QED
    BY <2>1, <2>2, CallerIsFound
<1> QED
  BY <1>1, AlwaysIInv, PTL DEF Spec, CallRestoresBase
=============================================================================
