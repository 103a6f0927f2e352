-------------------------------- MODULE Exec --------------------------------
(***************************************************************************)
(* The call machinery of one SQVM (sqvm.cpp, SQGenerator in sqobject.cpp): *)
(* call frames, the stack of exception traps, nested activations of        *)
(* SQVM::Execute and of native functions, generators, and the suspension   *)
(* and wake-up of the VM.  Instructions that touch none of these are left  *)
(* out: a script is any sequence of the actions below.                     *)
(*                                                                         *)
(* A stack position is a number.  A callee's frame starts CallOffset slots *)
(* above its caller's, a resumed generator's at _top, FrameSize above it.  *)
(***************************************************************************)
EXTENDS Integers, FiniteSets, SequencesExt

CONSTANTS Gens,        \* generators
          NoGen,       \* the _generator of other frames
          Modes        \* what scripts and host may use in a behaviour

\* A mode has the fields
\*   gens: the generators, nested: the bound on nested try blocks,
\*   native: MAX_NATIVE_CALLS, frames: the bound on the call stack,
\*   features: "yieldInTry" a generator yields inside a try block, "foreach"
\* foreach runs over generators, "hostResume" the host resumes generators
\* (sq_resume), "mixedResume" scripts resume them too afterwards,
\* "callSuspended" the host calls into a suspended VM.
FeatureNames == {"yieldInTry", "foreach", "hostResume", "mixedResume", "callSuspended"}
ASSUME GensAssumption == NoGen \notin Gens
ASSUME ModesAssumption ==
  \A m \in Modes : /\ m.gens \subseteq Gens /\ m.features \subseteq FeatureNames
                   /\ m.native \in Nat /\ m.frames \in Nat /\ m.nested \in Nat

VARIABLES frames,      \* _callsstack: the last one is ci
          stackbase,   \* _stackbase
          etraps,      \* _etraps: the _stackbase each trap returns to
          raising,     \* Execute is in the loop of exception_trap
          ctl,         \* running C++ calls of Execute and of native functions
          gens,        \* the generators; "none" has not been created
          suspended,   \* _suspended
          susp,        \* _suspended_traps, _suspended_root
          stray,       \* Execute runs on a frame that is not its own
          mode         \* the member of Modes that this behaviour keeps to

vars == <<frames, stackbase, etraps, raising, ctl, gens, suspended, susp, stray, mode>>

CallOffset == 1
FrameSize  == 2

\* A frame entered from now at distance prev.  base and below are history: the
\* _stackbase and the number of traps when it was entered; the code keeps neither.
Frame(prev, gen, n, root, native) ==
  [prev |-> prev, gen |-> gen, etraps |-> n, root |-> root, native |-> native,
   base |-> stackbase + prev, below |-> Len(etraps)]

\* Activations: Execute has its own count of traps; depth and base are what
\* its caller finds again when it returns.
Activation(native, n) == [native |-> native, traps |-> n, depth |-> Len(frames), base |-> stackbase]
Execute(n) == Activation(FALSE, n)
Native == Activation(TRUE, 0)

ci == Last(frames)
InScript == ctl # <<>> /\ ~Last(ctl).native
InNative == ~InScript      \* a native function, or the host
MayCall == Len(frames) < mode.frames

SetTraps(c, n) == [c EXCEPT ![Len(c)].traps = @ + n]
SetEtraps(f, n) == [f EXCEPT ![Len(f)].etraps = @ + n]

\* (wrong on purpose) generators survive the frames they run in.
KillNothing(G, g) == G

\* The generator of a frame, if it is one's, is killed when the frame is left.
Kill(G, g) == IF g \in Gens THEN [G EXCEPT ![g].state = "dead"] ELSE G

\* EnterFrame: the frame f becomes ci.
Enter(f) == frames' = Append(frames, f) /\ stackbase' = stackbase + f.prev

\* LeaveFrame
LeaveFrame == frames' = Front(frames) /\ stackbase' = stackbase - ci.prev

Others == UNCHANGED <<suspended, susp, stray>>
Calm == raising' = FALSE /\ Others

-----------------------------------------------------------------------------
(***************************************************************************)
(* Instructions, with an activation of Execute on top                      *)
(***************************************************************************)

\* Raise_Error and the jump to exception_trap: the steps of Unwind follow.
Raise == raising' = TRUE

Throw == /\ InScript
         /\ Raise
         /\ UNCHANGED <<frames, stackbase, etraps, ctl, gens>> /\ Others

\* exception_trap: ci has a trap and goes on at the base kept in it.
Catch ==
  /\ ci.etraps > 0
  /\ frames' = SetEtraps(frames, -1)
  /\ stackbase' = Last(etraps)
  /\ etraps' = Front(etraps)
  /\ ctl' = SetTraps(ctl, -1)
  /\ UNCHANGED gens /\ Calm

\* (wrong on purpose) the loop breaks before the root frame is left.
AbandonKeepsRoot ==
  /\ ci.etraps = 0
  /\ gens' = Kill(gens, ci.gen)
  /\ \/ ci.root /\ UNCHANGED <<frames, stackbase>> /\ ctl' = Front(ctl) /\ raising' = FALSE
     \/ ~ci.root /\ LeaveFrame /\ UNCHANGED <<ctl, raising>>
  /\ UNCHANGED etraps /\ Others

\* It has none: ci is left; after a root frame, or the last, Execute fails.
Abandon ==
  /\ ci.etraps = 0
  /\ gens' = Kill(gens, ci.gen)
  /\ LeaveFrame
  /\ IF ci.root \/ Len(frames) = 1
     THEN ctl' = Front(ctl) /\ raising' = FALSE
     ELSE UNCHANGED <<ctl, raising>>
  /\ UNCHANGED etraps /\ Others

\* One round of the loop of exception_trap; nothing else happens until it ends.
Unwind == raising /\ (Catch \/ Abandon)

\* (wrong on purpose) the trap keeps _top in place of _stackbase.
PushTrapAtTop ==
  /\ InScript /\ ci.etraps < mode.nested
  /\ etraps' = Append(etraps, stackbase + FrameSize)
  /\ frames' = SetEtraps(frames, 1)
  /\ ctl' = SetTraps(ctl, 1)
  /\ UNCHANGED <<stackbase, gens>> /\ Calm

PushTrap ==
  /\ InScript /\ ci.etraps < mode.nested
  /\ etraps' = Append(etraps, stackbase)
  /\ frames' = SetEtraps(frames, 1)
  /\ ctl' = SetTraps(ctl, 1)
  /\ UNCHANGED <<stackbase, gens>> /\ Calm

\* (wrong on purpose) the count of the activation is not decremented.
PopTrapKeepsCount ==
  /\ InScript /\ ci.etraps > 0
  /\ etraps' = Front(etraps)
  /\ frames' = SetEtraps(frames, -1)
  /\ UNCHANGED <<stackbase, ctl, gens>> /\ Calm

\* The compiler pops only what the function has pushed.
PopTrap ==
  /\ InScript /\ ci.etraps > 0
  /\ etraps' = Front(etraps)
  /\ frames' = SetEtraps(frames, -1)
  /\ ctl' = SetTraps(ctl, -1)
  /\ UNCHANGED <<stackbase, gens>> /\ Calm

\* _OP_CALL of a closure.  _OP_TAILCALL, which the compiler emits only outside
\* try blocks, runs the callee in the frame of its caller: nothing changes here.
Call ==
  /\ InScript /\ MayCall
  /\ Enter(Frame(CallOffset, NoGen, 0, FALSE, FALSE))
  /\ UNCHANGED <<etraps, ctl, gens>> /\ Calm

\* _OP_CALL or sq_call of a generator function: StartCall yields at once, and
\* Execute returns without running an instruction.
CallGenerator(g) ==
  /\ InScript \/ Len(ctl) < mode.native
  /\ MayCall /\ gens[g].state \in {"none", "dead"}
  /\ InNative /\ suspended => "callSuspended" \in mode.features
  /\ gens' = [gens EXCEPT ![g] = [state |-> "suspended", traps |-> <<>>, root |-> FALSE]]
  /\ UNCHANGED <<frames, stackbase, etraps, ctl>> /\ Calm

\* Return: ci is left; a root frame ends its activation.
EndIfRoot(c) == IF ci.root THEN Front(c) ELSE c

\* _OP_RETURN; the compiler pops the traps of the function first.
Return ==
  /\ InScript /\ ci.etraps = 0
  /\ LeaveFrame
  /\ ctl' = EndIfRoot(ctl)
  /\ gens' = Kill(gens, ci.gen)
  /\ UNCHANGED etraps /\ Calm

\* _OP_CALL of a native closure
CallNative ==
  /\ InScript /\ MayCall
  /\ \/ /\ Len(ctl) < mode.native
        /\ Enter(Frame(CallOffset, NoGen, 0, FALSE, TRUE))
        /\ ctl' = Append(ctl, Native)
        /\ UNCHANGED <<etraps, gens>> /\ Calm
     \/ Len(ctl) >= mode.native /\ Throw

\* SQGenerator::Resume into a new frame at _top.
ResumedFrame(g, root) ==
  Frame(FrameSize, g, Len(gens[g].traps), root, FALSE)

Resumed(g, root) ==
  /\ Enter(ResumedFrame(g, root))
  /\ etraps' = etraps \o Reverse(gens[g].traps)
  /\ gens' = [gens EXCEPT ![g].state = "running", ![g].traps = <<>>]

ScriptMayResume(g) ==
  /\ gens[g].state # "none"
  /\ gens[g].root => "mixedResume" \in mode.features

\* _OP_RESUME adds the generator's traps to those of the activation; a dead
\* or running generator is an error.
Resume(g) ==
  /\ InScript /\ MayCall /\ ScriptMayResume(g)
  /\ \/ /\ gens[g].state = "suspended"
        /\ Resumed(g, gens[g].root)
        /\ ctl' = SetTraps(ctl, Len(gens[g].traps))
        /\ Calm
     \/ gens[g].state # "suspended" /\ Throw

\* FOREACH_OP on a generator: leave the loop, resume, or "cannot iterate".
Foreach(g) ==
  /\ "foreach" \in mode.features
  /\ InScript /\ MayCall /\ ScriptMayResume(g)
  /\ \/ /\ gens[g].state = "suspended"
        /\ Resumed(g, gens[g].root)
        /\ UNCHANGED ctl /\ Calm
     \/ gens[g].state = "running" /\ Throw

\* _OP_YIELD: SQGenerator::Yield keeps the CallInfo and the traps, then Return.
Yield ==
  LET n == ci.etraps
      m == Len(etraps) - n
  IN  /\ InScript /\ ci.gen # NoGen
      /\ n > 0 => "yieldInTry" \in mode.features
      /\ gens' = [gens EXCEPT ![ci.gen] =
                    [state |-> "suspended",
                     traps |-> Reverse(SubSeq(etraps, m + 1, Len(etraps))),
                     root  |-> ci.root]]
      /\ etraps' = SubSeq(etraps, 1, m)
      /\ LeaveFrame
      /\ ctl' = EndIfRoot(SetTraps(ctl, -n))
      /\ Calm

-----------------------------------------------------------------------------
(***************************************************************************)
(* The host, and native functions called by scripts                        *)
(***************************************************************************)

\* (wrong on purpose) the first frame of the call is not its root.
HostCallWithoutRoot ==
  /\ InNative /\ MayCall /\ Len(ctl) < mode.native
  /\ suspended => "callSuspended" \in mode.features
  /\ ctl' = Append(ctl, Execute(0))
  /\ Enter(Frame(CallOffset, NoGen, 0, FALSE, FALSE))
  /\ UNCHANGED <<etraps, gens>> /\ Calm

\* sq_call of a closure: Execute(ET_CALL).  Past MAX_NATIVE_CALLS it fails and
\* changes nothing.
HostCall ==
  /\ InNative /\ MayCall /\ Len(ctl) < mode.native
  /\ suspended => "callSuspended" \in mode.features
  /\ ctl' = Append(ctl, Execute(0))
  /\ Enter(Frame(CallOffset, NoGen, 0, TRUE, FALSE))
  /\ UNCHANGED <<etraps, gens>> /\ Calm

\* sq_resume: Execute(ET_RESUME_GENERATOR), which does not look at what
\* Resume returned.
HostResume(g) ==
  /\ "hostResume" \in mode.features
  /\ InNative /\ MayCall /\ Len(ctl) < mode.native /\ ~suspended
  /\ gens[g].state # "none"
  /\ \/ /\ gens[g].state = "suspended"
        /\ Resumed(g, TRUE)
        /\ ctl' = Append(ctl, Execute(Len(gens[g].traps)))
        /\ UNCHANGED stray
     \/ /\ gens[g].state # "suspended"
        /\ stray' = TRUE
        /\ UNCHANGED <<frames, stackbase, etraps, ctl, gens>>
  /\ raising' = FALSE
  /\ UNCHANGED <<suspended, susp>>

\* A native function returns; with an error (which it may also get from a
\* refused sq_suspendvm) the script that called it throws.
NativeEnds ==
  /\ InNative /\ ctl # <<>>
  /\ LeaveFrame
  /\ ctl' = Front(ctl)
  /\ UNCHANGED <<etraps, gens>>

NativeReturn == NativeEnds /\ Calm

NativeFails == NativeEnds /\ Raise /\ Others

\* sq_suspendvm from a native function: granted unless the VM is already
\* suspended or other calls are in between; the native function is left and
\* Execute returns with its frames in place.
Suspend ==
  /\ InNative /\ ctl # <<>>
  /\ ~suspended /\ Len(ctl) = 2
  /\ LeaveFrame
  /\ ctl' = <<>>
  /\ suspended' = TRUE
  /\ susp' = [traps |-> ctl[1].traps, root |-> frames[Len(frames) - 1].root]
  /\ raising' = FALSE
  /\ UNCHANGED <<etraps, gens, stray>>

\* sq_wakeupvm: Execute(ET_RESUME_VM or ET_RESUME_THROW_VM) goes on with ci,
\* which is the frame of the caller when it is called from within the VM.
WakeUp(throw) ==
  /\ suspended /\ InNative /\ Len(ctl) < mode.native
  /\ \/ /\ ctl = <<>>
        /\ suspended' = FALSE
        /\ frames' = [frames EXCEPT ![Len(frames)].root = susp.root]
        /\ ctl' = <<[native |-> FALSE, traps |-> susp.traps, depth |-> 0, base |-> 0]>>
        /\ raising' = throw
        /\ UNCHANGED stray
     \/ /\ ctl # <<>>
        /\ stray' = TRUE
        /\ UNCHANGED <<frames, ctl, raising, suspended>>
  /\ UNCHANGED <<stackbase, etraps, gens, susp>>

Init ==
  /\ frames = <<>> /\ stackbase = 0 /\ etraps = <<>> /\ raising = FALSE /\ ctl = <<>>
  /\ gens = [g \in Gens |-> [state |-> "none", traps |-> <<>>, root |-> FALSE]]
  /\ suspended = FALSE /\ susp = [traps |-> -1, root |-> FALSE]
  /\ stray = FALSE
  /\ mode \in Modes

\* One action at a time: an exception is unwound before anything else runs.
Instruction ==
  \/ Throw \/ PushTrap \/ PopTrap \/ Call \/ Return \/ CallNative \/ Yield
  \/ \E g \in mode.gens : CallGenerator(g) \/ Resume(g) \/ Foreach(g) \/ HostResume(g)
  \/ HostCall \/ NativeReturn \/ NativeFails \/ Suspend
  \/ \E throw \in BOOLEAN : WakeUp(throw)

Next ==
  /\ ~stray
  /\ UNCHANGED mode
  /\ Unwind \/ (~raising /\ Instruction)

Spec == Init /\ [][Next]_vars
-----------------------------------------------------------------------------
(***************************************************************************)
(* Properties                                                              *)
(***************************************************************************)

\* Whether no generator yields inside a try block: such a yield keeps the trap
\* with the stack base it had, and the frame is resumed at another one.
TrapsStay == "yieldInTry" \notin mode.features

\* Whether scripts leave alone the generators that sq_resume has resumed: those
\* keep _root, and a frame of them ends the activation it is not the first of.
RootsStay == "mixedResume" \notin mode.features

\* _stackbase is the base at which the running frame was entered, after any catch,
\* yield, resume and wake-up, although LeaveFrame only subtracts distances.  The
\* traps of a frame lie together on _etraps, above those of its callers, and each
\* leads back to the base of its own frame.
TrapsLeadHome ==
  TrapsStay /\ RootsStay =>
  /\ stackbase = (IF frames = <<>> THEN 0 ELSE ci.base)
  /\ \A i \in DOMAIN frames :
       /\ frames[i].below + frames[i].etraps =
            (IF i = Len(frames) THEN Len(etraps) ELSE frames[i + 1].below)
       /\ \A k \in frames[i].below + 1 .. frames[i].below + frames[i].etraps :
            etraps[k] = frames[i].base
  /\ frames = <<>> => etraps = <<>>

\* The number of traps below those of activation k, and below those of the next.
TrapsBelow(k) ==
  IF k > Len(ctl) THEN Len(etraps) ELSE frames[ctl[k].depth + 1].below

\* The local `traps' of every activation of Execute, on which the asserts and
\* the call of the error handler rely, counts the traps pushed since it began and
\* not popped, those of a resumed generator included.  (foreach over a generator
\* does not add those of the frame it resumes.)
TrapCountExact ==
  RootsStay /\ (TrapsStay \/ "foreach" \notin mode.features) =>
  \A k \in DOMAIN ctl :
    ctl[k].traps = TrapsBelow(k + 1) - TrapsBelow(k)

\* Root frames are the first frames of the activations of Execute, and no others:
\* an exception or a return stops exactly at the C++ call that started it.  Native
\* functions have one frame each, and no script runs in it.
RootsBoundActivations ==
  RootsStay =>
  /\ \A i \in DOMAIN frames :
       /\ frames[i].root <=> \/ \E k \in DOMAIN ctl : ~ctl[k].native /\ ctl[k].depth = i - 1
                             \/ suspended /\ i = 1
       /\ frames[i].native <=> \E k \in DOMAIN ctl : ctl[k].native /\ ctl[k].depth = i - 1
  /\ InScript => Len(frames) > Last(ctl).depth /\ ~ci.native

\* A generator that runs does so in exactly one frame, and in none when it does
\* not run.
GeneratorsExclusive ==
  RootsStay =>
  /\ \A i, j \in DOMAIN frames :
       frames[i].gen = frames[j].gen /\ frames[i].gen # NoGen => i = j
  /\ \A g \in Gens : (\E i \in DOMAIN frames : frames[i].gen = g) <=> gens[g].state = "running"

\* A call of Execute that ends leaves the stack base and the frames as its caller
\* had them.  (One that suspends the VM ends in its native function, not here.)
CallEnds == InScript /\ Len(ctl') < Len(ctl)
CallerFound == stackbase' = Last(ctl).base /\ Len(frames') = Last(ctl).depth

\* sqvm.cpp:1638, assert(_stackbase == prevstackbase): after a call of Execute,
\* however it ended, its caller finds its stack base and frames again.
CallRestoresBase == [][(TrapsStay /\ RootsStay /\ CallEnds) => CallerFound]_vars

\* The same assert, where generators may yield inside a try block.
CallAlwaysRestoresBase == [][CallEnds => CallerFound]_vars
=============================================================================
