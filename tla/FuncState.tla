----------------------------- MODULE FuncState -----------------------------
(***************************************************************************)
(* The state the compiler keeps for one function (struct SQFuncState):     *)
(* the virtual registers, the stack of targets (where the operands of the  *)
(* expression being compiled are), the jumps still to be patched, and the  *)
(* instructions with the peephole optimiser that AddInstruction applies.   *)
(*                                                                         *)
(* Positions of instructions and registers count from 0, as in the code.   *)
(***************************************************************************)
EXTENDS Integers, Sequences, SequencesExt

NoReg == 255                      \* 0xFF and MAX_FUNC_STACKSIZE
Temporary == ""                   \* the null name of a register that is no local

\* An instruction: arg0, arg2 and arg3 are unsigned chars, arg1 a signed integer.
Ins(op, a0, a1, a2, a3) ==
  [op |-> op, a0 |-> a0 % 256, a1 |-> a1, a2 |-> a2 % 256, a3 |-> a3 % 256]

NewFuncState(child) ==
  [instructions |-> <<>>, vlocals |-> <<>>, targets |-> <<>>, stacksize |-> 0,
   traps |-> 0, returnexp |-> 0, outers |-> 0, outervalues |-> <<>>,
   breaktargets |-> <<>>, continuetargets |-> <<>>, breaks |-> <<>>,
   continues |-> <<>>, optimization |-> TRUE, literals |-> <<>>,
   functions |-> <<>>, params |-> 0, defaults |-> <<>>, varparams |-> FALSE,
   child |-> child]

----------------------------------------------------------------------------
(* Registers and targets.                                                  *)

GetStackSize(fs) == Len(fs.vlocals)

IsLocal(fs, pos) == pos < Len(fs.vlocals) /\ fs.vlocals[pos + 1].name # Temporary

\* (wrong on purpose) the stack size is not raised.
AllocVarBeyondSize(fs, name) ==
  [fs EXCEPT !.vlocals = Append(@, [name |-> name, outer |-> FALSE])]

AllocVar(fs, name) ==
  [fs EXCEPT !.vlocals = Append(@, [name |-> name, outer |-> FALSE]),
             !.stacksize = IF Len(fs.vlocals) + 1 > @ THEN Len(fs.vlocals) + 1 ELSE @]

PushLocalVariable(fs, name) == AllocVar(fs, name)

PushTarget(fs) ==
  [AllocVar(fs, Temporary) EXCEPT !.targets = Append(@, Len(fs.vlocals))]

PushTargetAt(fs, n) == [fs EXCEPT !.targets = Append(@, n)]

TopTarget(fs) == Last(fs.targets)

\* The register given back is the last one, whichever the target was.
PopTarget(fs) ==
  [fs EXCEPT !.targets = Front(@),
             !.vlocals = IF IsLocal(fs, TopTarget(fs)) THEN @ ELSE Front(@)]

\* How many of the registers from size on are captured by a closure.
CountOuters(fs, size) ==
  Len(SelectSeq(SubSeq(fs.vlocals, size + 1, Len(fs.vlocals)), LAMBDA v : v.outer))

SetStackSize(fs, size) ==
  IF Len(fs.vlocals) <= size THEN fs
  ELSE [fs EXCEPT !.vlocals = SubSeq(@, 1, size),
                  !.outers = @ - CountOuters(fs, size)]

\* The innermost local of that name, or -1.
GetLocalVariable(fs, name) ==
  SelectLastInSeq(fs.vlocals, LAMBDA v : v.name = name) - 1

MarkLocalAsOuter(fs, pos) ==
  [fs EXCEPT !.vlocals[pos + 1].outer = TRUE, !.outers = @ + 1]

AddParameter(fs, name) == [PushLocalVariable(fs, name) EXCEPT !.params = @ + 1]

\* The index of a literal, which is added at its first use.
GetConstant(fs, k) ==
  IF \E i \in DOMAIN fs.literals : fs.literals[i] = k
  THEN SelectInSeq(fs.literals, LAMBDA x : x = k) - 1
  ELSE Len(fs.literals)

WithConstant(fs, k) ==
  IF \E i \in DOMAIN fs.literals : fs.literals[i] = k THEN fs
  ELSE [fs EXCEPT !.literals = Append(@, k)]

----------------------------------------------------------------------------
(* Instructions.                                                           *)

GetCurrentPos(fs) == Len(fs.instructions) - 1

SnoozeOpt(fs) == [fs EXCEPT !.optimization = FALSE]

SetIntructionParam0(fs, pos, v) == [fs EXCEPT !.instructions[pos + 1].a0 = v % 256]
SetIntructionParam1(fs, pos, v) == [fs EXCEPT !.instructions[pos + 1].a1 = v]

PopInstructions(fs, n) ==
  [fs EXCEPT !.instructions = SubSeq(@, 1, Len(@) - n)]

\* An instruction whose result would overwrite its own operand has no result.
\* The code reaches this for JZ too, by falling through.
WithoutResult(i) ==
  IF \/ i.op \in {"JZ", "SET", "NEWSLOT"} /\ i.a0 = i.a3
     \/ i.op = "SETOUTER" /\ i.a0 = i.a2
  THEN [i EXCEPT !.a0 = NoReg] ELSE i

Retargetable == {"GET", "ADD", "SUB", "MUL", "DIV", "MOD", "BITW", "LOADINT",
                 "LOADFLOAT", "LOADBOOL", "LOAD"}

AppendType(op) ==
  CASE op = "LOAD" -> 1 [] op = "LOADINT" -> 2 [] op = "LOADFLOAT" -> 3
    [] op = "LOADBOOL" -> 4 [] OTHER -> 0

\* pi has loaded a literal into the temporary register r.
LoadedInto(fs, pi, r) == pi.op = "LOAD" /\ pi.a0 = r /\ ~IsLocal(fs, pi.a0)

\* The instruction that the pair <<pi, i>> becomes: a set of at most one.
Fused(fs, pi, i) ==
  CASE i.op = "JZ" /\ pi.op = "CMP" /\ pi.a1 < NoReg ->
         {[pi EXCEPT !.op = "JCMP", !.a0 = pi.a1, !.a1 = i.a1]}
    [] i.op = "RETURN" /\ pi.op = "CLOSE" -> {i}
    [] i.op = "GET" /\ LoadedInto(fs, pi, i.a2) ->
         {[pi EXCEPT !.op = "GETK", !.a0 = i.a0, !.a2 = i.a1]}
    [] i.op = "PREPCALL" /\ LoadedInto(fs, pi, i.a1) ->
         {[i EXCEPT !.op = "PREPCALLK", !.a1 = pi.a1]}
    [] i.op = "APPENDARRAY" /\ AppendType(pi.op) # 0
         /\ pi.a0 = i.a1 /\ ~IsLocal(fs, pi.a0) ->
         {Ins("APPENDARRAY", i.a0, pi.a1, AppendType(pi.op), NoReg)}
    [] i.op = "MOVE" /\ pi.op \in Retargetable /\ pi.a0 = i.a1 ->
         {[pi EXCEPT !.a0 = i.a0]}
    [] i.op = "MOVE" /\ pi.op = "MOVE" ->
         {[pi EXCEPT !.op = "DMOVE", !.a2 = i.a0, !.a3 = i.a1]}
    [] i.op = "LOAD" /\ pi.op = "LOAD" /\ i.a1 < 256 ->
         {[pi EXCEPT !.op = "DLOAD", !.a2 = i.a0, !.a3 = i.a1]}
    [] i.op \in {"EQ", "NE"} /\ LoadedInto(fs, pi, i.a1) ->
         {[i EXCEPT !.a1 = pi.a1, !.a3 = NoReg]}
    [] i.op = "LOADNULLS" /\ pi.op = "LOADNULLS" /\ pi.a0 + pi.a1 = i.a0 ->
         {[pi EXCEPT !.a1 = @ + 1]}
    [] OTHER -> {}

\* A call in the last expression of a return becomes a tail call.
IsTailCall(fs, pi, i) ==
  /\ i.op = "RETURN" /\ fs.child /\ i.a0 # NoReg
  /\ pi.op = "CALL" /\ fs.returnexp < Len(fs.instructions) - 1

Optimized(fs, i) ==
  LET n  == Len(fs.instructions)
      pi == fs.instructions[n]
      f  == Fused(fs, pi, i)
      kept == IF i.op = "LINE" /\ pi.op = "LINE" THEN Front(fs.instructions)
              ELSE IF IsTailCall(fs, pi, i)
                   THEN [fs.instructions EXCEPT ![n].op = "TAILCALL"]
                   ELSE fs.instructions
  IN IF f # {}
     THEN [fs EXCEPT !.instructions[n] = CHOOSE x \in f : TRUE,
                     !.optimization = ~(i.op = "MOVE" /\ pi.op \in Retargetable)]
     ELSE [fs EXCEPT !.instructions = Append(kept, i), !.optimization = TRUE]

AddInstruction(fs, i) ==
  IF fs.instructions # <<>> /\ fs.optimization THEN Optimized(fs, WithoutResult(i))
  ELSE [fs EXCEPT !.instructions = Append(@, i), !.optimization = TRUE]

\* The value of an expression statement is not needed.
DiscardTarget(fs) ==
  LET t == TopTarget(fs)
      n == Len(fs.instructions)
      p == PopTarget(fs)
  IN IF /\ n > 0 /\ fs.optimization
        /\ fs.instructions[n].op \in {"SET", "NEWSLOT", "SETOUTER", "CALL"}
        /\ fs.instructions[n].a0 = t
     THEN [p EXCEPT !.instructions[n].a0 = NoReg] ELSE p

\* The jumps at the last n positions of a list go to the instruction after pos.
Patched(ins, list, n, pos) ==
  LET jumps == {list[k] : k \in (Len(list) - n + 1) .. Len(list)}
  IN [k \in DOMAIN ins |-> IF k - 1 \in jumps THEN [ins[k] EXCEPT !.a1 = pos - (k - 1)]
                           ELSE ins[k]]

ResolveBreaks(fs, n) ==
  [fs EXCEPT !.instructions = Patched(@, fs.breaks, n, GetCurrentPos(fs)),
             !.breaks = SubSeq(@, 1, Len(@) - n)]

ResolveContinues(fs, n, pos) ==
  [fs EXCEPT !.instructions = Patched(@, fs.continues, n, pos),
             !.continues = SubSeq(@, 1, Len(@) - n)]
=============================================================================
