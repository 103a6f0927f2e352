----------------------------- MODULE CompileRun -----------------------------
(***************************************************************************)
(* A host that compiles a program, may write the result to a stream and    *)
(* read it back, and runs its main function: the compiler, the stream and  *)
(* the interpreter loop composed, and what they promise together. The host *)
(* is given a compiler and says what to expect of it by a meaning; those   *)
(* of this project are Compile of Compiler and ProgramMeaning of Meaning.  *)
(***************************************************************************)
EXTENDS FuncState, Machine, Bytecode

CONSTANTS Compiler(_, _),   \* sq_compile: the functions of a program, with or without line information
          Meaning(_),       \* what a program logs, and how it ends
          Programs,         \* the programs of the instance
          Breaks            \* at how many places of a stream writing may break off

VARIABLES prog, lineinfo, stage, file
vars == <<prog, lineinfo, stage, file, code, vm>>

Idle == [ci |-> <<>>]

Init ==
  /\ prog \in Programs
  /\ lineinfo \in BOOLEAN
  /\ stage = "source"
  /\ file = <<>>
  /\ code = <<>>
  /\ vm = Idle

\* sq_compile: the closure of the main function, or an error.
CompileProgram ==
  /\ stage = "source"
  /\ code' = Compiler(prog, lineinfo)
  /\ stage' = IF code' = <<>> THEN "rejected" ELSE "compiled"
  /\ UNCHANGED <<prog, lineinfo, file, vm>>

\* sq_writeclosure. The host's write function may fail at any call, here at Breaks of them.
WriteClosure ==
  /\ stage = "compiled" /\ Saveable(code)
  /\ \E build \in Builds :
       LET s == Save(code, build)
       IN \E n \in {Len(s)} \cup {(i * Len(s)) \div Breaks : i \in 0 .. Breaks - 1} : file' = SubSeq(s, 1, n)
  /\ stage' = "stored"
  /\ UNCHANGED <<prog, lineinfo, code, vm>>

\* sq_readclosure, by a program of that build.
ReadClosure(build) ==
  /\ stage = "stored"
  /\ LET loaded == Load(file, build)
     IN /\ code' = IF loaded = <<>> THEN code ELSE loaded
        /\ stage' = IF loaded = <<>> THEN "refused" ELSE "compiled"
  /\ file' = <<>>
  /\ UNCHANGED <<prog, lineinfo, vm>>

\* sq_call.
Start ==
  /\ stage = "compiled"
  /\ stage' = "running"
  /\ vm' = Started(code)
  /\ UNCHANGED <<prog, lineinfo, file, code>>

\* One instruction; after the last one the host has its answer.
Run ==
  /\ stage = "running"
  /\ Step
  /\ stage' = IF vm'.ci = <<>> THEN "ended" ELSE "running"
  /\ UNCHANGED <<prog, lineinfo, file>>

Stopped == stage \in {"rejected", "refused", "ended"} /\ UNCHANGED vars

Next == CompileProgram \/ WriteClosure \/ (\E build \in Builds : ReadClosure(build)) \/ Start \/ Run \/ Stopped

Spec == Init /\ [][Next]_vars

----------------------------------------------------------------------------
(* Properties.                                                             *)

\* Running the compiled program does what the program means: it calls the host with the
\* same values in the same order and ends the same way, whatever registers, captured
\* variables, traps and fused instructions it went through.
CompiledMeansSource ==
  stage = "ended" => [log |-> vm.log, end |-> vm.result] = Meaning(prog)

\* What an instruction uses: registers, jump targets, literals.
Registers(i) ==
  CASE i.op \in {"LOAD", "LOADINT", "LOADBOOL", "LOADROOT", "GETBASE", "GETOUTER", "CLOSURE", "JZ", "THROW"} -> {i.a0}
    [] i.op = "DLOAD" -> {i.a0, i.a2}
    [] i.op \in {"MOVE", "INCL", "PINCL", "NOT", "NEG"} -> {i.a0, i.a1}
    [] i.op = "DMOVE" -> {i.a0, i.a1, i.a2, i.a3}
    [] i.op \in {"EQ", "NE"} -> {i.a0, i.a2} \cup (IF i.a3 = 0 THEN {i.a1} ELSE {})
    [] i.op \in {"ADD", "SUB", "MUL", "CMP", "GET", "EXISTS", "INSTANCEOF", "DELETE", "INC", "PINC"} -> {i.a0, i.a1, i.a2}
    [] i.op \in {"JCMP", "AND", "OR", "GETK"} -> {i.a0, i.a2}
    [] i.op \in {"SET", "NEWSLOT"} -> {i.a1, i.a2, i.a3} \cup ({i.a0} \ {NoReg})
    [] i.op = "NEWSLOTA" -> {i.a1, i.a2, i.a3}
    [] i.op = "PREPCALL" -> {i.a0, i.a1, i.a2, i.a3}
    [] i.op = "PREPCALLK" -> {i.a0, i.a2, i.a3}
    [] i.op = "COMPARITH" -> {i.a0, i.a1 \div 65536, i.a1 % 65536, i.a2}
    [] i.op \in {"CALL", "TAILCALL"} -> {i.a1, i.a2 + i.a3 - 1} \cup ({i.a0} \ {NoReg})
    [] i.op = "SETOUTER" -> {i.a2} \cup ({i.a0} \ {NoReg})
    [] i.op = "FOREACH" -> {i.a0, i.a2, i.a2 + 2}
    [] i.op = "PUSHTRAP" -> {i.a0}
    [] i.op = "RETURN" -> IF i.a0 = NoReg THEN {} ELSE {i.a1}
    [] i.op = "LOADNULLS" -> {i.a0 + i.a1 - 1}
    [] OTHER -> {}

Targets(p, k) ==
  LET i == p.ins[k]
  IN IF i.op \in {"JMP", "JZ", "JCMP", "AND", "OR", "FOREACH", "PUSHTRAP"} THEN {k + i.a1} ELSE {}

LiteralsOf(i) ==
  CASE i.op \in {"LOAD", "GETK", "PREPCALLK"} -> {i.a1}
    [] i.op = "DLOAD" -> {i.a1, i.a3}
    [] i.op \in {"EQ", "NE"} /\ i.a3 # 0 -> {i.a1}
    [] i.op = "APPENDARRAY" /\ i.a2 = 1 -> {i.a1}
    [] OTHER -> {}

\* No jump, handler or loop of the compiled code leaves the function (an unpatched one
\* would), every register is below the stack size the frame reserves, and every literal
\* and nested function exists: the interpreter checks none of this.  Nor does it notice a
\* register, pending jump or trap that the compiler has not given back.
CodeWellFormed ==
  stage = "compiled" => \A n \in DOMAIN code : \A k \in DOMAIN code[n].ins :
    LET p == code[n]
    IN /\ p.pending = 0
       /\ \A r \in Registers(p.ins[k]) : r \in 0 .. p.stacksize - 1
       /\ \A t \in Targets(p, k) : t \in 0 .. Len(p.ins) - 1
       /\ \A l \in LiteralsOf(p.ins[k]) : l \in 0 .. Len(p.literals) - 1

\* Every function returns with no trap of its own left, and traps are popped only by the
\* function that pushed them (the interpreter asserts traps == 0 at the last return).
TrapsBalanced ==
  stage = "running" =>
    LET i == NextInstruction
    IN /\ i.op \in {"RETURN", "TAILCALL"} => Ci(vm).etraps = 0
       /\ i.op = "POPTRAP" => i.a0 <= Ci(vm).etraps

\* What is read back is the program that was written, function for function; and a stream that
\* broke off anywhere, or that another build wrote, is refused and not half loaded.
StreamFaithful ==
  [][\A build \in Builds : ReadClosure(build) =>
       code' = code /\ (stage' = "compiled" <=> file = Save(code, build))]_vars
=============================================================================
