------------------------------ MODULE Machine ------------------------------
(***************************************************************************)
(* The interpreter loop of SQVM::Execute for one thread running compiled   *)
(* code: the value stack with its frames, the variables captured by        *)
(* closures (open while they live on the stack), the exception traps, and  *)
(* tables, arrays, classes and instances without delegates or metamethods. *)
(*                                                                         *)
(*   code  the function prototypes, the main function last                 *)
(*   vm    the state of the thread; vm.log is what the one host function   *)
(*         of the root table, out, was called with                         *)
(***************************************************************************)
EXTENDS Integers, Sequences, SequencesExt, TLC

CONSTANT StackMax           \* slots of the value stack
VARIABLES code, vm

NoTarget == 255
NullV == <<"null">>
IntV(n) == <<"int", n>>
BoolV(b) == <<"bool", b>>
StrV(s) == <<"str", s>>
ObjV(i) == <<"obj", i>>
CloV(i) == <<"clo", i>>
Out == <<"native", "out">>

IsFalse(v) == v \in {NullV, IntV(0), BoolV(FALSE)}
LiteralV(k) == IF k.t = "str" THEN StrV(k.s) ELSE IntV(k.n)
Signed(a) == IF a >= 128 THEN a - 256 ELSE a

----------------------------------------------------------------------------
(* Frames, captured variables and exceptions.                              *)

Ci(m) == Last(m.ci)
Proto(m) == code[m.clos[Ci(m).clo].proto]
STK(m, r) == m.stk[m.base + r]
Put(m, r, v) == [m EXCEPT !.stk[m.base + r] = v]
Result(m, r, v) == IF r = NoTarget THEN m ELSE Put(m, r, v)
Jump(m, d) == [m EXCEPT !.ci[Len(m.ci)].ip = @ + d]
Literal(m, n) == LiteralV(Proto(m).literals[n + 1])
Cleared(stk, from, to) == [k \in DOMAIN stk |-> IF k \in from .. to THEN NullV ELSE stk[k]]

CloseOuters(m, at) ==
  [m EXCEPT !.outers = [k \in DOMAIN @ |->
     IF @[k].open /\ @[k].at >= at THEN [open |-> FALSE, at |-> 0, val |-> m.stk[@[k].at]]
     ELSE @[k]]]

EnterFrame(m, clo, target, newbase, newtop, tail) ==
  LET f == [clo |-> clo, ip |-> 0, target |-> target, prevbase |-> newbase - m.base,
            prevtop |-> m.top - m.base, etraps |-> 0]
  IN [m EXCEPT !.ci = IF tail THEN [@ EXCEPT ![Len(@)].clo = clo, ![Len(@)].ip = 0,
                                             ![Len(@)].target = target]
                      ELSE Append(@, f),
               !.base = newbase, !.top = newtop]

LeaveFrame(m) ==
  LET b == m.base - Ci(m).prevbase
      t == b + Ci(m).prevtop
      c == CloseOuters(m, m.base)
  IN [c EXCEPT !.ci = Front(@), !.base = b, !.top = t, !.stk = Cleared(@, t, m.top)]

\* Unwinding: to the innermost frame with a trap; without one the call fails.
RECURSIVE Raise(_, _, _)
Raise(m, v, lasttop) ==
  IF m.ci = <<>> THEN [m EXCEPT !.result = <<"error", v>>]
  ELSE IF Ci(m).etraps = 0 THEN Raise(LeaveFrame(m), v, lasttop)
  ELSE LET et == Last(m.etraps)
       IN [m EXCEPT !.etraps = Front(@), !.ci[Len(m.ci)].etraps = @ - 1,
                    !.ci[Len(m.ci)].ip = et.ip, !.top = et.top, !.base = et.base,
                    !.stk = Cleared([@ EXCEPT ![et.base + et.extarget] = v], et.top, lasttop)]

ThrowValue(m, v) == Raise(m, v, m.top)
Failure(m, what) == ThrowValue(m, StrV(what))

----------------------------------------------------------------------------
(* Objects. A slot that does not exist is the empty set.                   *)

IsKind(m, v, kind) == v[1] = "obj" /\ m.objs[v[2]].kind = kind

NewObject(m, kind, slots, base) ==
  [m EXCEPT !.objs = Append(@, [kind |-> kind, slots |-> slots, base |-> base])]

Lookup(m, v, key) ==
  IF v[1] = "obj" /\ key \in DOMAIN m.objs[v[2]].slots THEN {m.objs[v[2]].slots[key]} ELSE {}

RootTable == ObjV(1)

\* selfidx: the register of the object; for register 0, this, the root table is tried too.
Get(m, self, key, selfidx) ==
  LET found == Lookup(m, self, key)
  IN IF found = {} /\ selfidx = 0 /\ ~IsKind(m, self, "array") THEN Lookup(m, RootTable, key)
     ELSE found

Store(m, self, key, v) == [m EXCEPT !.objs[self[2]].slots = (key :> v) @@ @]

Set(m, self, key, v, selfidx) ==
  LET found == IF IsKind(m, self, "class") THEN {} ELSE Lookup(m, self, key)
  IN CASE found # {} -> {Store(m, self, key, v)}
       [] found = {} /\ selfidx = 0 /\ Lookup(m, RootTable, key) # {} ->
            {Store(m, RootTable, key, v)}
       [] OTHER -> {}

\* A method of a class with a base knows the base.
NewSlot(m, self, key, v) ==
  LET base == m.objs[self[2]].base
      copy == [m EXCEPT !.clos = Append(@, [m.clos[v[2]] EXCEPT !.base = base])]
  IN CASE IsKind(m, self, "table") -> {Store(m, self, key, v)}
       [] IsKind(m, self, "class") ->
            {IF v[1] = "clo" /\ base # NullV THEN Store(copy, self, key, CloV(Len(copy.clos)))
             ELSE Store(m, self, key, v)}
       [] OTHER -> {}

DeleteSlot(m, self, key) ==
  IF IsKind(m, self, "table") /\ Lookup(m, self, key) # {}
  THEN {[m EXCEPT !.objs[self[2]].slots = [k \in DOMAIN @ \ {key} |-> @[k]]]} ELSE {}

InstanceOf(m, inst, class) ==
  LET RECURSIVE Up(_)
      Up(c) == c # NullV /\ (c = class \/ Up(m.objs[c[2]].base))
  IN IsKind(m, inst, "instance") /\ Up(m.objs[inst[2]].base)

ArrayOf(values) == [k \in {IntV(i - 1) : i \in DOMAIN values} |-> values[k[2] + 1]]
Size(m, v) == {k[2] : k \in DOMAIN m.objs[v[2]].slots}

----------------------------------------------------------------------------
(* Calls.                                                                  *)

\* The arguments as the function wants them: a set of at most one state.
Parameters(m, clo, nargs, base) ==
  LET fp == code[m.clos[clo].proto]
      fixed == IF fp.varparams THEN fp.params - 1 ELSE fp.params
      missing == fp.params - nargs
      ndef == Len(fp.defaults)
      rest == [k \in 1 .. nargs - fixed |-> m.stk[base + fixed + k - 1]]
      arr == NewObject(m, "array", ArrayOf(rest), NullV)
  IN CASE fp.varparams /\ nargs >= fixed ->
            {[arr EXCEPT !.stk = [Cleared(@, base + fixed, base + nargs - 1)
                                    EXCEPT ![base + fixed] = ObjV(Len(arr.objs))]]}
       [] ~fp.varparams /\ missing = 0 -> {m}
       [] ~fp.varparams /\ missing \in 1 .. ndef ->
            {[m EXCEPT !.stk = [k \in DOMAIN @ |->
                IF k \in base + nargs .. base + fp.params - 1
                THEN m.clos[clo].defaults[ndef - missing + (k - base - nargs) + 1] ELSE @[k]]]}
       [] OTHER -> {}

StartCall(m, clo, target, nargs, base, tail) ==
  LET p == Parameters(m, clo, nargs, base)
  IN IF p = {} THEN Failure(m, "wrong number of parameters")
     ELSE EnterFrame(CHOOSE x \in p : TRUE, clo, target, base,
                     base + code[m.clos[clo].proto].stacksize, tail)

Constructor(m, class) == Lookup(m, class, StrV("constructor"))

CALL(m, i) ==
  LET f == STK(m, i.a1)
      target == Signed(i.a0)
      base == m.base + i.a2
      class == m.objs[f[2]]
      obj == NewObject(m, "instance", class.slots, f)
      inst == ObjV(Len(obj.objs))
      made == Result([obj EXCEPT !.stk[base] = inst], i.a0, inst)
      arg == IF i.a3 > 1 THEN STK(m, i.a2 + 1) ELSE NullV
  IN CASE f[1] = "clo" -> StartCall(m, f[2], target, i.a3, base, FALSE)
       [] f = Out -> Result([m EXCEPT !.log = Append(@, arg)], i.a0, NullV)
       [] IsKind(m, f, "class") /\ Constructor(m, f) = {} -> Result(obj, i.a0, inst)
       [] IsKind(m, f, "class") /\ Constructor(m, f) # {} ->
            StartCall(made, (CHOOSE c \in Constructor(m, f) : TRUE)[2], -1, i.a3, base, FALSE)
       [] OTHER -> Failure(m, "attempt to call")

TAILCALL(m, i) ==
  LET f == STK(m, i.a1)
      c == CloseOuters(m, m.base)
      moved == FoldLeft(LAMBDA x, n : Put(x, n, STK(x, i.a2 + n)), c, [n \in 1 .. i.a3 |-> n - 1])
  IN IF f[1] = "clo" THEN StartCall(moved, f[2], Ci(m).target, i.a3, m.base, TRUE) ELSE CALL(m, i)

\* Leaving the first frame ends the run.
RETURN(m, i) ==
  LET v == IF i.a0 = NoTarget THEN NullV ELSE STK(m, i.a1)
      l == LeaveFrame(m)
      dest == l.base + Ci(m).target
  IN IF l.ci = <<>> THEN [l EXCEPT !.result = <<"done", v>>]
     ELSE IF Ci(m).target = -1 THEN l
     ELSE LeaveFrame([m EXCEPT !.stk[dest] = v])

FindOuter(m, at) ==
  LET known == SelectInSeq(m.outers, LAMBDA o : o.open /\ o.at = at)
  IN IF known # 0 THEN [m |-> m, id |-> known]
     ELSE [m |-> [m EXCEPT !.outers = Append(@, [open |-> TRUE, at |-> at, val |-> NullV])],
           id |-> Len(m.outers) + 1]

CLOSURE_OP(m, i) ==
  LET p == Proto(m).functions[i.a1 + 1]
      Capture(acc, o) ==
        LET f == FindOuter(acc.m, m.base + o.src)
        IN IF o.local THEN [m |-> f.m, ids |-> Append(acc.ids, f.id)]
           ELSE [acc EXCEPT !.ids = Append(@, m.clos[Ci(m).clo].outers[o.src + 1])]
      c == FoldLeft(Capture, [m |-> m, ids |-> <<>>], code[p].outervalues)
      d == code[p].defaults
      clo == [proto |-> p, outers |-> c.ids, base |-> NullV,
              defaults |-> [k \in DOMAIN d |-> STK(m, d[k])]]
  IN Put([c.m EXCEPT !.clos = Append(@, clo)], i.a0, CloV(Len(m.clos) + 1))

----------------------------------------------------------------------------
(* Instructions.                                                           *)

Loads(m, i) ==
  CASE i.op = "LOAD" -> Put(m, i.a0, Literal(m, i.a1))
    [] i.op = "LOADINT" -> Put(m, i.a0, IntV(i.a1))
    [] i.op = "LOADBOOL" -> Put(m, i.a0, BoolV(i.a1 # 0))
    [] i.op = "LOADROOT" -> Put(m, i.a0, RootTable)
    [] i.op = "LOADNULLS" ->
         [m EXCEPT !.stk = Cleared(@, m.base + i.a0, m.base + i.a0 + i.a1 - 1)]
    [] i.op = "DLOAD" -> Put(Put(m, i.a0, Literal(m, i.a1)), i.a2, Literal(m, i.a3))
    [] i.op = "MOVE" -> Put(m, i.a0, STK(m, i.a1))
    [] i.op = "DMOVE" -> LET x == Put(m, i.a0, STK(m, i.a1)) IN Put(x, i.a2, STK(x, i.a3))

Jumps(m, i) ==
  CASE i.op = "JMP" -> Jump(m, i.a1)
    [] i.op = "JZ" -> IF IsFalse(STK(m, i.a0)) THEN Jump(m, i.a1) ELSE m
    [] i.op = "AND" -> IF IsFalse(STK(m, i.a2)) THEN Jump(Put(m, i.a0, STK(m, i.a2)), i.a1) ELSE m
    [] i.op = "OR" -> IF IsFalse(STK(m, i.a2)) THEN m ELSE Jump(Put(m, i.a0, STK(m, i.a2)), i.a1)

\* The arithmetic of two integers: anything else is an error.
ARITH_OP(op, a, b) ==
  IF a[1] # "int" \/ b[1] # "int" THEN {}
  ELSE {IntV(CASE op = "ADD" -> a[2] + b[2] [] op = "SUB" -> a[2] - b[2] [] op = "MUL" -> a[2] * b[2])}

CMP_OP(op, a, b) ==
  IF a[1] # "int" \/ b[1] # "int" THEN {}
  ELSE {BoolV(IF op = 0 THEN a[2] > b[2] ELSE a[2] < b[2])}

OrFail(m, r, values) ==
  IF values = {} THEN Failure(m, "error") ELSE Put(m, r, CHOOSE v \in values : TRUE)

JumpUnless(m, i, values) ==
  IF values = {} THEN Failure(m, "error") ELSE IF IsFalse(CHOOSE v \in values : TRUE)
  THEN Jump(m, i.a1) ELSE m

Operators(m, i) ==
  LET b == IF i.op \in {"EQ", "NE"} /\ i.a3 # 0 THEN Literal(m, i.a1) ELSE STK(m, i.a1)
  IN CASE i.op \in {"ADD", "SUB", "MUL"} -> OrFail(m, i.a0, ARITH_OP(i.op, STK(m, i.a2), b))
       [] i.op = "CMP" -> OrFail(m, i.a0, CMP_OP(i.a3, STK(m, i.a2), b))
       [] i.op = "JCMP" -> JumpUnless(m, i, CMP_OP(i.a3, STK(m, i.a2), STK(m, i.a0)))
       [] i.op = "EQ" -> Put(m, i.a0, BoolV(STK(m, i.a2) = b))
       [] i.op = "NE" -> Put(m, i.a0, BoolV(STK(m, i.a2) # b))
       [] i.op = "EXISTS" -> Put(m, i.a0, BoolV(Lookup(m, b, STK(m, i.a2)) # {}))
       [] i.op = "INSTANCEOF" ->
            OrFail(m, i.a0, IF IsKind(m, b, "class") THEN {BoolV(InstanceOf(m, STK(m, i.a2), b))} ELSE {})
       [] i.op = "NOT" -> Put(m, i.a0, BoolV(IsFalse(b)))
       [] i.op = "NEG" -> OrFail(m, i.a0, ARITH_OP("SUB", IntV(0), b))

\* Read, add and write back a slot; the result is the old value if postfix.
DerefInc(m, i, op, selfidx, key, incr, postfix) ==
  LET self == STK(m, selfidx)
      old == Get(m, self, key, selfidx)
      new == ARITH_OP(op, CHOOSE v \in old : TRUE, incr)
      v == CHOOSE x \in new : TRUE
      s == Set(m, self, key, v, selfidx)
  IN IF old = {} \/ new = {} \/ s = {} THEN Failure(m, "error")
     ELSE Put(CHOOSE x \in s : TRUE, i.a0, IF postfix THEN CHOOSE x \in old : TRUE ELSE v)

Increments(m, i) ==
  LET a == STK(m, i.a1)
      sum == ARITH_OP("ADD", a, IntV(Signed(i.a3)))
      inc == CHOOSE v \in sum : TRUE
  IN CASE i.op = "COMPARITH" ->
            DerefInc(m, i, CASE i.a3 = 43 -> "ADD" [] i.a3 = 45 -> "SUB" [] i.a3 = 42 -> "MUL",
                     i.a1 \div 65536, STK(m, i.a2), STK(m, i.a1 % 65536), FALSE)
       [] i.op \in {"INC", "PINC"} ->
            DerefInc(m, i, "ADD", i.a1, STK(m, i.a2), IntV(Signed(i.a3)), i.op = "PINC")
       [] i.op \in {"INCL", "PINCL"} /\ sum = {} -> Failure(m, "error")
       [] i.op = "INCL" -> Put(m, i.a1, inc)
       [] i.op = "PINCL" -> Put(Put(m, i.a0, a), i.a1, inc)

Slots(m, i) ==
  LET key == IF i.op \in {"GETK", "PREPCALLK"} THEN Literal(m, i.a1)
             ELSE IF i.op = "PREPCALL" THEN STK(m, i.a1) ELSE STK(m, i.a2)
      selfidx == IF i.op \in {"GETK", "PREPCALL", "PREPCALLK"} THEN i.a2 ELSE i.a1
      self == STK(m, selfidx)
      got == Get(m, self, key, selfidx)
      changed == CASE i.op = "SET" -> Set(m, self, key, STK(m, i.a3), selfidx)
                   [] i.op \in {"NEWSLOT", "NEWSLOTA"} -> NewSlot(m, self, key, STK(m, i.a3))
                   [] i.op = "DELETE" -> DeleteSlot(m, self, key)
      new == CHOOSE x \in changed : TRUE
  IN CASE i.op \in {"GET", "GETK"} -> OrFail(m, i.a0, got)
       [] i.op \in {"PREPCALL", "PREPCALLK"} -> OrFail(Put(m, i.a3, self), i.a0, got)
       [] i.op \notin {"GET", "GETK", "PREPCALL", "PREPCALLK"} /\ changed = {} -> Failure(m, "error")
       [] i.op \in {"SET", "NEWSLOT"} -> Result(new, i.a0, STK(m, i.a3))
       [] i.op = "NEWSLOTA" -> new
       [] i.op = "DELETE" -> Put(new, i.a0, CHOOSE v \in Lookup(m, self, key) : TRUE)

Objects(m, i) ==
  LET kind == CASE i.a3 = 0 -> "table" [] i.a3 = 1 -> "array" [] i.a3 = 2 -> "class"
      based == kind = "class" /\ i.a1 # -1
      base == IF based THEN STK(m, i.a1) ELSE NullV
      obj == NewObject(m, kind, IF based THEN m.objs[base[2]].slots ELSE <<>>, base)
      item == CASE i.a2 = 0 -> STK(m, i.a1) [] i.a2 = 1 -> Literal(m, i.a1)
                [] i.a2 = 2 -> IntV(i.a1) [] i.a2 = 4 -> BoolV(i.a1 # 0)
      n == Cardinality(Size(m, STK(m, i.a0)))
  IN CASE i.op = "APPENDARRAY" -> Store(m, STK(m, i.a0), IntV(n), item)
       [] i.op = "NEWOBJ" /\ based /\ ~IsKind(m, base, "class") -> Failure(m, "trying to inherit")
       [] OTHER -> Put(obj, i.a0, ObjV(Len(obj.objs)))

FOREACH_OP(m, i) ==
  LET o == STK(m, i.a0)
      at == STK(m, i.a2 + 2)
      n == IF at = NullV THEN 0 ELSE at[2]
      v == Lookup(m, o, IntV(n))
  IN CASE ~IsKind(m, o, "array") -> Failure(m, "cannot iterate")
       [] IsKind(m, o, "array") /\ v = {} -> Jump(m, i.a1)
       [] OTHER -> Jump(Put(Put(Put(m, i.a2, IntV(n)), i.a2 + 1, CHOOSE x \in v : TRUE),
                            i.a2 + 2, IntV(n + 1)), 1)

Variables(m, i) ==
  LET id == m.clos[Ci(m).clo].outers[i.a1 + 1]
      o == m.outers[id]
      v == STK(m, i.a2)
      set == IF o.open THEN [m EXCEPT !.stk[o.at] = v] ELSE [m EXCEPT !.outers[id].val = v]
  IN CASE i.op = "GETOUTER" -> Put(m, i.a0, IF o.open THEN m.stk[o.at] ELSE o.val)
       [] i.op = "SETOUTER" -> Result(set, i.a0, v)
       [] i.op = "CLOSE" -> CloseOuters(m, m.base + i.a1)

Traps(m, i) ==
  LET n == Len(m.ci)
  IN CASE i.op = "PUSHTRAP" ->
            [m EXCEPT !.etraps = Append(@, [ip |-> Ci(m).ip + i.a1, base |-> m.base, top |-> m.top,
                                            extarget |-> i.a0]),
                      !.ci[n].etraps = @ + 1]
       [] i.op = "POPTRAP" ->
            [m EXCEPT !.etraps = SubSeq(@, 1, Len(@) - i.a0), !.ci[n].etraps = @ - i.a0]
       [] i.op = "THROW" -> ThrowValue(m, STK(m, i.a0))

\* One round of the interpreter loop; ip already points after the instruction.
Execute(m, i) ==
  CASE i.op \in {"LOAD", "LOADINT", "LOADBOOL", "LOADROOT", "LOADNULLS", "DLOAD", "MOVE", "DMOVE"} ->
         Loads(m, i)
    [] i.op \in {"JMP", "JZ", "AND", "OR"} -> Jumps(m, i)
    [] i.op \in {"ADD", "SUB", "MUL", "CMP", "JCMP", "EQ", "NE", "EXISTS", "INSTANCEOF", "NOT", "NEG"} ->
         Operators(m, i)
    [] i.op \in {"COMPARITH", "INC", "PINC", "INCL", "PINCL"} -> Increments(m, i)
    [] i.op \in {"GET", "GETK", "PREPCALL", "PREPCALLK", "SET", "NEWSLOT", "NEWSLOTA", "DELETE"} ->
         Slots(m, i)
    [] i.op \in {"NEWOBJ", "APPENDARRAY"} -> Objects(m, i)
    [] i.op \in {"GETOUTER", "SETOUTER", "CLOSE"} -> Variables(m, i)
    [] i.op \in {"PUSHTRAP", "POPTRAP", "THROW"} -> Traps(m, i)
    [] i.op = "CLOSURE" -> CLOSURE_OP(m, i)
    [] i.op = "GETBASE" -> Put(m, i.a0, m.clos[Ci(m).clo].base)
    [] i.op = "FOREACH" -> FOREACH_OP(m, i)
    [] i.op = "CALL" -> CALL(m, i)
    [] i.op = "TAILCALL" -> TAILCALL(m, i)
    [] i.op = "RETURN" -> RETURN(m, i)
    [] i.op = "LINE" -> m

Running == vm.ci # <<>>
NextInstruction == Proto(vm).ins[Ci(vm).ip + 1]

\* The main function is called with the root table as this and no arguments.
Started(protos) ==
  LET args == ObjV(2)
      stk == [k \in 0 .. StackMax - 1 |-> IF k = 0 THEN RootTable ELSE IF k = 1 THEN args ELSE NullV]
      root == [kind |-> "table", slots |-> StrV("out") :> Out, base |-> NullV]
      vargv == [kind |-> "array", slots |-> <<>>, base |-> NullV]
  IN [stk |-> stk, base |-> 0, top |-> protos[Len(protos)].stacksize, etraps |-> <<>>,
      ci |-> <<[clo |-> 1, ip |-> 0, target |-> -1, prevbase |-> 0, prevtop |-> 0, etraps |-> 0]>>,
      clos |-> <<[proto |-> Len(protos), outers |-> <<>>, base |-> NullV, defaults |-> <<>>]>>,
      outers |-> <<>>, objs |-> <<root, vargv>>, log |-> <<>>, result |-> <<"running">>]

\* The next instruction is executed.
Step ==
  /\ Running
  /\ vm' = Execute(Jump(vm, 1), NextInstruction)
  /\ UNCHANGED code
=============================================================================
