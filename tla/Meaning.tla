------------------------------ MODULE Meaning ------------------------------
(***************************************************************************)
(* What a program means, from its tree and without registers: the          *)
(* reference the compiled code is compared with. A variable is a location  *)
(* of a store, a scope an environment from names to locations, so that a   *)
(* closure keeps the variables it captures. Evaluating gives a record      *)
(*   s    the state: store, constants, objects, closures and log           *)
(*   sig  how it ended: next, break, continue, return or throw             *)
(*   v    its value                                                        *)
(* Objects behave as in Machine: what differs is how the program got there.*)
(***************************************************************************)
EXTENDS Syntax, Machine

Ends(s, sig, v) == [s |-> s, sig |-> sig, v |-> v]
Value(s, v) == Ends(s, "next", v)
Then(r, F(_, _)) == IF r.sig = "next" THEN F(r.s, r.v) ELSE r
ValueOf(s, values) ==
  IF values = {} THEN Ends(s, "throw", StrV("error")) ELSE Value(s, CHOOSE v \in values : TRUE)
Changed(s, states, v) ==
  IF states = {} THEN Ends(s, "throw", StrV("error")) ELSE Value(CHOOSE x \in states : TRUE, v)

New(s, v) == [s EXCEPT !.store = Append(@, v)]
Bind(env, x, s) == (x :> Len(s.store)) @@ env          \* x is the newest location
This(env, s) == s.store[env["this"]]

RECURSIVE Eval(_, _, _), EvalAll(_, _, _), Exec(_, _, _), ExecAll(_, _, _)

\* A place: a variable, or a slot of an object (self: register 0 in the code).
PlaceOf(e, env, s) ==
  CASE e.t = "id" /\ e.x \in DOMAIN env -> Value(s, [loc |-> env[e.x]])
    [] e.t = "id" /\ e.x \notin DOMAIN env ->
         Value(s, [loc |-> 0, obj |-> This(env, s), key |-> StrV(e.x), self |-> 0])
    [] e.t = "root" -> Value(s, [loc |-> 0, obj |-> RootTable, key |-> StrV(e.k), self |-> 1])
    [] e.t = "dot" -> Then(Eval(e.e, env, s), LAMBDA s1, o :
         Value(s1, [loc |-> 0, obj |-> o, key |-> StrV(e.k), self |-> IF e.e = Id("this") THEN 0 ELSE 1]))
    [] e.t = "index" -> Then(EvalAll(<<e.e, e.i>>, env, s), LAMBDA s1, o :
         Value(s1, [loc |-> 0, obj |-> o[1], key |-> o[2], self |-> IF e.e = Id("this") THEN 0 ELSE 1]))

ReadPlace(s, p) ==
  IF p.loc # 0 THEN Value(s, s.store[p.loc]) ELSE ValueOf(s, Get(s, p.obj, p.key, p.self))

WritePlace(s, p, v) ==
  IF p.loc # 0 THEN Value([s EXCEPT !.store[p.loc] = v], v)
  ELSE Changed(s, Set(s, p.obj, p.key, v, p.self), v)

\* Read the place, combine with operand and write back: the new value, or the old one.
Update(s, p, op, operand, old) ==
  Then(ReadPlace(s, p), LAMBDA s1, a :
    Then(ValueOf(s1, ARITH_OP(op, a, operand)), LAMBDA s2, v :
      Then(WritePlace(s2, p, v), LAMBDA s3, w : Value(s3, IF old THEN a ELSE w))))

\* Arguments (args[1] is this) bound to the parameters of closure c.
BindParameters(s, c, args) ==
  LET names == <<"this">> \o SelectSeq(c.f.params, LAMBDA x : x # "...")
      var == Len(names) <= Len(c.f.params)
      missing == Len(names) - Len(args)
      nd == Len(c.defaults)
      rest == SubSeq(args, Len(names) + 1, Len(args))
      arr == NewObject(s, "array", ArrayOf(rest), NullV)
      BindAll(s0, xs, vs) ==
        [s |-> [s0 EXCEPT !.store = @ \o vs],
         env |-> [x \in ToSet(xs) |-> Len(s0.store) + SelectLastInSeq(xs, LAMBDA y : y = x)] @@ c.env]
  IN CASE var /\ missing <= 0 ->
            {BindAll(arr, names \o <<"vargv">>, SubSeq(args, 1, Len(names)) \o <<ObjV(Len(arr.objs))>>)}
       [] ~var /\ missing = 0 -> {BindAll(s, names, args)}
       [] ~var /\ missing \in 1 .. nd ->
            {BindAll(s, names, args \o SubSeq(c.defaults, nd - missing + 1, nd))}
       [] OTHER -> {}

RECURSIVE Apply(_, _, _)
Apply(s, f, args) ==
  LET c == s.clos[f[2]]
      b == CHOOSE x \in BindParameters(s, c, args) : TRUE
      withbase == New(b.s, c.base)
      env == Bind(b.env, "@base", withbase)
      r == IF c.f.lambda THEN Eval(c.f.body, env, withbase) ELSE Exec(c.f.body, env, withbase)
      obj == NewObject(s, "instance", s.objs[f[2]].slots, f)
      inst == ObjV(Len(obj.objs))
      ctor == CHOOSE k \in Constructor(s, f) : TRUE
  IN CASE f[1] = "clo" /\ BindParameters(s, c, args) = {} ->
            Ends(s, "throw", StrV("wrong number of parameters"))
       [] f[1] = "clo" /\ BindParameters(s, c, args) # {} ->
            IF r.sig = "throw" THEN r
            ELSE Value(r.s, IF r.sig = "return" \/ c.f.lambda THEN r.v ELSE NullV)
       [] f = Out -> Value([s EXCEPT !.log = Append(@, args[2])], NullV)
       [] IsKind(s, f, "class") ->
            IF Constructor(s, f) = {} THEN Value(obj, inst)
            ELSE Then(Apply(obj, ctor, <<inst>> \o Tail(args)), LAMBDA s1, v : Value(s1, inst))
       [] OTHER -> Ends(s, "throw", StrV("attempt to call"))

EvalCall(e, env, s) ==
  LET f == e.f
      slot == f.t \in {"dot", "index", "root"} /\ (f.t = "root" \/ f.e.t # "base")
      place == slot \/ (f.t = "id" /\ f.x \notin DOMAIN env)
      Args(s1, fv, this) ==
        Then(EvalAll(e.args, env, s1), LAMBDA s2, vs : Apply(s2, fv, <<this>> \o vs))
  IN IF place
     THEN Then(PlaceOf(f, env, s), LAMBDA s1, p :
            Then(ReadPlace(s1, p), LAMBDA s2, fv : Args(s2, fv, p.obj)))
     ELSE Then(Eval(f, env, s), LAMBDA s1, fv : Args(s1, fv, This(env, s1)))

Closed(f, env, s) ==
  Then(EvalAll(f.defaults, env, s), LAMBDA s1, ds :
    Value([s1 EXCEPT !.clos = Append(@, [f |-> f, env |-> env, base |-> NullV, defaults |-> ds])],
          CloV(Len(s1.clos) + 1)))

\* Members are evaluated and stored one after the other.
RECURSIVE FillObject(_, _, _, _)
FillObject(fields, o, env, s) ==
  IF fields = <<>> THEN Value(s, o)
  ELSE Then(EvalAll(<<Head(fields).k, Head(fields).e>>, env, s), LAMBDA s1, kv :
         Then(Changed(s1, NewSlot(s1, o, kv[1], kv[2]), o), LAMBDA s2, v :
           FillObject(Tail(fields), o, env, s2)))

NewClass(e, env, s) ==
  Then(IF e.base = None THEN Value(s, NullV) ELSE Eval(e.base, env, s), LAMBDA s1, b :
    IF e.base # None /\ ~IsKind(s1, b, "class") THEN Ends(s1, "throw", StrV("trying to inherit"))
    ELSE LET o == NewObject(s1, "class", IF e.base = None THEN <<>> ELSE s1.objs[b[2]].slots, b)
         IN FillObject(e.fields, ObjV(Len(o.objs)), env, o))

Operate(s, op, a, b) ==
  CASE op \in {"ADD", "SUB", "MUL"} -> ValueOf(s, ARITH_OP(op, a, b))
    [] op \in {"CMP_G", "CMP_L"} -> ValueOf(s, CMP_OP(IF op = "CMP_G" THEN 0 ELSE 3, a, b))
    [] op = "EQ" -> Value(s, BoolV(a = b))
    [] op = "NE" -> Value(s, BoolV(a # b))
    [] op = "EXISTS" -> Value(s, BoolV(Lookup(s, b, a) # {}))
    [] op = "INSTANCEOF" ->
         ValueOf(s, IF IsKind(s, b, "class") THEN {BoolV(InstanceOf(s, a, b))} ELSE {})

ArithOf(tok) == CASE tok = "+=" -> "ADD" [] tok = "-=" -> "SUB" [] tok = "*=" -> "MUL"

EvalAssign(e, env, s) ==
  Then(PlaceOf(e.l, env, s), LAMBDA s1, p :
    Then(Eval(e.r, env, s1), LAMBDA s2, v :
      CASE e.op = "=" -> WritePlace(s2, p, v)
        [] e.op = "<-" -> Changed(s2, NewSlot(s2, p.obj, p.key, v), v)
        [] OTHER -> Update(s2, p, ArithOf(e.op), v, FALSE)))

Eval(e, env, s) ==
  CASE e.t = "null" -> Value(s, NullV)
    [] e.t = "int" -> Value(s, IntV(e.n))
    [] e.t = "bool" -> Value(s, BoolV(e.b))
    [] e.t = "str" -> Value(s, StrV(e.s))
    [] e.t = "base" -> Value(s, s.store[env["@base"]])
    [] e.t = "id" /\ e.x \notin DOMAIN env /\ e.x \in DOMAIN s.consts -> Value(s, IntV(s.consts[e.x]))
    [] e.t \in {"dot", "index", "root"} \/ (e.t = "id" /\ (e.x \in DOMAIN env \/ e.x \notin DOMAIN s.consts)) ->
         Then(PlaceOf(e, env, s), ReadPlace)
    [] e.t = "bin" -> Then(EvalAll(<<e.a, e.b>>, env, s), LAMBDA s1, v : Operate(s1, e.op, v[1], v[2]))
    [] e.t = "logic" -> Then(Eval(e.a, env, s), LAMBDA s1, v :
         IF IsFalse(v) = (e.op = "AND") THEN Value(s1, v) ELSE Eval(e.b, env, s1))
    [] e.t = "cond" -> Then(Eval(e.c, env, s), LAMBDA s1, v :
         Eval(IF IsFalse(v) THEN e.b ELSE e.a, env, s1))
    [] e.t = "comma" -> Then(Eval(e.a, env, s), LAMBDA s1, v : Eval(e.b, env, s1))
    [] e.t = "unary" -> Then(Eval(e.e, env, s), LAMBDA s1, v :
         IF e.op = "NOT" THEN Value(s1, BoolV(IsFalse(v)))
         ELSE ValueOf(s1, ARITH_OP("SUB", IntV(0), v)))
    [] e.t = "assign" -> EvalAssign(e, env, s)
    [] e.t \in {"preinc", "postinc"} -> Then(PlaceOf(e.l, env, s), LAMBDA s1, p :
         Update(s1, p, "ADD", IntV(e.d), e.t = "postinc"))
    [] e.t = "delete" -> Then(PlaceOf(e.l, env, s), LAMBDA s1, p :
         Then(ValueOf(s1, Lookup(s1, p.obj, p.key)), LAMBDA s2, v :
           Changed(s2, DeleteSlot(s2, p.obj, p.key), v)))
    [] e.t = "array" -> Then(EvalAll(e.es, env, s), LAMBDA s1, vs :
         LET o == NewObject(s1, "array", ArrayOf(vs), NullV) IN Value(o, ObjV(Len(o.objs))))
    [] e.t = "table" ->
         LET o == NewObject(s, "table", <<>>, NullV) IN FillObject(e.fields, ObjV(Len(o.objs)), env, o)
    [] e.t = "class" -> NewClass(e, env, s)
    [] e.t = "func" -> Closed(e, env, s)
    [] e.t = "call" -> EvalCall(e, env, s)

EvalAll(es, env, s) ==
  IF es = <<>> THEN Value(s, <<>>)
  ELSE Then(Eval(Head(es), env, s), LAMBDA s1, v :
         Then(EvalAll(Tail(es), env, s1), LAMBDA s2, vs : Value(s2, <<v>> \o vs)))

----------------------------------------------------------------------------
(* Statements.                                                             *)

Done(s) == Value(s, NullV)

\* What a loop does after a round of its body: go on, stop, or end as the body did.
AfterBody(r, Again(_)) ==
  CASE r.sig \in {"next", "continue"} -> Again(r.s)
    [] r.sig = "break" -> Done(r.s)
    [] OTHER -> r

RECURSIVE ForRounds(_, _, _), ForeachRounds(_, _, _, _, _), DoRounds(_, _, _)
ForRounds(st, env, s) ==
  LET Round(s1) == AfterBody(Exec(st.s, env, s1), LAMBDA s2 :
        IF st.n = None THEN ForRounds(st, env, s2)
        ELSE Then(Eval(st.n, env, s2), LAMBDA s3, v : ForRounds(st, env, s3)))
  IN IF st.c = None THEN Round(s)
     ELSE Then(Eval(st.c, env, s), LAMBDA s1, v : IF IsFalse(v) THEN Done(s1) ELSE Round(s1))

DoRounds(st, env, s) ==
  AfterBody(Exec(st.s, env, s), LAMBDA s1 :
    Then(Eval(st.c, env, s1), LAMBDA s2, v : IF IsFalse(v) THEN Done(s2) ELSE DoRounds(st, env, s2)))

ForeachRounds(st, env, s, o, n) ==
  LET v == Lookup(s, o, IntV(n))
      s1 == [s EXCEPT !.store[env[st.k]] = IntV(n), !.store[env[st.x]] = CHOOSE x \in v : TRUE]
  IN IF v = {} THEN Done(s)
     ELSE AfterBody(Exec(st.s, env, s1), LAMBDA s2 : ForeachRounds(st, env, s2, o, n + 1))

\* The bodies from the first matching case on, the default's last.
RECURSIVE SwitchFrom(_, _, _, _, _)
SwitchFrom(cases, default, v, env, s) ==
  LET RECURSIVE Bodies(_, _)
      Bodies(cs, s1) ==
        IF cs = <<>> THEN ExecAll(default, env, s1)
        ELSE Then(ExecAll(Head(cs).ss, env, s1), LAMBDA s2, x : Bodies(Tail(cs), s2))
  IN IF cases = <<>> THEN ExecAll(default, env, s)
     ELSE Then(Eval(Head(cases).e, env, s), LAMBDA s1, k :
            IF k = v THEN Bodies(cases, s1) ELSE SwitchFrom(Tail(cases), default, v, env, s1))

ExecTry(st, env, s) ==
  LET r == Exec(st.s, env, s)
      h == New(r.s, r.v)
  IN IF r.sig = "throw" THEN Exec(st.h, Bind(env, st.x, h), h) ELSE r

Declare(st, env, s) ==
  CASE st.t = "localfunc" -> Closed(st.f, env, s)
    [] st.t = "local" /\ st.e = None -> Done(s)
    [] OTHER -> Eval(st.e, env, s)

Exec(st, env, s) ==
  CASE st.t = "none" -> Done(s)
    [] st.t = "expr" -> Eval(st.e, env, s)
    [] st.t = "block" -> ExecAll(st.ss, env, s)
    [] st.t \in {"local", "localfunc"} -> ExecAll(<<st>>, env, s)
    [] st.t = "if" -> Then(Eval(st.c, env, s), LAMBDA s1, v : Exec(IF IsFalse(v) THEN st.b ELSE st.a, env, s1))
    [] st.t = "while" -> ForRounds(For(None, st.c, None, st.s), env, s)
    [] st.t = "dowhile" -> DoRounds(st, env, s)
    [] st.t = "for" ->
         IF st.i.t = "local"
         THEN Then(Declare(st.i, env, s), LAMBDA s1, v :
                LET n == New(s1, v) IN ForRounds(st, Bind(env, st.i.x, n), n))
         ELSE Then(IF st.i = None THEN Done(s) ELSE Eval(st.i, env, s), LAMBDA s1, v : ForRounds(st, env, s1))
    [] st.t = "foreach" -> Then(Eval(st.e, env, s), LAMBDA s1, o :
         LET k == New(s1, NullV) x == New(k, NullV)
         IN IF ~IsKind(s1, o, "array") THEN Ends(s1, "throw", StrV("cannot iterate"))
            ELSE ForeachRounds(st, Bind(Bind(env, st.k, k), st.x, x), x, o, 0))
    [] st.t = "switch" -> Then(Eval(st.e, env, s), LAMBDA s1, v :
         LET r == SwitchFrom(st.cases, st.default, v, env, s1) IN IF r.sig = "break" THEN Done(r.s) ELSE r)
    [] st.t = "return" -> Then(IF st.e = None THEN Done(s) ELSE Eval(st.e, env, s),
                               LAMBDA s1, v : Ends(s1, "return", v))
    [] st.t \in {"break", "continue"} -> Ends(s, st.t, NullV)
    [] st.t = "try" -> ExecTry(st, env, s)
    [] st.t = "throw" -> Then(Eval(st.e, env, s), LAMBDA s1, v : Ends(s1, "throw", v))
    [] st.t = "function" -> Then(Closed(st.f, env, s), LAMBDA s1, f :
         Changed(s1, NewSlot(s1, This(env, s1), StrV(st.k), f), f))
    [] st.t = "classstat" -> Then(PlaceOf(st.k, env, s), LAMBDA s1, p :
         Then(NewClass(st.c, env, s1), LAMBDA s2, c : Changed(s2, NewSlot(s2, p.obj, p.key, c), c)))
    [] st.t = "const" -> Done([s EXCEPT !.consts = (st.k :> st.e.n) @@ @])

ExecAll(ss, env, s) ==
  IF ss = <<>> THEN Done(s)
  ELSE IF Head(ss).t \in {"local", "localfunc"}
  THEN Then(Declare(Head(ss), env, s), LAMBDA s1, v :
         LET n == New(s1, v) IN ExecAll(Tail(ss), Bind(env, Head(ss).x, n), n))
  ELSE Then(Exec(Head(ss), env, s), LAMBDA s1, v : ExecAll(Tail(ss), env, s1))

\* What a program logs, and how it ends.
ProgramMeaning(prog) ==
  LET start == Started(<<[stacksize |-> 0]>>)
      s == [store |-> <<RootTable, ObjV(2)>>, consts |-> <<>>, objs |-> start.objs, clos |-> <<>>,
            log |-> <<>>]
      r == ExecAll(prog, [x \in {"this", "vargv"} |-> IF x = "this" THEN 1 ELSE 2], s)
  IN [log |-> r.s.log,
      end |-> CASE r.sig = "throw" -> <<"error", r.v>> [] r.sig = "return" -> <<"done", r.v>>
                [] OTHER -> <<"done", NullV>>]
=============================================================================
