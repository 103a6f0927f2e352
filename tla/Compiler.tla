------------------------------ MODULE Compiler ------------------------------
(***************************************************************************)
(* The code generator of class SQCompiler. An operator takes the compiler  *)
(* state c and a tree and gives the state after the corresponding method:  *)
(*   fss      the function states, the one being compiled (_fs) last       *)
(*   es       _es: kind and place of the last prefixed expression          *)
(*   scope    _scope: captured locals and registers at the start of a scope*)
(*   protos   the function prototypes built so far                         *)
(*   consts   the named constants                                          *)
(*   lineinfo whether _OP_LINE instructions are generated                  *)
(*   err      Error was called: the longjmp ends the compilation, so what  *)
(*            is generated after it does not matter                        *)
(* The argument next stands for the token after an expression; ";" is any  *)
(* token that NeedGet does not look at.                                    *)
(***************************************************************************)
EXTENDS FuncState, Syntax

Cur(c) == Last(c.fss)
Fs(c, fs) == [c EXCEPT !.fss[Len(c.fss)] = fs]
Error(c) == [c EXCEPT !.err = TRUE]

Pos(c) == GetCurrentPos(Cur(c))
Top(c) == TopTarget(Cur(c))
Push(c) == Fs(c, PushTarget(Cur(c)))
PushAt(c, n) == Fs(c, PushTargetAt(Cur(c), n))
Pop(c) == Fs(c, PopTarget(Cur(c)))
Snooze(c) == Fs(c, SnoozeOpt(Cur(c)))
Emit(c, op, a0, a1, a2, a3) == Fs(c, AddInstruction(Cur(c), Ins(op, a0, a1, a2, a3)))
Patch(c, pos, v) == Fs(c, SetIntructionParam1(Cur(c), pos, v))
Kind(c, etype, epos) == [c EXCEPT !.es.etype = etype, !.es.epos = epos]

\* Emit with a fresh register as its target.
EmitNew(c, op, a1, a2, a3) == LET n == Push(c) IN Emit(n, op, Top(n), a1, a2, a3)

EmitMove(c, dst, src) == IF dst = src THEN c ELSE Emit(c, "MOVE", dst, src, 0, 0)

LoadLiteral(c, k) ==
  LET fs == Cur(c) IN EmitNew(Fs(c, WithConstant(fs, k)), "LOAD", GetConstant(fs, k), 0, 0)

\* Numbers that do not fit in 32 bits without a sign are literals.
EmitLoadConstInt(c, n) ==
  IF n >= 0 THEN EmitNew(c, "LOADINT", n, 0, 0) ELSE LoadLiteral(c, Num(n))

Emit2ArgsOP(c, op, p3) ==
  LET p2 == Top(c) p1 == Top(Pop(c)) IN EmitNew(Pop(Pop(c)), op, p1, p2, p3)

EmitDerefOp(c, op) ==
  LET val == Top(c) key == Top(Pop(c)) src == Top(Pop(Pop(c)))
  IN EmitNew(Pop(Pop(Pop(c))), op, src, key, val)

MoveIfCurrentTargetIsLocal(c) ==
  IF IsLocal(Cur(c), Top(c)) THEN EmitNew(Pop(c), "MOVE", Top(c), 0, 0) ELSE c

ChooseArithOpByToken(tok) ==
  CASE tok = "+=" -> "ADD" [] tok = "-=" -> "SUB" [] tok = "*=" -> "MUL"

EmitCompoundArith(c, tok, etype, pos) ==
  CASE etype = "LOCAL" ->
         LET p2 == Top(c) p1 == Top(Pop(c))
         IN Emit(PushAt(Pop(Pop(c)), p1), ChooseArithOpByToken(tok), p1, p2, p1, 0)
    [] etype \in {"OBJECT", "BASE"} ->
         LET val == Top(c) key == Top(Pop(c)) src == Top(Pop(Pop(c)))
         IN EmitNew(Pop(Pop(Pop(c))), "COMPARITH", src * 65536 + val, key,
                    CASE tok = "+=" -> 43 [] tok = "-=" -> 45 [] tok = "*=" -> 42)
    [] etype = "OUTER" ->
         LET n == Push(c) tmp == Top(n)
             g == Emit(n, "GETOUTER", tmp, pos, 0, 0)
             a == Emit(g, ChooseArithOpByToken(tok), tmp, Top(c), tmp, 0)
         IN Emit(a, "SETOUTER", tmp, pos, tmp, 0)

NeedGet(c, next) ==
  /\ next \notin {"=", "(", "++"}
  /\ ~c.es.donot_get \/ next \in {".", "["}

\* GetOuterVariable: the index of a captured variable in the function at depth d,
\* or -1, and the function states with the capture recorded on the way.
RECURSIVE GetOuterVariable(_, _, _)
GetOuterVariable(fss, d, name) ==
  LET known == SelectInSeq(fss[d].outervalues, LAMBDA o : o.name = name)
      l == GetLocalVariable(fss[d - 1], name)
      up == GetOuterVariable(fss, d - 1, name)
      Add(f, pos, local) ==
        [pos |-> Len(f[d].outervalues),
         fss |-> [f EXCEPT ![d].outervalues =
                    Append(@, [name |-> name, src |-> pos, local |-> local])]]
  IN CASE known # 0 -> [pos |-> known - 1, fss |-> fss]
       [] known = 0 /\ d = 1 -> [pos |-> -1, fss |-> fss]
       [] known = 0 /\ d > 1 /\ l # -1 ->
            Add([fss EXCEPT ![d - 1] = MarkLocalAsOuter(@, l)], l, TRUE)
       [] OTHER -> IF up.pos = -1 THEN up ELSE Add(up.fss, up.pos, FALSE)

----------------------------------------------------------------------------
(* Scopes and loops.                                                       *)

BeginScope(c) ==
  [c EXCEPT !.scope = [outers |-> Cur(c).outers, stacksize |-> GetStackSize(Cur(c))]]

EndScopeNoClose(c, old) ==
  [Fs(c, SetStackSize(Cur(c), c.scope.stacksize)) EXCEPT !.scope = old]

\* (wrong on purpose) captured variables are not closed at the end of their scope.
EndScopeOpen(c, old) ==
  [Fs(c, SetStackSize(Cur(c), c.scope.stacksize)) EXCEPT !.scope = old]

EndScope(c, old) ==
  LET e == Fs(c, SetStackSize(Cur(c), c.scope.stacksize))
      closed == IF Cur(e).outers # Cur(c).outers
                THEN Emit(e, "CLOSE", 0, c.scope.stacksize, 0, 0) ELSE e
  IN [closed EXCEPT !.scope = old]

\* Before a break or continue: only the scope they stand in is closed.
ResolveOuters(c) ==
  IF CountOuters(Cur(c), c.scope.stacksize) > 0
  THEN Emit(c, "CLOSE", 0, c.scope.stacksize, 0, 0) ELSE c

BeginBreakable(c) ==
  Fs(c, [Cur(c) EXCEPT !.breaktargets = Append(@, 0), !.continuetargets = Append(@, 0)])

\* before is the function state when the block began.
EndBreakable(c, before, continuetrg) ==
  LET fs == Cur(c)
      r == ResolveBreaks(ResolveContinues(fs, Len(fs.continues) - Len(before.continues), continuetrg),
                         Len(fs.breaks) - Len(before.breaks))
  IN Fs(c, [r EXCEPT !.breaktargets = Front(@), !.continuetargets = Front(@)])

\* (wrong on purpose) a loop does not count the try blocks opened in it.
AddTrapOutsideLoops(c, d) == Fs(c, [Cur(c) EXCEPT !.traps = @ + d])

AddTrap(c, d) ==
  LET Inc(s) == IF s = <<>> THEN s ELSE [s EXCEPT ![Len(s)] = @ + d]
  IN Fs(c, [Cur(c) EXCEPT !.traps = @ + d, !.breaktargets = Inc(@), !.continuetargets = Inc(@)])

PopTraps(c, n) == IF n > 0 THEN Emit(c, "POPTRAP", n, 0, 0, 0) ELSE c

AddLineInfos(c) == IF c.lineinfo THEN Emit(c, "LINE", 0, 0, 0, 0) ELSE c

BuildProto(fs) ==
  [ins |-> fs.instructions, literals |-> fs.literals, functions |-> fs.functions,
   outervalues |-> fs.outervalues, params |-> fs.params, defaults |-> fs.defaults,
   varparams |-> fs.varparams, stacksize |-> fs.stacksize,
   pending |-> Len(fs.targets) + Len(fs.breaks) + Len(fs.continues)
               + Len(fs.breaktargets) + Len(fs.continuetargets) + fs.traps]

----------------------------------------------------------------------------
(* Expressions.                                                            *)

RECURSIVE Expression(_, _), PrefixedExpr(_, _, _), Statement(_, _, _)

CommaExpr(c, e) ==
  IF e.t = "comma" THEN Expression(Pop(Expression(c, e.a)), e.b) ELSE Expression(c, e)

BinExp(c, e) ==
  LET o == PrefixedExpr(PrefixedExpr(c, e.a, ";"), e.b, ";")
      op1 == Top(o) op2 == Top(Pop(o))
  IN EmitNew(Pop(Pop(o)), IF e.op \in {"CMP_G", "CMP_L"} THEN "CMP" ELSE e.op, op1, op2,
             IF e.op = "CMP_L" THEN 3 ELSE 0)

LogicalExp(c, e) ==
  LET a == PrefixedExpr(c, e.a, ";")
      n == Push(Pop(a)) trg == Top(n)
      j == Emit(n, e.op, trg, 0, Top(a), 0) jpos == Pos(j)
      b == Snooze(PrefixedExpr(EmitMove(j, trg, Top(a)), e.b, ";"))
      m == Snooze(EmitMove(Pop(b), trg, Top(b)))
  IN Patch(m, jpos, Pos(m) - jpos)

CondExpr(c, e) ==
  LET q == PrefixedExpr(c, e.c, ";")
      z == Emit(Pop(q), "JZ", Top(q), 0, 0, 0) jzpos == Pos(z)
      n == Push(z) trg == Top(n)
      a == Expression(n, e.a)
      ma == EmitMove(Pop(a), trg, Top(a)) endfirstexp == Pos(ma)
      j == Emit(ma, "JMP", 0, 0, 0, 0) jmppos == Pos(j)
      b == Expression(j, e.b)
      mb == EmitMove(Pop(b), trg, Top(b))
  IN Snooze(Patch(Patch(mb, jmppos, Pos(mb) - jmppos), jzpos, endfirstexp - jzpos + 1))

AssignExpr(c, e) ==
  LET l == PrefixedExpr(c, e.l, "=")
      ds == l.es.etype
      r == Expression(l, e.r)
  IN CASE ds = "EXPR" -> Error(l)
       [] ds # "EXPR" /\ e.op = "<-" ->
            IF ds \in {"OBJECT", "BASE"} THEN EmitDerefOp(r, "NEWSLOT") ELSE Push(Error(l))
       [] ds = "LOCAL" /\ e.op = "=" -> Emit(Pop(r), "MOVE", Top(Pop(r)), Top(r), 0, 0)
       [] ds \in {"OBJECT", "BASE"} /\ e.op = "=" -> EmitDerefOp(r, "SET")
       [] ds = "OUTER" /\ e.op = "=" -> EmitNew(Pop(r), "SETOUTER", l.es.epos, Top(r), 0)
       [] OTHER -> EmitCompoundArith(r, e.op, ds, l.es.epos)

Expression(c, e) ==
  LET s == [c EXCEPT !.es = [etype |-> "EXPR", epos |-> -1, donot_get |-> FALSE]]
      r == CASE e.t = "assign" -> AssignExpr(s, e)
             [] e.t = "cond" -> CondExpr(s, e)
             [] e.t = "logic" -> LogicalExp(s, e)
             [] e.t = "bin" -> BinExp(s, e)
             [] OTHER -> PrefixedExpr(s, e, ";")
  IN [r EXCEPT !.es = c.es]

\* After a '.' or a '[': the key is the last target.
Dereference(c, next) ==
  IF c.es.etype = "BASE"
  THEN LET g == Emit2ArgsOP(c, "GET", 0) IN Kind(g, "EXPR", Top(g))
  ELSE Kind(IF NeedGet(c, next) THEN Emit2ArgsOP(c, "GET", 0) ELSE c, "OBJECT", c.es.epos)

PostIncrement(c, e) ==
  LET l == PrefixedExpr(c, e.l, "++")
      t1 == Push(l) t2 == Push(t1) pos == l.es.epos
      g == Emit(t2, "GETOUTER", Top(t2), pos, 0, 0)
      p == Emit(g, "PINCL", Top(t1), Top(t2), 0, e.d)
  IN CASE l.es.etype = "EXPR" -> Error(l)
       [] l.es.etype \in {"OBJECT", "BASE"} -> Emit2ArgsOP(l, "PINC", e.d)
       [] l.es.etype = "LOCAL" -> EmitNew(Pop(l), "PINCL", Top(l), 0, e.d)
       [] OTHER -> Pop(Emit(p, "SETOUTER", Top(t2), pos, Top(t2), 0))

PrefixIncDec(c, e) ==
  LET l == PrefixedExpr([c EXCEPT !.es.donot_get = TRUE], e.l, ";")
      n == Push(l) tmp == Top(n) pos == l.es.epos
      i == Emit(Emit(n, "GETOUTER", tmp, pos, 0, 0), "INCL", tmp, tmp, 0, e.d)
      r == CASE l.es.etype = "EXPR" -> Error(l)
             [] l.es.etype \in {"OBJECT", "BASE"} -> Emit2ArgsOP(l, "INC", e.d)
             [] l.es.etype = "LOCAL" -> Emit(l, "INCL", Top(l), Top(l), 0, e.d)
             [] OTHER -> Emit(i, "SETOUTER", tmp, pos, tmp, 0)
  IN [r EXCEPT !.es = c.es]

DeleteExpr(c, e) ==
  LET l == PrefixedExpr([c EXCEPT !.es.donot_get = TRUE], e.l, ";")
      r == IF l.es.etype \in {"OBJECT", "BASE"} THEN Emit2ArgsOP(l, "DELETE", 0)
           ELSE Push(Error(c))
  IN [r EXCEPT !.es = c.es]

RECURSIVE Arguments(_, _)
Arguments(c, args) ==
  IF args = <<>> THEN c
  ELSE Arguments(MoveIfCurrentTargetIsLocal(Expression(c, Head(args))), Tail(args))

RECURSIVE PopN(_, _)
PopN(c, n) == IF n = 0 THEN c ELSE PopN(Pop(c), n - 1)

FunctionCallArgs(c, args) ==
  LET a == PopN(Arguments(c, args), Len(args))
  IN EmitNew(Pop(Pop(a)), "CALL", Top(Pop(a)), Top(a), Len(args) + 1)

CallExpr(c, e) ==
  LET f == PrefixedExpr(c, e.f, "(")
      This(x) == EmitNew(x, "MOVE", 0, 0, 0)
      key == Top(f) table == Top(Pop(f))
      clo == Push(Pop(Pop(f))) self == Push(clo)
      p == CASE f.es.etype = "OBJECT" ->
                  Emit(self, "PREPCALL", Top(clo), key, table, Top(self))
             [] f.es.etype = "OUTER" -> This(EmitNew(f, "GETOUTER", f.es.epos, 0, 0))
             [] OTHER -> This(f)
  IN FunctionCallArgs(Kind(p, "EXPR", f.es.epos), e.args)

\* Local, captured variable, named constant, or field of this: in this order.
Identifier(c, x, next) ==
  LET pos == GetLocalVariable(Cur(c), x)
      o == GetOuterVariable(c.fss, Len(c.fss), x)
      co == [c EXCEPT !.fss = o.fss]
      g == EmitNew(co, "GETOUTER", o.pos, 0, 0)
      l == LoadLiteral(PushAt(c, 0), Str(x))
  IN CASE pos # -1 -> Kind(PushAt(c, pos), "LOCAL", pos)
       [] pos = -1 /\ o.pos # -1 ->
            IF NeedGet(co, next) THEN Kind(g, "EXPR", Top(g)) ELSE Kind(co, "OUTER", o.pos)
       [] pos = -1 /\ o.pos = -1 /\ x \in DOMAIN c.consts ->
            LET n == EmitLoadConstInt(c, c.consts[x]) IN Kind(n, "EXPR", Top(n))
       [] OTHER -> Kind(IF NeedGet(l, next) THEN Emit2ArgsOP(l, "GET", 0) ELSE l,
                        "OBJECT", c.es.epos)

RECURSIVE ArrayElements(_, _)
ArrayElements(c, es) ==
  IF es = <<>> THEN c
  ELSE LET v == Expression(c, Head(es))
       IN ArrayElements(Emit(Pop(v), "APPENDARRAY", Top(Pop(v)), Top(v), 0, 0), Tail(es))

ArrayExp(c, es) ==
  LET n == EmitNew(c, "NEWOBJ", 0, 0, 1) IN Patch(ArrayElements(n, es), Pos(n), Len(es))

RECURSIVE Members(_, _, _)
Members(c, fields, class) ==
  IF fields = <<>> THEN c
  ELSE LET f == Head(fields)
           k == IF f.k.t = "str" THEN LoadLiteral(c, f.k) ELSE CommaExpr(c, f.k)
           v == Expression(k, f.e)
           r == Pop(Pop(v))
       IN Members(IF class THEN Emit(r, "NEWSLOTA", 0, Top(r), Top(k), Top(v))
                  ELSE Emit(r, "NEWSLOT", NoReg, Top(r), Top(k), Top(v)), Tail(fields), class)

ParseTableOrClass(c, fields, class) ==
  LET m == Members(c, fields, class) IN IF class THEN m ELSE Patch(m, Pos(c), Len(fields))

ClassExp(c, e) ==
  LET b == Expression(c, e.base)
  IN ParseTableOrClass(IF e.base = None THEN EmitNew(c, "NEWOBJ", -1, -1, 2)
                       ELSE EmitNew(Pop(b), "NEWOBJ", Top(b), -1, 2), e.fields, TRUE)

RECURSIVE Defaults(_, _, _)
Defaults(c, es, regs) ==
  IF es = <<>> THEN [c |-> c, regs |-> regs]
  ELSE LET v == Expression(c, Head(es)) IN Defaults(v, Tail(es), Append(regs, Top(v)))

\* Default values are evaluated by the function that creates the closure.
CreateFunction(c, f) ==
  LET d == Defaults(c, f.defaults, <<>>)
      p == PopN(d.c, Len(f.defaults))
      Par(fs, x) == IF x = "..." THEN [AddParameter(fs, "vargv") EXCEPT !.varparams = TRUE]
                    ELSE AddParameter(fs, x)
      child == [FoldLeft(Par, NewFuncState(TRUE), <<"this">> \o f.params) EXCEPT !.defaults = d.regs]
      in == [p EXCEPT !.fss = Append(@, child)]
      x == Expression(in, f.body)
      body == IF f.lambda THEN Emit(Pop(x), "RETURN", 1, Top(x), 0, 0)
              ELSE Statement(in, f.body, FALSE)
      end == Emit(AddLineInfos(body), "RETURN", -1, 0, 0, 0)
      out == [end EXCEPT !.protos = Append(@, BuildProto(SetStackSize(Cur(end), 0))),
                         !.fss = Front(@)]
  IN Fs(out, [Cur(out) EXCEPT !.functions = Append(@, Len(out.protos))])

FunctionExp(c, f) ==
  LET n == CreateFunction(c, f)
  IN EmitNew(n, "CLOSURE", Len(Cur(n).functions) - 1, IF f.lambda THEN 1 ELSE 0, 0)

UnaryOP(c, e) ==
  LET x == PrefixedExpr(c, e.e, ";") IN EmitNew(Pop(x), e.op, Top(x), 0, 0)

Factor(c, e, next) ==
  CASE e.t = "null" -> EmitNew(c, "LOADNULLS", 1, 0, 0)
    [] e.t = "int" -> EmitLoadConstInt(c, e.n)
    [] e.t = "bool" -> EmitNew(c, "LOADBOOL", IF e.b THEN 1 ELSE 0, 0, 0)
    [] e.t = "str" -> LoadLiteral(c, e)
    [] e.t = "id" -> Identifier(c, e.x, next)
    [] e.t = "base" -> LET b == EmitNew(c, "GETBASE", 0, 0, 0) IN Kind(b, "BASE", Top(b))
    [] e.t = "array" -> ArrayExp(c, e.es)
    [] e.t = "table" -> ParseTableOrClass(EmitNew(c, "NEWOBJ", 0, 0, 0), e.fields, FALSE)
    [] e.t = "class" -> ClassExp(c, e)
    [] e.t = "func" -> FunctionExp(c, e)
    [] e.t = "unary" -> UnaryOP(c, e)
    [] e.t = "preinc" -> PrefixIncDec(c, e)
    [] e.t = "delete" -> DeleteExpr(c, e)
    [] OTHER -> CommaExpr(c, e)               \* in parentheses

PrefixedExpr(c, e, next) ==
  CASE e.t = "dot" -> Dereference(LoadLiteral(PrefixedExpr(c, e.e, "."), Str(e.k)), next)
    [] e.t = "root" ->
         Dereference(LoadLiteral(Kind(EmitNew(c, "LOADROOT", 0, 0, 0), "OBJECT", -1), Str(e.k)), next)
    [] e.t = "index" -> Dereference(Expression(PrefixedExpr(c, e.e, "["), e.i), next)
    [] e.t = "postinc" -> PostIncrement(c, e)
    [] e.t = "call" -> CallExpr(c, e)
    [] OTHER -> Factor(Kind(c, "EXPR", c.es.epos), e, next)

----------------------------------------------------------------------------
(* Statements.                                                             *)

RECURSIVE Statements(_, _)
Statements(c, ss) ==
  IF ss = <<>> THEN c ELSE Statements(Statement(c, Head(ss), TRUE), Tail(ss))

LocalDeclStatement(c, s) ==
  LET v == Expression(c, s.e)
      n == Push(Pop(v))
      d == IF s.e = None THEN EmitNew(c, "LOADNULLS", 1, 0, 0) ELSE EmitMove(n, Top(n), Top(v))
  IN Fs(Pop(d), PushLocalVariable(Cur(Pop(d)), s.x))

LocalFunction(c, s) ==
  LET p == Pop(FunctionExp(c, s.f)) IN Fs(p, PushLocalVariable(Cur(p), s.x))

ReturnStatement(c, s) ==
  LET v == CommaExpr(c, s.e)
      t == PopTraps(v, Cur(v).traps)
      r == Fs(t, [PopTarget(Cur(t)) EXCEPT !.returnexp = Pos(c) + 1])
      n == PopTraps(c, Cur(c).traps)
  IN IF s.e = None
     THEN Emit(Fs(n, [Cur(n) EXCEPT !.returnexp = -1]), "RETURN", NoReg, 0, GetStackSize(Cur(n)), 0)
     ELSE Emit(r, "RETURN", 1, Top(v), GetStackSize(Cur(r)), 0)

BreakStatement(c) ==
  LET fs == Cur(c)
      j == Emit(ResolveOuters(PopTraps(c, Last(fs.breaktargets))), "JMP", 0, -1234, 0, 0)
  IN IF fs.breaktargets = <<>> THEN Error(c)
     ELSE Fs(j, [Cur(j) EXCEPT !.breaks = Append(@, Pos(j))])

ContinueStatement(c) ==
  LET fs == Cur(c)
      j == Emit(ResolveOuters(PopTraps(c, Last(fs.continuetargets))), "JMP", 0, -1234, 0, 0)
  IN IF fs.continuetargets = <<>> THEN Error(c)
     ELSE Fs(j, [Cur(j) EXCEPT !.continues = Append(@, Pos(j))])

IfStatement(c, s) ==
  LET q == CommaExpr(c, s.c)
      z == Emit(Pop(q), "JZ", Top(q), 0, 0, 0) jnepos == Pos(z)
      a == EndScope(Statement(BeginScope(z), s.a, TRUE), c.scope) endifblock == Pos(a)
      j == Emit(BeginScope(a), "JMP", 0, 0, 0, 0) jmppos == Pos(j)
      b == EndScope(Statement(j, s.b, TRUE), c.scope)
  IN IF s.b = None THEN Patch(a, jnepos, endifblock - jnepos)
     ELSE Patch(Patch(b, jmppos, Pos(b) - jmppos), jnepos, endifblock - jnepos + 1)

WhileStatement(c, s) ==
  LET jmppos == Pos(c)
      q == CommaExpr(c, s.c)
      z == Emit(Pop(BeginBreakable(q)), "JZ", Top(q), 0, 0, 0) jzpos == Pos(z)
      b == EndScope(Statement(BeginScope(z), s.s, TRUE), c.scope)
      j == Emit(b, "JMP", 0, jmppos - Pos(b) - 1, 0, 0)
  IN EndBreakable(Patch(j, jzpos, Pos(j) - jzpos), Cur(q), jmppos)

DoWhileStatement(c, s) ==
  LET jmptrg == Pos(c)
      b == EndScope(Statement(BeginScope(BeginBreakable(c)), s.s, TRUE), c.scope)
      q == CommaExpr(b, s.c)
      z == Emit(Pop(q), "JZ", Top(q), 1, 0, 0)
  IN EndBreakable(Emit(z, "JMP", 0, jmptrg - Pos(z) - 1, 0, 0), Cur(c), Pos(b))

ForStatement(c, s) ==
  LET b == BeginScope(c)
      i == Snooze(CASE s.i.t = "none" -> b
                    [] s.i.t = "local" -> LocalDeclStatement(b, s.i)
                    [] OTHER -> Pop(CommaExpr(b, s.i)))
      jmppos == Pos(i)
      q == CommaExpr(i, s.c)
      z == Snooze(IF s.c = None THEN i ELSE Emit(Pop(q), "JZ", Top(q), 0, 0, 0))
      jzpos == IF s.c = None THEN -1 ELSE Pos(z)
      n == Snooze(IF s.n = None THEN z ELSE Pop(CommaExpr(z, s.n)))
      exp == SubSeq(Cur(n).instructions, Pos(z) + 2, Pos(n) + 1)
      o == BeginBreakable(Fs(n, PopInstructions(Cur(n), Len(exp))))
      body == Statement(o, s.s, TRUE)
      e == Fs(body, FoldLeft(AddInstruction, Cur(body), exp))
      j == Emit(e, "JMP", 0, jmppos - Pos(e) - 1, 0, 0)
      p == IF jzpos > 0 THEN Patch(j, jzpos, Pos(j) - jzpos) ELSE j
  IN EndBreakable(EndScope(p, c.scope), Cur(n), Pos(body))

ForEachStatement(c, s) ==
  LET v == Expression(BeginScope(c), s.e)
      container == Top(v)
      Var(x, name) == LET l == Fs(x, PushLocalVariable(Cur(x), name))
                      IN Emit(l, "LOADNULLS", GetStackSize(Cur(x)), 1, 0, 0)
      i == Var(Var(Var(v, s.k), s.x), "@ITERATOR@") jmppos == Pos(i)
      indexpos == GetStackSize(Cur(v))
      f == Emit(i, "FOREACH", container, 0, indexpos, 0) fpos == Pos(f)
      p == BeginBreakable(Emit(f, "POSTFOREACH", container, 0, indexpos, 0))
      b == Statement(p, s.s, TRUE)
      j == Emit(b, "JMP", 0, jmppos - Pos(b) - 1, 0, 0)
      k == Patch(Patch(j, fpos, Pos(j) - fpos), fpos + 1, Pos(j) - fpos)
  IN EndScope(Pop(EndBreakable(k, Cur(f), fpos - 1)), c.scope)

\* tonext: the jump of the last condition to the next one, -1 at first.
RECURSIVE Cases(_, _, _, _)
Cases(c, cases, expr, tonext) ==
  IF cases = <<>> THEN IF tonext = -1 THEN c ELSE Patch(c, tonext, Pos(c) - tonext)
  ELSE LET skip == Emit(c, "JMP", 0, 0, 0, 0)
           s == IF tonext = -1 THEN c ELSE Patch(skip, tonext, Pos(skip) - tonext)
           v == Expression(s, Head(cases).e) trg == Top(v)
           z == Emit(Emit(Pop(v), "EQ", trg, trg, expr, 0), "JZ", trg, 0, 0, 0)
           p == IF tonext = -1 THEN z ELSE Patch(z, Pos(skip), Pos(z) - Pos(skip))
           b == EndScope(Statements(BeginScope(p), Head(cases).ss), c.scope)
       IN Cases(b, Tail(cases), expr, Pos(p))

SwitchStatement(c, s) ==
  LET v == CommaExpr(c, s.e)
      o == Fs(v, [Cur(v) EXCEPT !.breaktargets = Append(@, 0)])
      k == Cases(o, s.cases, Top(v), -1)
      d == EndScope(Statements(BeginScope(k), s.default), c.scope)
      e == Pop(d)
      fs == ResolveBreaks(Cur(e), Len(Cur(e).breaks) - Len(Cur(v).breaks))
  IN Fs(e, [fs EXCEPT !.breaktargets = Front(@)])

TryCatchStatement(c, s) ==
  LET t == AddTrap(Emit(c, "PUSHTRAP", 0, 0, 0, 0), 1) trappos == Pos(t)
      b == EndScope(Statement(BeginScope(t), s.s, TRUE), c.scope)
      j == Emit(AddTrap(Emit(b, "POPTRAP", 1, 0, 0, 0), -1), "JMP", 0, 0, 0, 0) jmppos == Pos(j)
      x == BeginScope(Patch(j, trappos, Pos(j) - trappos))
      l == Fs(x, SetIntructionParam0(PushLocalVariable(Cur(x), s.x), trappos, GetStackSize(Cur(x))))
      h == Statement(l, s.h, TRUE)
  IN EndScope(Patch(h, jmppos, Pos(h) - jmppos), c.scope)

FunctionStatement(c, s) ==
  Pop(EmitDerefOp(FunctionExp(LoadLiteral(PushAt(c, 0), Str(s.k)), s.f), "NEWSLOT"))

ClassStatement(c, s) ==
  LET p == PrefixedExpr([c EXCEPT !.es.donot_get = TRUE], s.k, ";")
      r == IF p.es.etype \in {"OBJECT", "BASE"} THEN Pop(EmitDerefOp(ClassExp(p, s.c), "NEWSLOT"))
           ELSE Error(c)
  IN [r EXCEPT !.es = c.es]

Statement(c, s, closeframe) ==
  LET l == AddLineInfos(c)
      b == Statements(BeginScope(l), s.ss)
      v == CommaExpr(l, s.e)
      r == CASE s.t = "none" -> l
             [] s.t = "expr" -> LET x == CommaExpr(l, s.e) IN Fs(x, DiscardTarget(Cur(x)))
             [] s.t = "local" -> LocalDeclStatement(l, s)
             [] s.t = "localfunc" -> LocalFunction(l, s)
             [] s.t = "block" -> IF closeframe THEN EndScope(b, c.scope) ELSE EndScopeNoClose(b, c.scope)
             [] s.t = "if" -> IfStatement(l, s)
             [] s.t = "while" -> WhileStatement(l, s)
             [] s.t = "dowhile" -> DoWhileStatement(l, s)
             [] s.t = "for" -> ForStatement(l, s)
             [] s.t = "foreach" -> ForEachStatement(l, s)
             [] s.t = "switch" -> SwitchStatement(l, s)
             [] s.t = "return" -> ReturnStatement(l, s)
             [] s.t = "break" -> BreakStatement(l)
             [] s.t = "continue" -> ContinueStatement(l)
             [] s.t = "try" -> TryCatchStatement(l, s)
             [] s.t = "throw" -> Emit(Pop(v), "THROW", Top(v), 0, 0, 0)
             [] s.t = "function" -> FunctionStatement(l, s)
             [] s.t = "classstat" -> ClassStatement(l, s)
             [] s.t = "const" -> [l EXCEPT !.consts = [k \in DOMAIN @ \cup {s.k} |->
                                                       IF k = s.k THEN s.e.n ELSE @[k]]]
  IN IF c.err THEN c ELSE Snooze(r)

\* The prototypes of a program, the main function last; none if there was an error.
Compile(prog, lineinfo) ==
  LET main == [AddParameter(AddParameter(NewFuncState(FALSE), "this"), "vargv")
                 EXCEPT !.varparams = TRUE]
      c == Statements([fss |-> <<main>>, protos |-> <<>>, consts |-> <<>>, err |-> FALSE,
                       lineinfo |-> lineinfo, scope |-> [outers |-> 0, stacksize |-> 0],
                       es |-> [etype |-> "EXPR", epos |-> -1, donot_get |-> FALSE]], prog)
      s == Fs(c, SetStackSize(Cur(c), 2))
      e == Emit(AddLineInfos(s), "RETURN", NoReg, 0, 0, 0)
  IN IF c.err THEN <<>> ELSE Append(e.protos, BuildProto(SetStackSize(Cur(e), 0)))
=============================================================================
