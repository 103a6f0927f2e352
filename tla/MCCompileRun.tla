---------------------------- MODULE MCCompileRun ----------------------------
(* Two families of programs: control structures nested around every kind   *)
(* of statement, and every kind of expression in every place a value can   *)
(* go.                                                                     *)
EXTENDS CompileRun, Compiler, Meaning

A == Id("a")
Say(e) == Expr(Call(Id("out"), <<e>>))
Inc(x) == Expr(PostInc(Id(x), 1))
Less(a, b) == Bin("CMP_L", a, b)
Lambda(params, e) == Func(params, <<>>, e, TRUE)
Fun(params, ss) == Func(params, <<>>, Block(ss), FALSE)

\* Statements that leave, change or capture.
Leaves ==
  {<<Inc("a")>>, <<Break>>, <<Continue>>, <<Return(A)>>, <<Throw(Num(7))>>,
   <<Local("b", A), Expr(Assign("=", Id("f"), Lambda(<<>>, PostInc(Id("b"), 1))))>>}

\* Structures around a body; d tells the variables of the nesting levels apart.
Around(body, d) ==
  LET i == IF d = 1 THEN "i" ELSE "j"
  IN {If(Less(A, Num(2)), Block(body), Say(Num(9))),
      Block(<<Local(i, Num(0)), While(Less(PostInc(Id(i), 1), Num(2)), Block(body))>>),
      Block(<<Local(i, Num(0)), DoWhile(Block(body), Less(PreInc(Id(i), 1), Num(2)))>>),
      For(Local(i, Num(0)), Less(Id(i), Num(2)), PostInc(Id(i), 1), Block(body)),
      Foreach(i, "v", Array(<<Num(5), Num(6)>>), Block(<<Say(Id("v"))>> \o body)),
      Try(Block(body), "x", Block(<<Say(Id("x"))>>)),
      Switch(A, <<Case(Num(0), body), Case(Num(1), <<Say(Num(8)), Break>>)>>, <<Say(Num(3))>>),
      Block(<<LocalFunc("g", Fun(<<"p">>, body \o <<Say(Id("p"))>>)), Say(Call(Id("g"), <<Num(4)>>))>>)}

Wrapped(s) ==
  <<Local("a", Num(0)), Local("f", Null)>> \o <<s>> \o
  <<Say(A), If(Id("f"), Block(<<Say(Call(Id("f"), <<>>)), Say(Call(Id("f"), <<>>))>>), None)>>

Nested == {Wrapped(s) : s \in UNION {Around(<<t, Inc("a")>>, 1) :
                              t \in UNION {Around(l, 2) : l \in Leaves}}}

\* Expressions over the locals a and c (which is captured), the table t and the field g of this.
T(k) == Dot(Id("t"), k)
Simple ==
  {Num(2), Num(-1), Null, Bool(TRUE), A, Id("c"), Id("g"), Root("g"), Id("K"), T("k"), T("none"),
   Index(Id("t"), Str("k")), PostInc(A, 1), PreInc(A, -1), PostInc(Id("c"), 1), PreInc(Id("c"), 1),
   PostInc(T("k"), 1), PreInc(T("k"), 1), PostInc(Id("g"), 1), Assign("=", A, Num(3)),
   Assign("=", Id("c"), Num(3)), Assign("=", T("k"), Num(3)), Assign("=", Id("g"), Num(3)),
   Assign("+=", T("k"), Num(3)), Assign("*=", Id("g"), Num(3)), Assign("<-", T("n"), Num(3)),
   Delete(T("k")), Call(Id("id"), <<Num(4)>>), Call(T("m"), <<Num(1)>>), Call(T("m"), <<>>),
   Call(Id("va"), <<Num(1), Num(2), Num(3)>>), Call(Lambda(<<"x">>, Bin("ADD", Id("x"), Id("c"))), <<Num(1)>>),
   Dot(Call(Id("D"), <<Num(6)>>), "v"), Call(Dot(Call(Id("D"), <<Num(6)>>), "get"), <<>>),
   Bin("INSTANCEOF", Call(Id("D"), <<Num(1)>>), Id("B")), Bin("EXISTS", Str("k"), Id("t"))}

Around1(e) ==
  {e, Bin("ADD", e, Num(1)), Bin("SUB", Num(1), e), Bin("EQ", e, Num(2)), Bin("NE", Num(2), e),
   Less(e, Num(3)), Bin("CMP_G", e, Num(3)), Unary("NOT", e), Unary("NEG", e), Logic("AND", e, Num(5)),
   Logic("OR", e, Num(5)), Logic("AND", Num(5), e), Cond(e, Num(5), Num(6)), Cond(A, e, Num(6)),
   Cond(A, Num(6), e), Index(Array(<<Num(0), e, Bool(FALSE)>>), Num(1)),
   Dot(Table(<<Field(Str("k"), e), Field(Str("l"), Num(1))>>), "k"), Call(Id("id"), <<e>>), Comma(e, Num(8)),
   Call(Lambda(<<"x">>, Id("x")), <<e>>), Call(T("m"), <<e>>)}

\* Where the value goes.
Uses(e) ==
  {<<Say(e)>>, <<Local("b", e), Say(Id("b"))>>, <<Expr(Assign("=", A, e))>>,
   <<Expr(Assign("=", Id("c"), e)), Say(Id("c"))>>, <<Expr(Assign("=", T("k"), e))>>,
   <<If(e, Say(Num(1)), Say(Num(0)))>>, <<Say(Call(Fun(<<>>, <<Return(e)>>), <<>>))>>,
   <<Try(Throw(e), "x", Say(Id("x")))>>, <<Switch(e, <<Case(Num(2), <<Say(Num(1))>>)>>, <<>>)>>}

\* function id(x) return x; t = {k = 2, m = function(x, y = c) ...}; class D extends B
Prelude ==
  <<Const("K", Num(9)), Local("a", Num(1)), Local("c", Num(2)),
    Function("id", Fun(<<"x">>, <<Return(Id("x"))>>)),
    Function("va", Fun(<<"x", "...">>, <<Return(Call(Id("id"), <<Index(Id("vargv"), Num(1))>>))>>)),
    Expr(Assign("<-", Root("g"), Num(4))),
    Local("t", Table(<<Field(Str("k"), Num(2)),
      Field(Str("m"), Func(<<"x", "y">>, <<Id("c")>>, Block(<<Return(Bin("ADD", Dot(Id("this"), "k"), Id("y")))>>), FALSE))>>)),
    ClassStat(Id("B"), Class(None, <<Field(Str("v"), Num(1)),
      Field(Str("constructor"), Fun(<<"x">>, <<Expr(Assign("=", Id("v"), Id("x")))>>)),
      Field(Str("get"), Fun(<<>>, <<Return(Id("v"))>>))>>)),
    ClassStat(Id("D"), Class(Id("B"), <<
      Field(Str("get"), Fun(<<>>, <<Return(Bin("ADD", Call(Dot(BaseClass, "get"), <<>>), Num(1)))>>))>>)),
    Local("see", Lambda(<<>>, Id("c")))>>

Observed == <<Say(A), Say(Id("c")), Say(Id("g")), Say(Call(Id("see"), <<>>)), Say(T("k"))>>

InUse ==
  {Prelude \o u \o Observed :
     u \in UNION {Uses(e) : e \in Simple} \cup {<<Say(e)>> : e \in UNION {Around1(x) : x \in Simple}}}

MCPrograms == Nested \cup InUse
=============================================================================
