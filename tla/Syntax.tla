------------------------------- MODULE Syntax -------------------------------
(***************************************************************************)
(* Programs as trees: what the parser has recognised once it calls the     *)
(* code generator. An expression or statement is a record whose field t    *)
(* says what it is; a member that is absent is None.                       *)
(***************************************************************************)
EXTENDS Integers, Sequences

None == [t |-> "none"]

Null == [t |-> "null"]
Num(n) == [t |-> "int", n |-> n]
Bool(b) == [t |-> "bool", b |-> b]
Str(s) == [t |-> "str", s |-> s]
Id(x) == [t |-> "id", x |-> x]
Root(k) == [t |-> "root", k |-> k]
BaseClass == [t |-> "base"]
Dot(e, k) == [t |-> "dot", e |-> e, k |-> k]
Index(e, i) == [t |-> "index", e |-> e, i |-> i]
Bin(op, a, b) == [t |-> "bin", op |-> op, a |-> a, b |-> b]
Logic(op, a, b) == [t |-> "logic", op |-> op, a |-> a, b |-> b]
Cond(c, a, b) == [t |-> "cond", c |-> c, a |-> a, b |-> b]
Assign(op, l, r) == [t |-> "assign", op |-> op, l |-> l, r |-> r]
Unary(op, e) == [t |-> "unary", op |-> op, e |-> e]
PreInc(l, d) == [t |-> "preinc", l |-> l, d |-> d]
PostInc(l, d) == [t |-> "postinc", l |-> l, d |-> d]
Delete(l) == [t |-> "delete", l |-> l]
Call(f, args) == [t |-> "call", f |-> f, args |-> args]
Comma(a, b) == [t |-> "comma", a |-> a, b |-> b]
Array(es) == [t |-> "array", es |-> es]
Table(fields) == [t |-> "table", fields |-> fields]
Class(base, fields) == [t |-> "class", base |-> base, fields |-> fields]
Field(k, e) == [k |-> k, e |-> e]
\* A lambda has an expression for its body, any other function a statement.
Func(params, defaults, body, lambda) ==
  [t |-> "func", params |-> params, defaults |-> defaults, body |-> body, lambda |-> lambda]

Expr(e) == [t |-> "expr", e |-> e]
Local(x, e) == [t |-> "local", x |-> x, e |-> e]
LocalFunc(x, f) == [t |-> "localfunc", x |-> x, f |-> f]
Block(ss) == [t |-> "block", ss |-> ss]
If(c, a, b) == [t |-> "if", c |-> c, a |-> a, b |-> b]
While(c, s) == [t |-> "while", c |-> c, s |-> s]
DoWhile(s, c) == [t |-> "dowhile", c |-> c, s |-> s]
For(i, c, n, s) == [t |-> "for", i |-> i, c |-> c, n |-> n, s |-> s]
Foreach(k, x, e, s) == [t |-> "foreach", k |-> k, x |-> x, e |-> e, s |-> s]
Switch(e, cases, default) == [t |-> "switch", e |-> e, cases |-> cases, default |-> default]
Case(e, ss) == [e |-> e, ss |-> ss]
Return(e) == [t |-> "return", e |-> e]
Break == [t |-> "break"]
Continue == [t |-> "continue"]
Try(s, x, h) == [t |-> "try", s |-> s, x |-> x, h |-> h]
Throw(e) == [t |-> "throw", e |-> e]
Function(k, f) == [t |-> "function", k |-> k, f |-> f]
ClassStat(k, c) == [t |-> "classstat", k |-> k, c |-> c]
Const(k, e) == [t |-> "const", k |-> k, e |-> e]
=============================================================================
