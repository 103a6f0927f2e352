------------------------------ MODULE Objects ------------------------------
(***************************************************************************)
(* Tables with delegates, classes and instances, the metamethods they      *)
(* define, and the functions of the host interface that reach them through *)
(* the value stack.                                                        *)
(*                                                                         *)
(* m is the virtual machine: the objects by number, the value stack of the *)
(* calling host function, _lasterror, and how many metamethods the last    *)
(* call entered. _lasterror is "none" (null), "raised" or "thrown" by the  *)
(* call itself, or "stale": left by an earlier call.                       *)
(*                                                                         *)
(* A slot holds an integer or a closure; what a closure does when it runs  *)
(* as a metamethod is its outcome: it returns a value, throws an error, or *)
(* throws null, which is how _get and _set say "not found".                *)
(***************************************************************************)
EXTENDS Integers, Sequences, FiniteSets

CONSTANTS Settings,         \* what a behaviour starts from: the keys it uses, what closures do ("int", "bool",
                            \* "throw" or "decline"), and the objects there are, the root table first
          MaxObjects,       \* bound on the objects created
          MaxHandles,       \* bound on the member handles taken
          MaxCalls          \* bound on the calls

VARIABLES keys, does, m, ret, handles, calls
vars == <<keys, does, m, ret, handles, calls>>

Null == [t |-> "null"]
Num(n) == [t |-> "integer", n |-> n]
Bool(b) == [t |-> "bool", b |-> b]
Str == [t |-> "string"]
Closure(d, b) == [t |-> "closure", does |-> d, base |-> b]
Ref(t, i) == [t |-> t, id |-> i]
Absent == [t |-> "absent"]
NullKey == "null"

MetaMethods == {"_get", "_set", "_newslot", "_delslot", "_cloned", "_cmp", "_eq", "_tostring",
                "_typeof", "_add", "_unm", "_newmember"}

EmptyFcn == [k \in {} |-> Null]
With(f, k, v) == [x \in DOMAIN f \cup {k} |-> IF x = k THEN v ELSE f[x]]
Without(f, k) == [x \in DOMAIN f \ {k} |-> f[x]]
At(f, k) == IF k \in DOMAIN f THEN f[k] ELSE Absent

Obj(x, o) == x.heap[o.id]
Put(x, o, v) == [x EXCEPT !.heap[o.id] = v]
New(x, v) == [x EXCEPT !.heap = Append(@, v)]
Push(x, v) == [x EXCEPT !.stack = Append(@, v)]
PushAll(x, args) == [x EXCEPT !.stack = @ \o args]
Pop(x, n) == [x EXCEPT !.stack = SubSeq(@, 1, Len(@) - n)]
Raise(x) == [x EXCEPT !.err = "raised"]

\* What an operation gives: the machine after it, whether it succeeded, and a value.
R(x, ok, v) == [m |-> x, ok |-> ok, v |-> v]
Fail(x) == R(Raise(x), FALSE, Null)

----------------------------------------------------------------------------
(* Classes and instances.                                                  *)

NewTable == [t |-> "table", slots |-> EmptyFcn, delegate |-> 0]

\* (wrong on purpose) the fields of the base are not copied.
NewClassWithoutFields(x, b) ==
  IF b = 0
  THEN [t |-> "class", base |-> 0, members |-> EmptyFcn, defaults |-> <<>>, methods |-> <<>>, meta |-> EmptyFcn,
        attrs |-> Null, locked |-> FALSE, ctor |-> -1, udsize |-> 0, typetag |-> 0]
  ELSE [x.heap[b] EXCEPT !.base = b, !.locked = FALSE, !.defaults = <<>>,
                         !.members = [k \in {l \in DOMAIN @ : ~@[l].field} |-> @[k]]]

\* A derived class starts as a copy of its base.
NewClass(x, b) ==
  IF b = 0
  THEN [t |-> "class", base |-> 0, members |-> EmptyFcn, defaults |-> <<>>, methods |-> <<>>, meta |-> EmptyFcn,
        attrs |-> Null, locked |-> FALSE, ctor |-> -1, udsize |-> 0, typetag |-> 0]
  ELSE [x.heap[b] EXCEPT !.base = b, !.attrs = Null, !.locked = FALSE, !.typetag = 0]

Member(v) == [val |-> v, attrs |-> Null]

ClassGet(c, key) ==
  LET i == At(c.members, key)
  IN IF i = Absent THEN Absent
     ELSE IF i.field THEN c.defaults[i.idx].val ELSE c.methods[i.idx].val

\* SQClass::NewSlot: the class with the slot, or Absent if it is locked. A value that
\* belongs to the class itself is a method; a method of a derived class remembers the base.
ClassNewSlot(c, key, val, static) ==
  LET old == At(c.members, key)
      own == val.t = "closure" \/ static
      method == IF c.base # 0 /\ val.t = "closure" THEN [val EXCEPT !.base = c.base] ELSE val
      n == Len(c.methods) + 1
  IN CASE c.locked /\ ~own -> Absent
       [] ~(c.locked /\ ~own) /\ old # Absent /\ old.field -> [c EXCEPT !.defaults[old.idx].val = val]
       [] own /\ (old = Absent \/ ~old.field) ->
            IF val.t = "closure" /\ key \in MetaMethods THEN [c EXCEPT !.meta = With(@, key, val)]
            ELSE IF old # Absent THEN [c EXCEPT !.methods[old.idx].val = method]
            ELSE [c EXCEPT !.members = With(@, key, [field |-> FALSE, idx |-> n]),
                           !.methods = Append(@, Member(method)),
                           !.ctor = IF key = "constructor" THEN n ELSE @]
       [] OTHER -> [c EXCEPT !.members = With(@, key, [field |-> TRUE, idx |-> Len(c.defaults) + 1]),
                             !.defaults = Append(@, Member(val))]

ClassesOf(x) == {i \in DOMAIN x.heap : x.heap[i].t = "class"}
TablesOf(x) == {i \in DOMAIN x.heap : x.heap[i].t = "table"}

\* A class and the bases that follow from it.
Ancestors(x, c) ==
  LET up[i \in ClassesOf(x)] == {i} \cup IF x.heap[i].base = 0 THEN {} ELSE up[x.heap[i].base]
  IN up[c]

\* (wrong on purpose) the bases stay open.
LockOne(x, c) == [x EXCEPT !.heap[c].locked = TRUE]

Lock(x, c) ==
  LET up == Ancestors(x, c)
  IN [x EXCEPT !.heap = [i \in DOMAIN @ |-> IF i \in up THEN [@[i] EXCEPT !.locked = TRUE] ELSE @[i]]]

CreateInstance(x, c) ==
  LET y == IF x.heap[c].locked THEN x ELSE Lock(x, c)
  IN New(y, [t |-> "instance", class |-> c, values |-> [i \in DOMAIN y.heap[c].defaults |-> y.heap[c].defaults[i].val],
             ud |-> y.heap[c].udsize, up |-> 0])

InstanceOf(x, i, c) == c \in Ancestors(x, x.heap[i].class)

\* (wrong on purpose) a field is read from the class.
InstanceGetDefault(x, o, key) == ClassGet(x.heap[o.class], key)

InstanceGet(x, o, key) ==
  LET c == x.heap[o.class]
      i == At(c.members, key)
  IN IF i = Absent THEN Absent ELSE IF i.field THEN o.values[i.idx] ELSE c.methods[i.idx].val

\* The instance with the field set, or Absent: methods cannot be assigned.
InstanceSet(x, o, key, val) ==
  LET i == At(x.heap[o.class].members, key)
  IN IF i # Absent /\ i.field THEN [o EXCEPT !.values[i.idx] = val] ELSE Absent

----------------------------------------------------------------------------
(* Metamethods.                                                            *)

HasDelegate(x, o) == o.t = "instance" \/ (o.t = "table" /\ Obj(x, o).delegate # 0)

\* A table finds them in its delegate, whatever is stored there; an instance in its class.
GetMetaMethod(x, o, mm) ==
  CASE o.t = "table" -> IF Obj(x, o).delegate = 0 THEN Absent ELSE At(x.heap[Obj(x, o).delegate].slots, mm)
    [] o.t = "instance" -> At(x.heap[Obj(x, o).class].meta, mm)
    [] OTHER -> Absent

\* Call of what stands for a metamethod. A value that cannot be called fails without an error.
Call(x, clo) ==
  LET y == [x EXCEPT !.entered = @ + 1]
  IN CASE clo.t # "closure" -> R(x, FALSE, Null)
       [] clo.t = "closure" /\ clo.does = "int" -> R(y, TRUE, Num(1))
       [] clo.t = "closure" /\ clo.does = "bool" -> R(y, TRUE, Bool(TRUE))
       [] clo.t = "closure" /\ clo.does = "throw" -> R([y EXCEPT !.err = "thrown"], FALSE, Null)
       [] clo.t = "closure" /\ clo.does = "decline" -> R([y EXCEPT !.err = "none"], FALSE, Null)

\* (wrong on purpose) the arguments stay when the call fails.
CallMetaMethodLeaves(x, clo, args) ==
  LET r == Call(PushAll(x, args), clo) IN [r EXCEPT !.m = IF r.ok THEN Pop(@, Len(args)) ELSE @]

CallMetaMethod(x, clo, args) ==
  LET r == Call(PushAll(x, args), clo) IN [r EXCEPT !.m = Pop(@, Len(args))]

----------------------------------------------------------------------------
(* Get and Set, with delegation and the fall back to the root table.       *)

DefaultDelegate(t) ==
  CASE t \in {"table", "string"} -> {"len", "tostring"}
    [] t \in {"class", "instance", "integer", "closure", "bool"} -> {"tostring"}
    [] OTHER -> {}

Own(x, self, key) ==
  CASE self.t = "table" -> At(Obj(x, self).slots, key)
    [] self.t = "instance" -> InstanceGet(x, Obj(x, self), key)
    [] self.t = "class" -> ClassGet(Obj(x, self), key)
    [] OTHER -> Absent

\* g is what Get gives for the delegate of a table that has one.
FallBackGet(x, self, key, g) ==
  LET d == Obj(x, self).delegate
      y == IF self.t = "table" THEN g.m ELSE x
      mm == GetMetaMethod(y, self, "_get")
      c == CallMetaMethod(y, mm, <<self, key>>)
  IN CASE self.t \notin {"table", "instance"} -> [r |-> R(x, FALSE, Null), fb |-> "no match"]
       [] self.t = "table" /\ d = 0 -> [r |-> R(x, FALSE, Null), fb |-> "no match"]
       [] self.t = "table" /\ d # 0 /\ g.ok -> [r |-> g, fb |-> "ok"]
       [] OTHER ->
            IF mm = Absent THEN [r |-> R(y, FALSE, Null), fb |-> "no match"]
            ELSE [r |-> c, fb |-> CASE c.ok -> "ok"
                                    [] ~c.ok /\ c.m.err # "none" -> "error"
                                    [] OTHER -> "no match"]

GetFrom(x, self, key, raw, root, g) ==
  LET own == Own(x, self, key)
      f == FallBackGet(x, self, key, g)
      y == IF raw THEN x ELSE f.r.m
      atroot == At(y.heap[1].slots, key)
  IN CASE own # Absent -> R(x, TRUE, own)
       [] own = Absent /\ ~raw /\ f.fb = "ok" -> f.r
       [] own = Absent /\ ~raw /\ f.fb = "error" -> f.r
       [] OTHER ->
            IF ~raw /\ key \in DefaultDelegate(self.t) THEN R(y, TRUE, Str)
            ELSE IF root /\ atroot # Absent THEN R(y, TRUE, atroot)
            ELSE Fail(y)

\* Get calls itself for the delegate of a table.
Get(x, self, key, raw, root) ==
  LET at[i \in TablesOf(x)] == GetFrom(x, Ref("table", i), key, FALSE, FALSE, at[x.heap[i].delegate])
  IN GetFrom(x, self, key, raw, root, at[Obj(x, self).delegate])

SetOwn(x, self, key, val) ==
  LET o == Obj(x, self)
  IN CASE self.t = "table" -> IF key \in DOMAIN o.slots THEN Put(x, self, [o EXCEPT !.slots[key] = val]) ELSE Absent
       [] self.t = "instance" -> LET i == InstanceSet(x, o, key, val)
                                 IN IF i = Absent THEN Absent ELSE Put(x, self, i)

\* s is what Set gives for the delegate of a table that has one. A _set that declines leaves
\* its three arguments on the stack.
FallBackSet(x, self, key, val, s) ==
  LET d == Obj(x, self).delegate
      y == IF self.t = "table" /\ d # 0 THEN s.m ELSE x
      mm == GetMetaMethod(y, self, "_set")
      c == Call(Push(Push(Push(y, self), key), val), mm)
  IN CASE self.t = "table" /\ d # 0 /\ s.ok -> [r |-> s, fb |-> "ok"]
       [] ~(self.t = "table" /\ d # 0 /\ s.ok) /\ mm = Absent -> [r |-> R(y, FALSE, Null), fb |-> "no match"]
       [] OTHER ->
            CASE c.ok -> [r |-> [c EXCEPT !.m = Pop(@, 3)], fb |-> "ok"]
              [] ~c.ok /\ c.m.err # "none" -> [r |-> [c EXCEPT !.m = Pop(@, 3)], fb |-> "error"]
              [] OTHER -> [r |-> c, fb |-> "no match"]

SetFrom(x, self, key, val, root, s) ==
  LET own == SetOwn(x, self, key, val)
      f == FallBackSet(x, self, key, val, s)
      rt == SetOwn(f.r.m, Ref("table", 1), key, val)
  IN CASE self.t \notin {"table", "instance"} -> Fail(x)
       [] self.t \in {"table", "instance"} /\ own # Absent -> R(own, TRUE, Null)
       [] OTHER ->
            CASE f.fb = "ok" -> R(f.r.m, TRUE, Null)
              [] f.fb = "error" -> f.r
              [] OTHER -> IF root /\ rt # Absent THEN R(rt, TRUE, Null) ELSE Fail(f.r.m)

\* Set calls itself for the delegate of a table.
Set(x, self, key, val, root) ==
  LET at[i \in TablesOf(x)] == SetFrom(x, Ref("table", i), key, val, FALSE, at[x.heap[i].delegate])
  IN SetFrom(x, self, key, val, root, at[Obj(x, self).delegate])

----------------------------------------------------------------------------
(* The other operations of the machine.                                    *)

NewSlot(x, self, key, val, static) ==
  LET o == Obj(x, self)
      mm == GetMetaMethod(x, self, "_newslot")
      c == CallMetaMethod(x, mm, <<self, key, val>>)
      cl == ClassNewSlot(o, key, val, static)
  IN CASE key = NullKey -> Fail(x)
       [] key # NullKey /\ self.t = "table" ->
            IF key \notin DOMAIN o.slots /\ mm # Absent THEN c
            ELSE R(Put(x, self, [o EXCEPT !.slots = With(@, key, val)]), TRUE, Null)
       [] key # NullKey /\ self.t = "instance" -> IF mm # Absent THEN c ELSE Fail(x)
       [] key # NullKey /\ self.t = "class" -> IF cl = Absent THEN Fail(x) ELSE R(Put(x, self, cl), TRUE, Null)
       [] OTHER -> Fail(x)

SetAttributes(c, key, val) ==
  LET i == At(c.members, key)
  IN IF i = Absent THEN c
     ELSE IF i.field THEN [c EXCEPT !.defaults[i.idx].attrs = val] ELSE [c EXCEPT !.methods[i.idx].attrs = val]

GetAttributes(c, key) ==
  LET i == At(c.members, key)
  IN IF i = Absent THEN Absent ELSE IF i.field THEN c.defaults[i.idx].attrs ELSE c.methods[i.idx].attrs

NewSlotA(x, self, key, val, attrs, static, raw) ==
  LET mm == At(Obj(x, self).meta, "_newmember")
      n == NewSlot(x, self, key, val, static)
  IN IF self.t # "class" THEN Fail(x)
     ELSE IF ~raw /\ mm # Absent THEN CallMetaMethod(x, mm, <<self, key, val, attrs, Bool(static)>>)
     ELSE IF n.ok /\ attrs # Null THEN [n EXCEPT !.m = Put(@, self, SetAttributes(Obj(@, self), key, attrs))]
     ELSE n

DeleteSlot(x, self, key) ==
  LET o == Obj(x, self)
      mm == GetMetaMethod(x, self, "_delslot")
  IN IF mm # Absent THEN CallMetaMethod(x, mm, <<self, key>>)
     ELSE IF self.t = "table" /\ key \in DOMAIN o.slots
     THEN R(Put(x, self, [o EXCEPT !.slots = Without(@, key)]), TRUE, o.slots[key])
     ELSE Fail(x)

\* The copy of a table keeps its delegate; _cloned runs on the copy.
Clone(x, self) ==
  LET n == New(x, Obj(x, self))
      copy == Ref(self.t, Len(n.heap))
      mm == GetMetaMethod(n, copy, "_cloned")
      c == CallMetaMethod(n, mm, <<copy, self>>)
  IN IF self.t \notin {"table", "instance"} THEN Fail(x)
     ELSE IF mm = Absent THEN R(n, TRUE, copy)
     ELSE [c EXCEPT !.v = copy]

\* IsEqual: _eq decides between different objects of one type; the result is what
\* IsFalse says of the value it returns.
IsEqual(x, a, b) ==
  LET mm == GetMetaMethod(x, a, "_eq")
      c == CallMetaMethod(x, mm, <<a, b>>)
  IN CASE a.t # b.t -> R(x, TRUE, Bool(FALSE))
       [] a.t = b.t /\ (a = b \/ mm = Absent) -> R(x, TRUE, Bool(a = b))
       [] OTHER -> CASE ~c.ok -> R(c.m, TRUE, Bool(FALSE))
                     [] c.ok /\ c.v.t # "bool" -> Fail(c.m)
                     [] OTHER -> R(c.m, TRUE, Bool(~c.v.b))

\* ObjCmp: without _cmp, objects are ordered by their addresses.
ObjCmp(x, a, b) ==
  LET mm == GetMetaMethod(x, a, "_cmp")
      c == CallMetaMethod(x, mm, <<a, b>>)
  IN CASE a = b -> R(x, TRUE, Num(0))
       [] a # b /\ a.t = b.t ->
            IF mm # Absent THEN IF c.ok /\ c.v.t # "integer" THEN Fail(c.m) ELSE c
            ELSE R(x, TRUE, Num(IF a.t \in {"table", "instance", "class"} /\ a.id > b.id THEN 1 ELSE -1))
       [] a.t # b.t /\ Null \in {a, b} -> R(x, TRUE, Num(IF a = Null THEN -1 ELSE 1))
       [] OTHER -> Fail(x)

\* ToString: a _tostring that gives no string is ignored.
ToStr(x, o) ==
  LET mm == GetMetaMethod(x, o, "_tostring")
      c == CallMetaMethod(x, mm, <<o>>)
  IN IF mm = Absent THEN R(x, TRUE, Str) ELSE IF c.ok THEN R(c.m, TRUE, Str) ELSE c

TypeOf(x, o) ==
  LET mm == GetMetaMethod(x, o, "_typeof") IN IF mm = Absent THEN R(x, TRUE, Str) ELSE CallMetaMethod(x, mm, <<o>>)

ArithMetaMethod(x, a, b) ==
  LET mm == GetMetaMethod(x, a, "_add") IN IF mm = Absent THEN Fail(x) ELSE CallMetaMethod(x, mm, <<a, b>>)

NEG_OP(x, o) ==
  LET mm == GetMetaMethod(x, o, "_unm") IN IF mm = Absent THEN Fail(x) ELSE CallMetaMethod(x, mm, <<o>>)

\* SetDelegate: Absent if d is o or already delegates to it.
Delegates(x, d) ==
  LET up[i \in TablesOf(x)] == {i} \cup IF x.heap[i].delegate = 0 THEN {} ELSE up[x.heap[i].delegate]
  IN IF d = 0 THEN {} ELSE up[d]

\* (wrong on purpose) only the object itself is refused.
SetDelegateNearest(x, o, d) ==
  IF o.id = d THEN Absent ELSE Put(x, o, [Obj(x, o) EXCEPT !.delegate = d])

SetDelegate(x, o, d) ==
  IF o.id \in Delegates(x, d) THEN Absent ELSE Put(x, o, [Obj(x, o) EXCEPT !.delegate = d])
----------------------------------------------------------------------------
(* What objects are, and the heaps a behaviour may start from.             *)

Outcomes == {"int", "bool", "throw", "decline"}
IsSeq(s) == Len(s) \in Nat /\ s = [i \in 1..Len(s) |-> s[i]]

IsValue(v) == v.t # "absent" /\ (v.t = "closure" => v.does \in Outcomes)
IsMembers(s) == IsSeq(s) /\ \A i \in 1..Len(s) : DOMAIN s[i] = {"val", "attrs"} /\ IsValue(s[i].val)

IsTable(o) ==
  /\ o.t = "table" /\ DOMAIN o = {"t", "slots", "delegate"}
  /\ \A k \in DOMAIN o.slots : IsValue(o.slots[k])

\* The members of a class are different places among its fields and its methods; its
\* metamethods are closures.
IsClass(o) ==
  /\ o.t = "class"
  /\ DOMAIN o = {"t", "base", "members", "defaults", "methods", "meta", "attrs", "locked", "ctor", "udsize", "typetag"}
  /\ IsMembers(o.defaults) /\ IsMembers(o.methods)
  /\ \A k \in DOMAIN o.members :
       /\ o.members[k] \in [field : BOOLEAN, idx : Nat \ {0}]
       /\ o.members[k].idx <= Len(IF o.members[k].field THEN o.defaults ELSE o.methods)
       /\ \A l \in DOMAIN o.members : o.members[k] = o.members[l] => k = l
  /\ \A k \in DOMAIN o.meta : IsValue(o.meta[k]) /\ o.meta[k].t = "closure"
  /\ o.locked \in BOOLEAN
  /\ o.ctor \in Int /\ o.ctor <= Len(o.methods)

IsInstance(o) == o.t = "instance" /\ DOMAIN o = {"t", "class", "values", "ud", "up"} /\ IsSeq(o.values)

IsObject(o) == IsTable(o) \/ IsClass(o) \/ IsInstance(o)

\* Objects refer to objects, a class to one made before it, and delegates come to an end.
Linked(h) ==
  /\ IsSeq(h) /\ h # <<>> /\ h[1].t = "table"
  /\ \A i \in 1..Len(h) :
       /\ IsObject(h[i])
       /\ h[i].t = "table" => h[i].delegate \in {0} \cup {j \in 1..Len(h) : h[j].t = "table"}
       /\ h[i].t = "class" => h[i].base \in {0} \cup {j \in 1..Len(h) : j < i /\ h[j].t = "class"}
       /\ h[i].t = "instance" => h[i].class \in {j \in 1..Len(h) : h[j].t = "class"}
  /\ \A S \in SUBSET {j \in 1..Len(h) : h[j].t = "table"} : S # {} => \E i \in S : h[i].delegate \notin S

\* An instance is laid out as its class is, which is locked; and so is the base of a locked class.
Fits(h) ==
  \A i \in 1..Len(h) :
    /\ h[i].t = "instance" => /\ Len(h[i].values) = Len(h[h[i].class].defaults)
                              /\ h[i].ud = h[h[i].class].udsize
                              /\ h[h[i].class].locked
    /\ h[i].t = "class" /\ h[i].locked /\ h[i].base # 0 => h[h[i].base].locked

ASSUME SettingsAssumption == \A s \in Settings : s.does \in Outcomes /\ Linked(s.heap) /\ Fits(s.heap)

----------------------------------------------------------------------------
(* The host interface. A host function pushes its arguments, the object    *)
(* first, and calls; afterwards it settles the stack (sq_settop).          *)

Objects == {Ref(m.heap[i].t, i) : i \in DOMAIN m.heap}
Of(types) == {o \in Objects : o.t \in types}
Values == {Num(1), Closure(does, 0)}
Keys == keys \cup {NullKey}
Room == Len(m.heap) < MaxObjects

Host(args) == [m EXCEPT !.stack = args, !.entered = 0, !.err = IF @ = "none" THEN @ ELSE "stale"]

\* What is kept of a call: whether it set _lasterror, and how many values more than the
\* caller may expect it left on the stack.
Return(op, x, ok, expected) ==
  /\ calls < MaxCalls
  /\ calls' = calls + 1
  /\ m' = [x EXCEPT !.stack = <<>>, !.entered = 0, !.err = IF @ = "none" THEN @ ELSE "raised"]
  /\ ret' = [ok |-> ok, fresh |-> x.err # "stale", extra |-> Len(x.stack) - expected,
             set |-> op \in {"set", "scriptset"}]

Init ==
  /\ \E s \in Settings : /\ keys = s.keys /\ does = s.does
                          /\ m = [heap |-> s.heap, stack |-> <<>>, err |-> "none", entered |-> 0]
  /\ ret = [ok |-> TRUE, fresh |-> TRUE, extra |-> 0, set |-> FALSE]
  /\ handles = {}
  /\ calls = 0

sq_newtable ==
  /\ Room
  /\ LET n == New(Host(<<>>), NewTable) IN Return("newtable", Push(n, Ref("table", Len(n.heap))), TRUE, 1)
  /\ UNCHANGED <<keys, does, handles>>

sq_newclass ==
  /\ Room
  /\ \E b \in {0} \cup {o.id : o \in Of({"class"})} :
       LET x == Host(IF b = 0 THEN <<>> ELSE <<Ref("class", b)>>)
           n == New(x, NewClass(x, b))
       IN Return("newclass", Push(Pop(n, Len(x.stack)), Ref("class", Len(n.heap))), TRUE, 1)
  /\ UNCHANGED <<keys, does, handles>>

sq_createinstance ==
  /\ Room
  /\ \E c \in Of({"class"}) :
       LET n == CreateInstance(Host(<<c>>), c.id)
       IN Return("createinstance", Push(n, Ref("instance", Len(n.heap))), TRUE, 2)
  /\ UNCHANGED <<keys, does, handles>>

\* The result of NewSlot is not looked at.
sq_newslot ==
  /\ \E o \in Objects, k \in Keys, v \in Values : \E static \in IF o.t = "class" THEN BOOLEAN ELSE {FALSE} :
       LET x == Host(<<o, k, v>>)
       IN IF o.t \notin {"table", "class"} THEN Return("none", x, TRUE, 3)
          ELSE IF k = NullKey THEN Return("newslot", Raise(x), FALSE, 3)
          ELSE Return("newslot", Pop(NewSlot(x, o, k, v, static).m, 2), TRUE, 1)
  /\ UNCHANGED <<keys, does, handles>>

sq_deleteslot ==
  /\ \E o \in Of({"table"}), k \in Keys, pushval \in BOOLEAN :
       LET x == Host(<<o, k>>)
           d == DeleteSlot(x, o, k)
       IN IF k = NullKey THEN Return("deleteslot", Raise(x), FALSE, 2)
          ELSE IF ~d.ok THEN Return("deleteslot", Pop(d.m, 1), FALSE, 1)
          ELSE IF pushval THEN Return("deleteslot", Push(Pop(d.m, 1), d.v), TRUE, 2)
          ELSE Return("deleteslot", Pop(d.m, 1), TRUE, 1)
  /\ UNCHANGED <<keys, does, handles>>

sq_rawdeleteslot ==
  /\ \E o \in Of({"table"}), k \in keys :
       LET x == Host(<<o, k>>)
       IN Return("rawdeleteslot", Pop(Put(x, o, [Obj(x, o) EXCEPT !.slots = Without(@, k)]), 1), TRUE, 1)
  /\ UNCHANGED <<keys, does, handles>>

\* A failed assignment leaves key and value on the stack.
sq_set ==
  /\ \E o \in Objects, k \in keys, v \in Values :
       LET s == Set(Host(<<o, k, v>>), o, k, v, FALSE)
       IN IF s.ok THEN Return("set", Pop(s.m, 2), TRUE, 1) ELSE Return("set", s.m, FALSE, 3)
  /\ UNCHANGED <<keys, does, handles>>

sq_rawset ==
  /\ \E o \in Objects, k \in Keys, v \in Values :
       LET x == Host(<<o, k, v>>)
           y == Obj(x, o)
           c == ClassNewSlot(y, k, v, FALSE)
           i == InstanceSet(x, y, k, v)
           Ok(z) == Return("rawset", Pop(z, 2), TRUE, 1)
       IN CASE k = NullKey -> Return("rawset", Raise(Pop(x, 2)), FALSE, 1)
            [] k # NullKey /\ o.t = "table" -> Ok(Put(x, o, [y EXCEPT !.slots = With(@, k, v)]))
            [] k # NullKey /\ o.t = "class" -> Ok(IF c = Absent THEN x ELSE Put(x, o, c))
            [] OTHER -> IF i = Absent THEN Return("rawset", Raise(x), FALSE, 3) ELSE Ok(Put(x, o, i))
  /\ UNCHANGED <<keys, does, handles>>

sq_newmember(raw) ==
  /\ \E o \in Of({"class"}), k \in Keys, v \in Values, static \in BOOLEAN, a \in {Null, Num(1)} :
       LET x == Host(<<o, k, v, a>>)
           n == NewSlotA(x, o, k, v, a, static, raw)
       IN IF k = NullKey THEN Return("newmember", Raise(x), FALSE, 4) ELSE Return("newmember", n.m, n.ok, 4)
  /\ UNCHANGED <<keys, does, handles>>

sq_get ==
  /\ \E o \in Objects, k \in keys :
       LET g == Get(Host(<<o, k>>), o, k, FALSE, FALSE)
       IN IF g.ok THEN Return("get", Push(Pop(g.m, 1), g.v), TRUE, 2) ELSE Return("get", Pop(g.m, 1), FALSE, 1)
  /\ UNCHANGED <<keys, does, handles>>

sq_rawget ==
  /\ \E o \in Objects, k \in keys :
       LET x == Pop(Host(<<o, k>>), 1)
           v == Own(x, o, k)
       IN IF v # Absent THEN Return("rawget", Push(x, v), TRUE, 2) ELSE Return("rawget", Raise(x), FALSE, 1)
  /\ UNCHANGED <<keys, does, handles>>

\* _OP_GET and _OP_SET on the object in register 0 of a script function.
ScriptGet ==
  /\ \E o \in Objects, k \in keys :
       LET g == Get(Host(<<o>>), o, k, FALSE, TRUE) IN Return("scriptget", g.m, g.ok, 1)
  /\ UNCHANGED <<keys, does, handles>>

ScriptSet ==
  /\ \E o \in Objects, k \in keys, v \in Values :
       LET s == Set(Host(<<o>>), o, k, v, TRUE) IN Return("scriptset", s.m, s.ok, 1)
  /\ UNCHANGED <<keys, does, handles>>

sq_setdelegate ==
  /\ \E o \in Objects, d \in Objects \cup {Null} :
       LET x == Host(<<o, d>>)
           s == IF d = Null THEN SetDelegate(x, o, 0) ELSE SetDelegate(x, o, d.id)
       IN IF o.t = "table" /\ d.t \in {"table", "null"} /\ s # Absent
          THEN Return("setdelegate", Pop(s, 1), TRUE, 1)
          ELSE Return("setdelegate", Raise(x), FALSE, 2)
  /\ UNCHANGED <<keys, does, handles>>

sq_getdelegate ==
  /\ \E o \in Objects :
       LET x == Host(<<o>>)
           d == Obj(x, o).delegate
       IN IF o.t # "table" THEN Return("getdelegate", Raise(x), FALSE, 1)
          ELSE Return("getdelegate", Push(x, IF d = 0 THEN Null ELSE Ref("table", d)), TRUE, 2)
  /\ UNCHANGED <<keys, does, handles>>

\* The result is written into a slot pushed before _cloned runs.
sq_clone ==
  /\ Room
  /\ \E o \in Objects :
       LET c == Clone(Push(Host(<<o>>), Null), o)
           n == Len(c.m.stack)
       IN IF c.ok THEN Return("clone", [c.m EXCEPT !.stack[2] = c.v], TRUE, 2)
          ELSE Return("clone", Pop(c.m, 1), FALSE, 1)
  /\ UNCHANGED <<keys, does, handles>>

\* sq_cmp does not say whether the comparison failed.
sq_cmp ==
  /\ \E a, b \in Objects : Return("cmp", ObjCmp(Host(<<a, b>>), a, b).m, TRUE, 2)
  /\ UNCHANGED <<keys, does, handles>>

ScriptEq ==
  /\ \E a, b \in Objects :
       LET e == IsEqual(Host(<<a, b>>), a, b) IN Return("eq", e.m, e.ok, 2)
  /\ UNCHANGED <<keys, does, handles>>

ScriptArith ==
  /\ \E a \in Objects, b \in Objects :
       \E r \in {ArithMetaMethod(Host(<<a, b>>), a, b), NEG_OP(Host(<<a, b>>), a)} :
         Return("arith", r.m, r.ok, 2)
  /\ UNCHANGED <<keys, does, handles>>

sq_tostring ==
  /\ \E o \in Objects :
       \E r \in {ToStr(Host(<<o>>), o), TypeOf(Host(<<o>>), o)} :
         IF r.ok THEN Return("tostring", Push(r.m, r.v), TRUE, 2) ELSE Return("tostring", r.m, FALSE, 1)
  /\ UNCHANGED <<keys, does, handles>>

sq_clear ==
  /\ \E o \in Objects :
       LET x == Host(<<o>>)
       IN IF o.t = "table" THEN Return("clear", Put(x, o, [Obj(x, o) EXCEPT !.slots = EmptyFcn]), TRUE, 1)
          ELSE Return("clear", Raise(x), FALSE, 1)
  /\ UNCHANGED <<keys, does, handles>>

sq_setattributes ==
  /\ \E o \in Of({"class"}), k \in Keys :
       LET x == Host(<<o, k, Num(1)>>)
           c == Obj(x, o)
           old == IF k = NullKey THEN c.attrs ELSE GetAttributes(c, k)
           new == IF k = NullKey THEN [c EXCEPT !.attrs = Num(1)] ELSE SetAttributes(c, k, Num(1))
       IN IF old = Absent THEN Return("setattributes", Raise(x), FALSE, 3)
          ELSE Return("setattributes", Push(Pop(Put(x, o, new), 2), old), TRUE, 2)
  /\ UNCHANGED <<keys, does, handles>>

sq_getattributes ==
  /\ \E o \in Of({"class"}), k \in Keys :
       LET x == Host(<<o, k>>)
           a == IF k = NullKey THEN Obj(x, o).attrs ELSE GetAttributes(Obj(x, o), k)
       IN IF a = Absent THEN Return("getattributes", Raise(x), FALSE, 2)
          ELSE Return("getattributes", Push(Pop(x, 1), a), TRUE, 2)
  /\ UNCHANGED <<keys, does, handles>>

\* A handle is the place of a member in the class it was asked of.
sq_getmemberhandle ==
  /\ \E o \in Of({"class"}), k \in keys :
       LET x == Host(<<o, k>>)
           i == At(Obj(x, o).members, k)
       IN \/ /\ i = Absent
             /\ Return("getmemberhandle", Raise(x), FALSE, 2)
             /\ UNCHANGED handles
          \/ /\ i # Absent
             /\ Cardinality(handles) < MaxHandles
             /\ handles' = handles \cup {[class |-> o.id, key |-> k, field |-> i.field, idx |-> i.idx,
                                          before |-> Len(x.heap)]}
             /\ Return("getmemberhandle", Pop(x, 1), TRUE, 1)
  /\ UNCHANGED <<keys, does>>

\* The classes a handle may be used with: its own, and those derived from it since. A class
\* derived before may lack the member.
Serves(h, c) ==
  h.class \in Ancestors(m, c) /\ \A d \in Ancestors(m, c) \ Ancestors(m, h.class) : d > h.before

sq_setbyhandle ==
  /\ \E h \in handles, o \in Of({"class", "instance"}) :
       LET x == Host(<<o, Num(1)>>)
           y == Obj(x, o)
           c == IF o.t = "class" THEN o.id ELSE y.class
           z == CASE ~h.field -> [x EXCEPT !.heap[c].methods[h.idx].val = Num(1)]
                  [] h.field /\ o.t = "class" -> [x EXCEPT !.heap[c].defaults[h.idx].val = Num(1)]
                  [] OTHER -> [x EXCEPT !.heap[o.id].values[h.idx] = Num(1)]
       IN /\ Serves(h, c)
          /\ Return("setbyhandle", Pop(z, 1), TRUE, 1)
  /\ UNCHANGED <<keys, does, handles>>

sq_setclassudsize ==
  /\ \E o \in Of({"class"}) :
       LET x == Host(<<o>>)
       IN IF Obj(x, o).locked THEN Return("setclassudsize", Raise(x), FALSE, 1)
          ELSE Return("setclassudsize", Put(x, o, [Obj(x, o) EXCEPT !.udsize = 1]), TRUE, 1)
  /\ UNCHANGED <<keys, does, handles>>

Next ==
  \/ sq_newtable \/ sq_newclass \/ sq_createinstance \/ sq_newslot \/ sq_deleteslot \/ sq_rawdeleteslot
  \/ sq_set \/ sq_rawset \/ sq_newmember(TRUE) \/ sq_newmember(FALSE) \/ sq_get \/ sq_rawget
  \/ ScriptGet \/ ScriptSet \/ sq_setdelegate \/ sq_getdelegate \/ sq_clone \/ sq_cmp \/ ScriptEq
  \/ ScriptArith \/ sq_tostring \/ sq_clear \/ sq_setattributes \/ sq_getattributes
  \/ sq_getmemberhandle \/ sq_setbyhandle \/ sq_setclassudsize

Spec == Init /\ [][Next]_vars
----------------------------------------------------------------------------
(* Properties.                                                             *)

Tables == TablesOf(m)
Classes == ClassesOf(m)
Instances == {i \in DOMAIN m.heap : m.heap[i].t = "instance"}

\* The delegate of a table is a table, and following delegates comes to an end, so that Get
\* and Set do (of any tables, one has its delegate outside them): no sequence of setdelegate
\* and clone closes a cycle that the test in SetDelegate misses.
DelegatesAcyclic ==
  /\ \A i \in Tables : m.heap[i].delegate \in Tables \cup {0}
  /\ \A S \in SUBSET Tables : S # {} => \E i \in S : m.heap[i].delegate \notin S

\* An instance has the fields and the user data its class says it has now, although the class
\* can change after it was made; the fields of a class are different places; and a class with
\* instances, or with derived classes that have some, takes no new fields.
InstancesFit ==
  /\ \A i \in Instances : LET o == m.heap[i] c == m.heap[o.class]
                           IN Len(o.values) = Len(c.defaults) /\ o.ud = c.udsize
                              /\ \A b \in Ancestors(m, o.class) : m.heap[b].locked
  /\ \A c \in Classes : LET f == m.heap[c].members
                         IN /\ \A k, l \in DOMAIN f : f[k] = f[l] => k = l
                            /\ m.heap[c].ctor <= Len(m.heap[c].methods)

\* A member handle stays good: it is in the range of the methods or fields of every class and
\* instance it may be used with, and the handle of a field still names the same field.
HandlesSound ==
  \A h \in handles : \A c \in {x \in Classes : Serves(h, x)} :
    LET o == m.heap[c]
    IN IF h.field THEN /\ h.idx <= Len(o.defaults)
                       /\ o.members[h.key] = [field |-> TRUE, idx |-> h.idx]
                       /\ \A i \in Instances : m.heap[i].class = c => h.idx <= Len(m.heap[i].values)
       ELSE h.idx <= Len(o.methods)

Slots(i) == IF m.heap[i].t = "table" THEN m.heap[i].slots ELSE IF m.heap[i].t = "class" THEN m.heap[i].meta ELSE EmptyFcn
SetDeclines == \E i \in DOMAIN m.heap : LET s == At(Slots(i), "_set") IN s # Absent /\ s.t = "closure" /\ s.does = "decline"

NotCallable == \E i \in Tables : \E k \in DOMAIN m.heap[i].slots \cap MetaMethods : m.heap[i].slots[k].t # "closure"

\* However many metamethods of a delegation chain ran, and whether they returned or threw, the
\* stack holds what the caller may expect; and a call that fails has said why: the error that
\* the host then reads is not one that an earlier call left. There are two exceptions: when
\* _set throws null its arguments stay behind, and a metamethod that is not callable fails
\* without a word.
EndsCleanly ==
  /\ ~SetDeclines \/ ~ret.set => ret.extra = 0
  /\ ~ret.ok /\ ~NotCallable => ret.fresh

\* What is assigned is read back from the same object, along the same delegates: where no
\* metamethod takes part, Set and Get agree on the object that holds the slot.
ReadYourWrites ==
  \A o \in Objects, k \in keys, v \in Values :
    LET s == Set(Host(<<>>), o, k, v, FALSE)
        g == Get(s.m, o, k, FALSE, FALSE)
    IN s.ok /\ s.m.entered = 0 => g.ok /\ g.v = v
=============================================================================
