------------------------------- MODULE Arrays -------------------------------
(***************************************************************************)
(* An array, the vector it is stored in, and the functions of the array's  *)
(* default delegate. map, apply, reduce, filter and sort call a script     *)
(* function for the elements, and that function may change the array while *)
(* they run: run is the function in progress, and the operations of the    *)
(* script are possible whenever none runs or its callback does.            *)
(*                                                                         *)
(* Elements are numbers; Null orders before every one of them. Positions   *)
(* count from 0, as in the code.                                           *)
(***************************************************************************)
EXTENDS Integers, Sequences, SequencesExt, FiniteSets

CONSTANTS Elements,         \* numbers that arrays hold
          Starts,           \* the arrays to begin with
          MaxLen,           \* bound on the length of the array
          MaxWalk,          \* bound on the length of an array that is walked or sorted
          MaxOps            \* bound on the calls the script makes

ASSUME ElementsAssumption == Elements \subseteq Nat \ {0}
ASSUME BoundsAssumption == MaxLen \in Nat /\ MaxWalk \in Nat /\ MaxOps \in Nat
ASSUME StartsAssumption ==
  \A a \in Starts : a \in [vals : Seq(Nat), cap : Nat] /\ Len(a.vals) <= a.cap

VARIABLES arr, run, ops
vars == <<arr, run, ops>>

Null == 0

----------------------------------------------------------------------------
(* sqvector: the elements, and the number of places allocated.             *)

Size(v) == Len(v.vals)
Reallocated(v, n) == [v EXCEPT !.cap = IF n > 0 THEN n ELSE 4]

Resized(v, n, fill) ==
  [IF n > v.cap THEN Reallocated(v, n) ELSE v
     EXCEPT !.vals = [i \in 1 .. n |-> IF i <= Size(v) THEN v.vals[i] ELSE fill]]

PushBack(v, x) == [IF v.cap <= Size(v) THEN Reallocated(v, Size(v) * 2) ELSE v EXCEPT !.vals = Append(@, x)]

PopBack(v) == [v EXCEPT !.vals = Front(@)]
InsertedAt(v, i, x) == [Resized(v, Size(v) + 1, Null) EXCEPT !.vals = InsertAt(v.vals, i + 1, x)]
RemovedAt(v, i) == [v EXCEPT !.vals = RemoveAt(@, i + 1)]
ShrinkToFit(v) == IF Size(v) > 4 THEN Reallocated(v, Size(v)) ELSE v

----------------------------------------------------------------------------
(* SQArray.                                                                *)

Create(n) == Resized([vals |-> <<>>, cap |-> 0], n, Null)
ShrinkIfNeeded(a) == IF Size(a) <= a.cap \div 4 THEN ShrinkToFit(a) ELSE a
InRange(a, i) == i >= 0 /\ i < Size(a)

\* Get leaves the caller's variable, whose value is old, alone when i is out of range.
Get(a, i, old) == IF InRange(a, i) THEN a.vals[i + 1] ELSE old
Set(a, i, x) == IF InRange(a, i) THEN [a EXCEPT !.vals[i + 1] = x] ELSE a
Resize(a, n, fill) == ShrinkIfNeeded(Resized(a, n, fill))
Pop(a) == ShrinkIfNeeded(PopBack(a))
Insert(a, i, x) == IF i < 0 \/ i > Size(a) THEN a ELSE InsertedAt(a, i, x)
RemoveItem(a, i) == IF InRange(a, i) THEN ShrinkIfNeeded(RemovedAt(a, i)) ELSE a
Extend(a, b) ==
  LET grown[i \in 0 .. Size(b)] == IF i = 0 THEN a ELSE PushBack(grown[i - 1], b.vals[i])
  IN  grown[Size(b)]
Swap(a, i, j) == [a EXCEPT !.vals = [@ EXCEPT ![i + 1] = a.vals[j + 1], ![j + 1] = a.vals[i + 1]]]

\* sq_arrayreverse exchanges pairs from the ends to the middle: the elements in reverse order.
Reversed(a) == [a EXCEPT !.vals = Reverse(@)]

\* array_slice: negative bounds count from the end; a start before the first element is not
\* refused, and the places that are not there are null. Absent if the bounds are wrong.
Absent == [vals |-> <<>>, cap |-> -1]
Slice(a, start, end) ==
  LET s == IF start < 0 THEN Size(a) + start ELSE start
      e == IF end < 0 THEN Size(a) + end ELSE end
  IN IF e < s \/ e > Size(a) THEN Absent
     ELSE [Create(e - s) EXCEPT !.vals = [k \in 1 .. e - s |-> Get(a, s + k - 1, Null)]]

----------------------------------------------------------------------------
(* What the script does, also from inside a callback.                      *)

\* ended: the function that ran last, whether it succeeded, and what it is judged by.
Idle(ended) == [op |-> "none", ended |-> ended]
NoneEnded == [op |-> "none"]
Visits == {"map", "apply", "reduce", "filter"}
Comparing == run.op = "sort" /\ run.at \in {"children", "parent"}
InCallback == run.op \in Visits \/ (Comparing /\ run.user)

Called == ops < MaxOps /\ ops' = ops + 1

\* An operation of the script gives the array a. A compare function may not shorten the array
\* that is being sorted: _hsort goes on with the places it had at the start.
Script(a) ==
  /\ run.op = "none" \/ InCallback
  /\ run.op = "sort" => Size(a) >= Size(arr)
  /\ Called
  /\ arr' = a
  /\ Size(a) <= MaxLen
  /\ run' = IF run.op = "none" THEN Idle(NoneEnded) ELSE [run EXCEPT !.touched = TRUE]

Places == -1 .. MaxLen

array_append == \E x \in Elements : Script(PushBack(arr, x))
array_extend == Script(Extend(arr, arr))
array_reverse == Script(Reversed(arr))
array_pop == Size(arr) > 0 /\ Script(Pop(arr))
array_insert == \E i \in Places, x \in Elements : Script(Insert(arr, i, x))
array_remove == \E i \in Places : Script(RemoveItem(arr, i))
array_resize == \E n \in 0 .. MaxLen, x \in {Null} \cup Elements : Script(Resize(arr, n, x))
array_clear == Script(Resize(arr, 0, Null))
array_set == \E i \in Places, x \in Elements : Script(Set(arr, i, x))

\* The script keeps the slice in place of the array.
array_slice ==
  /\ run.op = "none"
  /\ \E s, e \in -Size(arr) - 1 .. Size(arr) + 1 : Slice(arr, s, e) # Absent /\ Script(Slice(arr, s, e))

----------------------------------------------------------------------------
(* map, apply, reduce and filter. The stack of the native function begins  *)
(* with the array and the closure; a call takes its callee from below the  *)
(* arguments.                                                              *)

NArgs(op) == IF op \in {"map", "apply"} THEN 2 ELSE 3
Arguments(op) == [i \in 1 .. NArgs(op) |-> "argument"]
Callee == run.stk[Len(run.stk) - NArgs(run.op)]

\* The head of the loop: the next element is passed to the callback, or the function ends.
Loop(a, r) ==
  LET x == Get(a, r.n, r.temp)
  IN IF r.n < r.size
     THEN [r EXCEPT !.temp = x, !.stk = @ \o Arguments(r.op), !.given = Append(@, x)]
     ELSE Idle([op |-> r.op, ok |-> TRUE, given |-> r.given, before |-> r.before, touched |-> r.touched,
                dest |-> r.dest, size |-> r.size])

Begin ==
  /\ run.op = "none" /\ Size(arr) <= MaxWalk /\ Called
  /\ \E op \in Visits :
       LET first == IF op = "reduce" THEN 1 ELSE 0
           start == IF op = "reduce" /\ Size(arr) > 0 THEN <<arr.vals[1]>> ELSE <<>>
       IN run' = Loop(arr, [op |-> op, n |-> first, size |-> Size(arr), temp |-> Null,
                            dest |-> IF op = "map" THEN Create(Size(arr)) ELSE Create(0),
                            stk |-> <<"array", "closure">>, given |-> start, before |-> arr.vals,
                            touched |-> FALSE])
  /\ UNCHANGED arr

\* (wrong on purpose) the result stays on the stack.
ReturnedKept(stk, op) == Append(SubSeq(stk, 1, Len(stk) - NArgs(op)), "result")

\* sq_call has replaced the arguments by the result, which the function takes off again.
Returned(stk, op) == LET pushed == Append(SubSeq(stk, 1, Len(stk) - NArgs(op)), "result") IN Front(pushed)

CallbackReturns ==
  /\ run.op \in Visits
  /\ \E v \in {Null, Size(arr) + 1} :
       LET a == IF run.op = "apply" THEN Set(arr, run.n, v) ELSE arr
           dest == CASE run.op = "map" -> Set(run.dest, run.n, v)
                     [] run.op = "filter" /\ v # Null -> PushBack(run.dest, run.temp)
                     [] OTHER -> run.dest
       IN /\ arr' = a
          /\ run' = Loop(a, [run EXCEPT !.n = @ + 1, !.dest = dest, !.stk = Returned(@, run.op)])
  /\ UNCHANGED ops

CallbackFails ==
  /\ InCallback
  /\ run' = Idle([op |-> run.op, ok |-> FALSE, given |-> <<>>, before |-> run.before, touched |-> run.touched,
                  dest |-> Create(0), user |-> TRUE, size |-> 0])
  /\ UNCHANGED <<arr, ops>>

----------------------------------------------------------------------------
(* array_sort: heap sort. at says where _hsort_sift_down is: at the loop,  *)
(* in the comparison of two children or of the root with the larger child, *)
(* or at its end.                                                          *)

array_sort ==
  /\ run.op = "none" /\ Size(arr) \in 2 .. MaxWalk /\ Called
  /\ \E user \in BOOLEAN :
       run' = [op |-> "sort", user |-> user, phase |-> "build", i |-> Size(arr) \div 2, at |-> "loop",
               root |-> Size(arr) \div 2, bottom |-> Size(arr) - 1, child |-> -1, size |-> Size(arr),
               before |-> arr.vals, touched |-> FALSE]
  /\ UNCHANGED arr

SortEnded(ok) == Idle([op |-> "sort", ok |-> ok, user |-> run.user, before |-> run.before, touched |-> run.touched])

\* (wrong on purpose) the last child is left out.
SiftLoopShort ==
  /\ run.op = "sort" /\ run.at = "loop"
  /\ LET root2 == run.root * 2
     IN run' = IF root2 >= run.bottom THEN [run EXCEPT !.at = "end"]
               ELSE [run EXCEPT !.at = "children", !.child = root2]
  /\ UNCHANGED <<arr, ops>>

SiftLoop ==
  /\ run.op = "sort" /\ run.at = "loop"
  /\ LET root2 == run.root * 2
     IN run' = CASE root2 > run.bottom -> [run EXCEPT !.at = "end"]
                 [] root2 = run.bottom -> [run EXCEPT !.at = "parent", !.child = root2]
                 [] OTHER -> [run EXCEPT !.at = "children", !.child = root2]
  /\ UNCHANGED <<arr, ops>>

\* The answers of a compare function are anybody's guess; ObjCmp's are not.
Answers(i, j) ==
  LET x == arr.vals[i + 1] y == arr.vals[j + 1]
  IN IF run.user THEN {-1, 0, 1} ELSE {IF x < y THEN -1 ELSE IF x > y THEN 1 ELSE 0}

CompareChildren ==
  /\ Comparing /\ run.at = "children"
  /\ \E ret \in Answers(run.child, run.child + 1) :
       run' = [run EXCEPT !.at = "parent", !.child = IF ret > 0 THEN @ ELSE @ + 1]
  /\ UNCHANGED <<arr, ops>>

\* (wrong on purpose) nothing is noticed.
CompareParentTrusting ==
  /\ Comparing /\ run.at = "parent"
  /\ \E ret \in Answers(run.root, run.child) :
       IF ret < 0 THEN arr' = Swap(arr, run.root, run.child) /\ run' = [run EXCEPT !.root = run.child, !.at = "loop"]
       ELSE run' = [run EXCEPT !.at = "end"] /\ UNCHANGED arr
  /\ UNCHANGED ops

\* A root that is its own larger child: the compare function contradicts itself.
CompareParent ==
  /\ Comparing /\ run.at = "parent"
  /\ \E ret \in Answers(run.root, run.child) :
       CASE ret < 0 /\ run.root = run.child -> run' = SortEnded(FALSE) /\ UNCHANGED arr
         [] ret < 0 /\ run.root # run.child -> /\ arr' = Swap(arr, run.root, run.child)
                                               /\ run' = [run EXCEPT !.root = run.child, !.at = "loop"]
         [] OTHER -> run' = [run EXCEPT !.at = "end"] /\ UNCHANGED arr
  /\ UNCHANGED ops

\* _hsort: one sift for every place that has children, then one after each removal of the largest.
SiftEnd ==
  /\ run.op = "sort" /\ run.at = "end"
  /\ LET i == IF run.phase = "build" /\ run.i = 0 THEN run.size - 1 ELSE run.i - 1
     IN CASE run.phase = "build" /\ run.i > 0 ->
               run' = [run EXCEPT !.i = i, !.root = i, !.at = "loop"] /\ UNCHANGED arr
          [] (run.phase = "build" => run.i = 0) /\ i >= 1 ->
               /\ arr' = Swap(arr, 0, i)
               /\ run' = [run EXCEPT !.phase = "extract", !.i = i, !.root = 0, !.bottom = i - 1, !.at = "loop"]
          [] OTHER -> run' = SortEnded(TRUE) /\ UNCHANGED arr
  /\ UNCHANGED ops

----------------------------------------------------------------------------
Init ==
  /\ arr \in Starts
  /\ run = Idle(NoneEnded)
  /\ ops = 0

ScriptNext ==
  \/ array_append \/ array_extend \/ array_reverse \/ array_pop \/ array_insert \/ array_remove
  \/ array_resize \/ array_clear \/ array_set \/ array_slice

SortNext == SiftLoop \/ CompareChildren \/ CompareParent \/ SiftEnd
Callbacks == CallbackReturns \/ CallbackFails
Next == ScriptNext \/ Begin \/ array_sort \/ SortNext \/ Callbacks

Spec == Init /\ [][Next]_vars

\* The interpreter goes on: loops of the library run, and callbacks return.
FairSpec == Spec /\ WF_vars(SortNext) /\ WF_vars(CallbackReturns)
----------------------------------------------------------------------------
(* Properties.                                                             *)

\* The callback is given every element once and in order when it leaves the array alone; when it
\* does not, it is still called as often as there were elements at the start, and map's result
\* has that many.  It is entered with the closure the script passed, not with what an earlier
\* round left on the stack, and all elements stay in allocated places.
EachElementOnce ==
  /\ Size(arr) <= arr.cap
  /\ run.op \in Visits => /\ Callee = "closure"
                          /\ Size(run.dest) <= run.dest.cap
                          /\ ~run.touched /\ run.op # "apply" => IsPrefix(run.given, run.before)
  /\ run.op = "none" /\ run.ended.op \in Visits /\ run.ended.ok =>
       /\ Len(run.ended.given) = run.ended.size
       /\ ~run.ended.touched /\ run.ended.op # "apply" => run.ended.given = run.ended.before
       /\ run.ended.op = "map" => Size(run.ended.dest) = run.ended.size

Counts(s) == [x \in ToSet(s) |-> Cardinality({i \in DOMAIN s : s[i] = x})]

\* Sorting compares only elements that exist, and loses and doubles none, whatever the compare
\* function answers and even if it fails half way; with ObjCmp the result is in order.
SortSorts ==
  LET r == IF run.op = "none" THEN run.ended ELSE run
  IN r.op = "sort" =>
       /\ Comparing => /\ {run.root, run.child} \subseteq 0 .. Size(arr) - 1
                       /\ run.at = "children" => run.child + 1 < Size(arr)
       /\ ~r.touched => Counts(arr.vals) = Counts(r.before)
       /\ run.op = "none" /\ r.ok /\ ~r.user /\ ~r.touched => \A i \in 1 .. Size(arr) - 1 : arr.vals[i] <= arr.vals[i + 1]

\* Sorting comes to an end even if the compare function contradicts itself in every answer.
SortEnds == run.op = "sort" ~> run.op = "none"
=============================================================================
