-------------------------------- MODULE Heap --------------------------------
(***************************************************************************)
(* Memory management of the interpreter: reference counts (sqobject.h),    *)
(* the chain of collectable objects and the mark-and-sweep collector over  *)
(* it (sqstate.cpp, the Mark functions of sqobject.cpp), weak references,  *)
(* the outers through which closures share stack slots (sqvm.cpp), and the *)
(* destruction of the shared state.                                        *)
(*                                                                         *)
(* Every object is a record of slots: the fields of a table, the elements  *)
(* of an array, the outers of a closure, the value of an outer, the stack  *)
(* of a VM.  Delegate stands for the default delegate tables: the roots    *)
(* that RunMark visits after the root VM.                                  *)
(***************************************************************************)
EXTENDS Integers, SequencesExt

CONSTANTS Tables, Closures, Outers, Threads, Arrays, Weaks,  \* pools of objects
          Root,        \* _root_vm
          Delegate,    \* the default delegates
          Null,
          NFields,     \* slots of a table
          NLocals,     \* stack slots of the root VM; a thread has one
          Limits       \* how many objects of each kind may live at once

VARIABLES heap,        \* the objects and the chain
          closed,      \* the shared state has been deleted
          theory,      \* what the assert in ~SQSharedState found
          limit        \* the member of Limits that this behaviour keeps to

hvars == <<heap, closed, theory, limit>>

VMs == Threads \cup {Root}
Obj == Tables \cup Closures \cup Outers \cup Arrays \cup VMs \cup {Delegate}
RefCounted == Obj \cup Weaks

Closed == <<>>         \* _valptr points to _value

-----------------------------------------------------------------------------
(***************************************************************************)
(* Reference counts and the chain                                          *)
(***************************************************************************)

\* __AddRef; `bad' records the use of an object that is gone.
AddRef(h, o) ==
  IF o = Null THEN h
  ELSE [h EXCEPT !.ref[o] = @ + 1, !.bad = @ \/ o \notin h.alive]

AddToChain(h, chain, c) ==
  [h EXCEPT !.prev = [x \in Obj |-> IF x = c THEN Null
                                    ELSE IF x = h[chain] THEN c ELSE @[x]],
            !.next[c] = h[chain],
            ![chain] = c]

RemoveFromChain(h, c) ==
  LET p == h.prev[c]
      n == h.next[c]
  IN  [h EXCEPT !.next = [x \in Obj |-> IF x = c THEN Null ELSE IF x = p THEN n ELSE @[x]],
                !.prev = [x \in Obj |-> IF x = c THEN Null ELSE IF x = n THEN p ELSE @[x]],
                !.gc = IF p = Null THEN n ELSE @]

\* REMOVE_FROM_CHAIN: a marked object is not on _gc_chain.
Unchain(h, c) == IF c \in h.marked THEN h ELSE RemoveFromChain(h, c)

\* The end of a destructor: ~SQRefCounted clears the weak reference.
Free(h, o) ==
  LET w == h.weakref[o]
  IN  [h EXCEPT !.alive = @ \ {o},
                !.fld[o] = <<>>,
                !.weakref[o] = Null,
                !.wobj = [x \in Weaks |-> IF x = w THEN Null ELSE @[x]]]

\* (wrong on purpose) the object keeps its pointer to the weak reference.
FreeWeakKeepsPointer(h, w) == [h EXCEPT !.alive = @ \ {w}, !.wobj[w] = Null]

\* SQWeakRef::Release
FreeWeak(h, w) ==
  [h EXCEPT !.alive = @ \ {w},
            !.weakref = [x \in Obj |-> IF x = h.wobj[w] THEN Null ELSE @[x]],
            !.wobj[w] = Null]

RECURSIVE Release(_, _), Destroy(_, _), NullSlots(_, _), CloseOuters(_, _, _)

\* __Release: drop one reference, and the object with the last one.
Release(h, o) ==
  IF o = Null THEN h
  ELSE IF o \notin h.alive THEN [h EXCEPT !.bad = TRUE]
  ELSE LET g == [h EXCEPT !.ref[o] = @ - 1]
       IN  IF g.ref[o] = 0 /\ o \notin g.marked THEN Destroy(g, o) ELSE g

\* (wrong on purpose) the old value is not released.
AssignLeaks(h, o, i, v) == AddRef([h EXCEPT !.fld[o][i] = v], v)

\* SQObjectPtr::operator=: the new value is referenced before the old one
\* is released.
Assign(h, o, i, v) ==
  Release(AddRef([h EXCEPT !.fld[o][i] = v], v), h.fld[o][i])

NullSlots(h, o) ==
  FoldLeft(LAMBDA g, i : Assign(g, o, i, Null), h, [i \in 1 .. Len(h.fld[o]) |-> i])

\* The open outers of a VM are listed from the top of its stack downwards.
CloseOuters(h, vm, base) ==
  IF h.open[vm] = <<>> \/ h.valptr[Head(h.open[vm])][2] < base THEN h
  ELSE LET p == Head(h.open[vm])
           v == h.fld[vm][h.valptr[p][2]]
           g == [Assign(h, p, 1, v) EXCEPT !.valptr[p] = Closed,
                                           !.open[vm] = Tail(@)]
       IN  CloseOuters(Release(g, p), vm, base)

\* (wrong on purpose) the outers that point into the stack stay open.
FinalizeVMKeepsOuters(h, vm) == NullSlots(h, vm)

FinalizeVM(h, vm) == NullSlots(CloseOuters(h, vm, 1), vm)

\* The destructors: a closure and a VM drop what they refer to before they
\* leave the chain, the others after it.
Destroy(h, o) ==
  CASE o \in Weaks    -> FreeWeak(h, o)
    [] o \in Closures -> Free(Unchain(NullSlots(h, o), o), o)
    [] o \in VMs      -> Free(Unchain(FinalizeVM(h, o), o), o)
    [] OTHER          -> Free(NullSlots(Unchain(h, o), o), o)

Finalize(h, o) ==
  CASE o \in VMs    -> FinalizeVM(h, o)
    [] o \in Arrays -> [NullSlots(h, o) EXCEPT !.fld[o] = <<>>]
    [] OTHER        -> NullSlots(h, o)

\* A new object, with its slots null, at the head of the chain.
Create(h, o, n) ==
  AddToChain([h EXCEPT !.alive = @ \cup {o},
                       !.ref[o] = 0,
                       !.fld[o] = [i \in 1 .. n |-> Null]], "gc", o)

-----------------------------------------------------------------------------
(***************************************************************************)
(* The collector                                                           *)
(***************************************************************************)

\* (wrong on purpose) weak references keep their objects.
VisitedThroughWeak(h, o) ==
  [i \in 1 .. Len(h.fld[o]) |->
     IF h.fld[o][i] \in Weaks THEN h.wobj[h.fld[o][i]] ELSE h.fld[o][i]]

\* What the Mark functions visit: an open outer has no value of its own.
Visited(h, o) == IF o \in Outers /\ h.valptr[o] # Closed THEN <<>> ELSE h.fld[o]

\* MarkObject passes over null and weak references.
RECURSIVE Mark(_, _)
Mark(h, o) ==
  IF o \notin Obj \ h.marked THEN h
  ELSE LET g == FoldLeft(Mark, [h EXCEPT !.marked = @ \cup {o}], Visited(h, o))
       IN  AddToChain(RemoveFromChain(g, o), "tchain", o)

RunMark(h) == Mark(Mark(h, Root), Delegate)

\* Finalize every object of the chain from t on; the object in hand and the
\* next one are referenced meanwhile.
RECURSIVE Sweep(_, _)
Sweep(h, t) ==
  IF t = Null THEN h
  ELSE IF t \notin h.alive THEN [h EXCEPT !.bad = TRUE]
  ELSE LET f  == Finalize(h, t)
           nx == f.next[t]
       IN  Sweep(Release(AddRef(f, nx), t), nx)

SweepChain(h) == Sweep(AddRef(h, h.gc), h.gc)

\* UnMark along the chain that starts at t.
RECURSIVE UnMark(_, _)
UnMark(h, t) ==
  IF t = Null THEN h ELSE UnMark([h EXCEPT !.marked = @ \ {t}], h.next[t])

\* (wrong on purpose) _gc_chain is not set to the surviving objects.
CollectedLosesChain(h) ==
  LET g == SweepChain(RunMark(h)) IN [UnMark(g, g.tchain) EXCEPT !.tchain = Null]

Collected(h) ==
  LET g == SweepChain(RunMark(h))
      u == UnMark(g, g.tchain)
  IN  [u EXCEPT !.gc = u.tchain, !.tchain = Null]

\* The objects of the chain that starts at t, in order.
RECURSIVE ChainFrom(_, _)
ChainFrom(h, t) == IF t = Null THEN <<>> ELSE <<t>> \o ChainFrom(h, h.next[t])

\* (wrong on purpose) the loop stops before the last object.
ListedButLast(rs) == IF rs = <<>> THEN <<>> ELSE Front(rs)

\* Outers are not handed to scripts.
Listed(rs) == SelectSeq(rs, LAMBDA o : o \notin Outers)

\* ResurrectUnreachable: what was not marked goes into the array a, and back
\* to the front of the chain.
Resurrected(h, a) ==
  LET m     == RunMark(h)
      rs    == ChainFrom(m, m.gc)
      found == Listed(rs)
      g     == [m EXCEPT !.gc = m.tchain, !.tchain = Null]
      c     == FoldLeft(AddRef, [Create(g, a, 0) EXCEPT !.fld[a] = found], found)
      j     == [c EXCEPT !.next[Last(rs)] = c.gc,
                         !.prev[c.gc] = Last(rs),
                         !.gc = rs[1]]
  IN  IF rs = <<>> THEN UnMark(g, g.gc) ELSE UnMark(j, j.gc)

\* (wrong on purpose) cycles are not broken up when the shared state goes.
DismantledWithoutSweep(h) ==
  Release(Release(FinalizeVM(h, Root), Root), Delegate)

\* ~SQSharedState up to its assert, and the loop after it.
Dismantled(h) ==
  SweepChain(Release(Release(FinalizeVM(h, Root), Root), Delegate))

RECURSIVE DestroyChain(_)
DestroyChain(h) ==
  IF h.gc = Null \/ h.bad THEN h ELSE DestroyChain(Destroy(AddRef(h, h.gc), h.gc))

-----------------------------------------------------------------------------
(***************************************************************************)
(* Actions                                                                 *)
(***************************************************************************)

\* sq_open: the delegates are created before the root VM.
HeapInit ==
  /\ heap = [alive   |-> {Root, Delegate},
             ref     |-> [o \in RefCounted |-> IF o \in {Root, Delegate} THEN 1 ELSE 0],
             fld     |-> [o \in Obj |-> IF o = Root THEN [i \in 1 .. NLocals |-> Null]
                                        ELSE <<>>],
             next    |-> [o \in Obj |-> IF o = Root THEN Delegate ELSE Null],
             prev    |-> [o \in Obj |-> IF o = Delegate THEN Root ELSE Null],
             gc      |-> Root,
             tchain  |-> Null,
             marked  |-> {},
             valptr  |-> [u \in Outers |-> Closed],
             open    |-> [v \in VMs |-> <<>>],
             weakref |-> [o \in Obj |-> Null],
             wobj    |-> [w \in Weaks |-> Null],
             bad     |-> FALSE]
  /\ closed = FALSE
  /\ theory = TRUE
  /\ limit \in Limits

\* The stack slots that running code can name: those of the root VM, and
\* those of a thread that the root VM has in hand and can wake up.
Regs ==
  {<<Root, i>> : i \in DOMAIN heap.fld[Root]}
    \cup {<<t, 1>> : t \in Threads \cap Range(heap.fld[Root])}

Val(r) == heap.fld[r[1]][r[2]]
Put(h, r, v) == Assign(h, r[1], r[2], v)

\* _realval: a slot of a table that holds a weak reference reads as its object.
RealVal(v) == IF v \in Weaks THEN heap.wobj[v] ELSE v

Step(h) == /\ ~closed
           /\ heap' = h
           /\ UNCHANGED <<closed, theory, limit>>

\* The objects of a pool that can be allocated within the bound.
Fresh(pool, bound) ==
  {o \in pool \ heap.alive : Cardinality(pool \cap heap.alive) < bound}

NewTable(r) ==
  \E o \in Fresh(Tables, limit.tables) : Step(Put(Create(heap, o, NFields), r, o))
NewThread(r) ==
  \E o \in Fresh(Threads, limit.threads) : Step(Put(Create(heap, o, 1), r, o))

\* Assignment, argument passing, return of a value; a null literal.
Move(r, s) == Val(r) # Val(s) /\ Step(Put(heap, s, Val(r)))
LoadNull(r) == Val(r) # Null /\ Step(Put(heap, r, Null))

\* t.i = s and s = t.i for the table in r.
SetField(r, i, s) ==
  Val(r) \in Tables /\ Step(Assign(heap, Val(r), i, Val(s)))
GetField(r, i, s) ==
  Val(r) \in Tables /\ Step(Put(heap, s, RealVal(heap.fld[Val(r)][i])))

\* FindOuter and CLOSURE_OP: a closure in s over the local r of its VM.
MakeClosure(r, s) ==
  /\ r[1] = s[1]
  /\ \E c \in Fresh(Closures, limit.closures) :
       LET vm   == r[1]
           list == heap.open[vm]
           h    == Create(heap, c, 1)
           same == {u \in Range(list) : heap.valptr[u] = r}
       IN  \/ \E u \in same : Step(Put(Assign(h, c, 1, u), s, c))
           \/ /\ same = {}
              /\ \E u \in Fresh(Outers, limit.outers) :
                   LET above == SelectSeq(list, LAMBDA x : heap.valptr[x][2] > r[2])
                       below == SelectSeq(list, LAMBDA x : heap.valptr[x][2] < r[2])
                       g == [AddRef(Create(h, u, 1), u) EXCEPT
                               !.valptr[u] = r,
                               !.open[vm] = above \o <<u>> \o below]
                   IN  Step(Put(Assign(g, c, 1, u), s, c))

\* _OP_GETOUTER and _OP_SETOUTER by the closure in r.
OuterOf(r) == heap.fld[Val(r)][1]
ValPtr(u) == IF heap.valptr[u] = Closed THEN <<u, 1>> ELSE heap.valptr[u]
GetOuter(r, s) == Val(r) \in Closures /\ Step(Put(heap, s, Val(ValPtr(OuterOf(r)))))
SetOuter(r, s) == Val(r) \in Closures /\ Step(Put(heap, ValPtr(OuterOf(r)), Val(s)))

\* _OP_CLOSE: a block ends, its captured locals are closed.
CloseScope(r) ==
  heap.open[r[1]] # <<>> /\ Step(CloseOuters(heap, r[1], r[2]))

\* (wrong on purpose) the slots are cleared before their outers are closed.
LeaveFrameClearsFirst(r) ==
  LET up == SetToSortSeq(r[2] .. Len(heap.fld[r[1]]), >)
  IN  /\ r[1] \in Threads \/ r[2] > 1
      /\ Step(CloseOuters(FoldLeft(LAMBDA h, i : Assign(h, r[1], i, Null), heap, up),
                          r[1], r[2]))

\* LeaveFrame of the frame whose base is r: close its outers, clear its slots.
LeaveFrame(r) ==
  LET up == SetToSortSeq(r[2] .. Len(heap.fld[r[1]]), >)
  IN  /\ r[1] \in Threads \/ r[2] > 1
      /\ Step(FoldLeft(LAMBDA h, i : Assign(h, r[1], i, Null),
                       CloseOuters(heap, r[1], r[2]), up))

\* sq_weakref (GetWeakRef) and sq_getweakrefval.
WeakRef(r, s) ==
  LET o == Val(r)
      w == IF o \in Obj THEN heap.weakref[o] ELSE Null
  IN  /\ o \in Obj
      /\ \/ w # Null /\ Step(Put(heap, s, w))
         \/ /\ w = Null
            /\ \E x \in Fresh(Weaks, limit.weaks) :
                 Step(Put([heap EXCEPT !.alive = @ \cup {x},
                                       !.ref[x] = 0,
                                       !.weakref[o] = x,
                                       !.wobj[x] = o], s, x))
GetWeakRefVal(r, s) == Val(r) \in Weaks /\ Step(Put(heap, s, heap.wobj[Val(r)]))

CollectGarbage == Step(Collected(heap))

ResurrectUnreachable(r) ==
  \E a \in Fresh(Arrays, limit.arrays) :
    LET g == Resurrected(heap, a)
    IN  Step(Put(g, r, IF a \in g.alive THEN a ELSE Null))

\* sq_close
Close ==
  LET d == Dismantled(heap)
  IN  /\ ~closed
      /\ theory' = (d.gc = Null)
      /\ heap' = DestroyChain(d)
      /\ closed' = TRUE
      /\ UNCHANGED limit

HeapNext ==
  \/ \E r \in Regs : NewTable(r) \/ NewThread(r) \/ LoadNull(r)
  \/ \E r, s \in Regs : Move(r, s)
  \/ \E r, s \in Regs, i \in 1 .. NFields : SetField(r, i, s) \/ GetField(r, i, s)
  \/ \E r, s \in Regs : MakeClosure(r, s) \/ GetOuter(r, s) \/ SetOuter(r, s)
  \/ \E r \in Regs : CloseScope(r) \/ LeaveFrame(r)
  \/ \E r, s \in Regs : WeakRef(r, s) \/ GetWeakRefVal(r, s)
  \/ CollectGarbage
  \/ \E r \in Regs : ResurrectUnreachable(r)
  \/ Close

HeapSpec == HeapInit /\ [][HeapNext]_hvars
-----------------------------------------------------------------------------
(***************************************************************************)
(* Properties                                                              *)
(***************************************************************************)

\* References to o: slots, lists of open outers, and the shared state.
Holders(o) == {x \in Obj \X (1 .. NFields + NLocals + 9) :
                 x[2] \in DOMAIN heap.fld[x[1]] /\ heap.fld[x[1]][x[2]] = o}
OpenIn(o) == {v \in VMs : o \in Range(heap.open[v])}

\* The count of every living object is the number of references to it, and
\* no living object refers to a dead one: after any cascade of releases and
\* any collection.
RefCountsExact ==
  ~closed =>
    /\ \A o \in heap.alive :
         heap.ref[o] = Cardinality(Holders(o)) + Cardinality(OpenIn(o))
                         + (IF o \in {Root, Delegate} THEN 1 ELSE 0)
    /\ \A o \in RefCounted \ heap.alive : Holders(o) = {} /\ OpenIn(o) = {}

\* No operation touches an object that has been freed, and no open outer
\* points into the stack of a VM that is gone.
NoUseAfterFree ==
  /\ ~heap.bad
  /\ \A u \in Outers \cap heap.alive :
       heap.valptr[u] # Closed => heap.valptr[u][1] \in heap.alive

\* An object and its weak reference point to each other, and the weak
\* reference of a dead object is null.
WeakRefsSound ==
  /\ \A w \in Weaks : heap.wobj[w] # Null =>
       {w, heap.wobj[w]} \subseteq heap.alive /\ heap.weakref[heap.wobj[w]] = w
  /\ \A o \in Obj : heap.weakref[o] # Null => heap.wobj[heap.weakref[o]] = o

\* Whether a behaviour can capture variables, or run threads.
Captures == limit.closures > 0
Parallel == limit.threads > 0

\* Every living collectable object is on the chain, linked both ways, so that
\* a later collection will see it; nothing stays marked.  (Where variables are
\* captured it fails: a collection loses an open outer whose closure is gone.)
ChainComplete ==
  ~Captures =>
  /\ ToSet(ChainFrom(heap, heap.gc)) = heap.alive \cap Obj
  /\ \A o \in Obj : heap.next[o] # Null => heap.prev[heap.next[o]] = o
  /\ heap.gc # Null => heap.prev[heap.gc] = Null
  /\ heap.marked = {} /\ heap.tchain = Null

\* What a program can still reach: through slots, and through the outers of
\* its closures, open or closed.
Content(h, o) ==
  IF o \in Outers /\ h.valptr[o] # Closed
    THEN <<h.fld[h.valptr[o][1]][h.valptr[o][2]]>> ELSE h.fld[o]

RECURSIVE ReachFrom(_, _)
ReachFrom(h, S) ==
  LET T == S \cup (UNION {Range(Content(h, o)) : o \in S} \cap Obj)
  IN  IF T = S THEN S ELSE ReachFrom(h, T)
Reachable == ReachFrom(heap, {Root, Delegate})

\* Whenever it runs, a collection leaves everything reachable alive and as
\* it was, and frees all the rest.  With threads it does neither: what an open
\* outer refers to in the stack of an unreachable thread is finalized with that
\* thread; and the list of open outers keeps the outers of dead closures.
CollectExact ==
  (~closed /\ ~Parallel) =>
    LET g == Collected(heap)
    IN  /\ \A o \in Reachable : o \in g.alive /\ Content(g, o) = Content(heap, o)
        /\ ~Captures => g.alive \cap Obj = Reachable

\* The end of a block or of a call changes no captured variable: a closure
\* reads through its outer what it read before.
ClosingKeepsValues ==
  [][\A u \in Outers \cap heap.alive \cap heap'.alive :
       \/ Content(heap', u) = Content(heap, u)
       \/ \A r \in Regs : ~(CloseScope(r) \/ LeaveFrame(r))]_hvars

\* Whenever it runs, a resurrection frees and changes nothing and makes
\* every unreachable object reachable from the array it returns.
ResurrectRestores ==
  (~closed /\ ~Captures) => \A a \in Fresh(Arrays, limit.arrays) :
    LET g == Resurrected(heap, a)
    IN  /\ \A o \in heap.alive \cap Obj : o \in g.alive /\ g.fld[o] = heap.fld[o]
        /\ (heap.alive \cap Obj) \ (Reachable \cup Outers)
              \subseteq ReachFrom(g, {a}) 

\* Deleting the shared state frees every object, and the chain is empty
\* before the loop of last resort, where no variable was captured.
CloseFreesAll == (closed /\ ~Captures) => heap.alive \cap Obj = {} /\ theory

\* sqstate.cpp:209: the chain is empty when the shared state is deleted:
\* assert(_gc_chain==NULL); //just to proove a theory
TheoryHolds == theory
=============================================================================
