------------------------------ MODULE HostRefs ------------------------------
(***************************************************************************)
(* What the reference table of the shared state promises the host          *)
(* application: a strong reference count per object, driven by sq_addref,  *)
(* sq_release and sq_getrefcount.  There are no nodes, no hash chains and  *)
(* no growth here; RefTable is shown to implement this module.             *)
(***************************************************************************)
EXTENDS Naturals

CONSTANTS Objs,     \* the reference-counted objects the host has handles to
          MaxRefs   \* bound on the references the host holds to one object

VARIABLES count,    \* count[o]: references the host holds to o
          answer    \* what the last sq_release or sq_getrefcount returned

hostVars == <<count, answer>>

SQTrue  == 1
SQFalse == 0

HInit == /\ count = [o \in Objs |-> 0]
         /\ answer = SQFalse

HAddRef(o) == /\ count[o] < MaxRefs
              /\ count' = [count EXCEPT ![o] = count[o] + 1]
              /\ UNCHANGED answer

\* The host releases only what it holds; the answer tells whether that was
\* the last reference.
HRelease(o) == /\ count[o] > 0
               /\ count' = [count EXCEPT ![o] = count[o] - 1]
               /\ answer' = IF count[o] = 1 THEN SQTrue ELSE SQFalse

\* Asking for the count changes no count.
HGetRefCount(o) == /\ answer' = count[o]
                   /\ UNCHANGED count

HFinalize == /\ count' = [o \in Objs |-> 0]
             /\ UNCHANGED answer

HNext == \/ \E o \in Objs : HAddRef(o) \/ HRelease(o) \/ HGetRefCount(o)
         \/ HFinalize

HSpec == HInit /\ [][HNext]_hostVars
=============================================================================
