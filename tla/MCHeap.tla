------------------------------- MODULE MCHeap -------------------------------
\* Instances of Heap for TLC.
EXTENDS Heap, TLC

AtMost(tables, closures, outers, threads, arrays, weaks) ==
  [tables |-> tables, closures |-> closures, outers |-> outers,
   threads |-> threads, arrays |-> arrays, weaks |-> weaks]

\* Cycles of tables with weak references, nested scopes, and threads.
MCLimits == {AtMost(3, 0, 0, 0, 1, 1), AtMost(1, 1, 2, 0, 0, 0),
             AtMost(0, 1, 2, 1, 0, 0)}

\* Two tables and one captured variable.
MCCapture == {AtMost(2, 1, 1, 0, 0, 0)}

Symmetry == Permutations(Tables) \cup Permutations(Closures) \cup Permutations(Outers)
              \cup Permutations(Weaks)
=============================================================================
