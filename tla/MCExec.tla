------------------------------- MODULE MCExec -------------------------------
\* Instances of Exec for TLC.
EXTENDS Exec, TLC

CONSTANTS g1, g2
MCGens == {g1, g2}

\* Two generators without yields in try blocks, and one with them.
MCModes ==
  {[gens |-> {g1, g2}, features |-> {"foreach", "hostResume", "callSuspended"},
    native |-> 4, frames |-> 4, nested |-> 2],
   [gens |-> {g1}, features |-> {"yieldInTry"}, native |-> 3, frames |-> 3, nested |-> 1]}

\* Two generators, both of which may yield inside a try block.
MCYieldInTry ==
  {[gens |-> {g1, g2}, features |-> {"yieldInTry"}, native |-> 4, frames |-> 4, nested |-> 1]}

\* Traps that lead to a wrong base let _stackbase drift without bound.
BaseBound == stackbase \in -1 .. 6
=============================================================================
