----------------------------- MODULE TableForeach -----------------------------
(***************************************************************************)
(* foreach over a table: FOREACH_OP (sqvm.cpp) calls SQTable::Next with    *)
(* the index it returned last, and the loop body may change the table      *)
(* between two calls.  The index is a position in the node array, which a  *)
(* removal may reallocate and an insertion may rearrange.                  *)
(***************************************************************************)
EXTENDS SqTable

CONSTANT Uses       \* how a table is used: [keys, vals, loops]; outside loops
                    \* a value is at one node only, see OneOddValue

ASSUME UsesAssumption ==
  \A u \in Uses : u.keys \subseteq Keys /\ u.vals \subseteq Vals /\ u.loops \in BOOLEAN

VARIABLES use,      \* the member of Uses that this behaviour keeps to
          cursor,   \* o4, the index the next call starts from; NoLoop outside a loop
          seen,     \* the keys the loop body has run for
          twice,    \* the body has run for one of them more than once
          intact    \* since the loop began the array has neither been
                    \* reallocated nor received a new slot

loop  == <<cursor, seen, twice, intact>>
fvars == <<tbl, ret, use, loop>>

NoLoop == -1

FInit == /\ TInit
         /\ use \in Uses
         /\ cursor = NoLoop
         /\ seen = {}
         /\ twice = FALSE
         /\ intact = TRUE

\* The loop variable starts as null, which TranslateIndex reads as 0.
ForeachBegin == /\ use.loops /\ cursor = NoLoop
                /\ cursor' = 0
                /\ UNCHANGED <<tvars, use, seen, twice, intact>>

\* (wrong on purpose) the index is not moved past the node it reports.
ForeachStepStays ==
  /\ cursor # NoLoop
  /\ LET n == NextNode(tbl, cursor) IN
       \/ /\ n # NoNode
          /\ cursor' = n
          /\ seen' = seen \cup {tbl.key[n]}
          /\ twice' = (twice \/ tbl.key[n] \in seen)
          /\ UNCHANGED intact
       \/ /\ n = NoNode
          /\ cursor' = NoLoop
          /\ seen' = {}
          /\ twice' = FALSE
          /\ intact' = TRUE
  /\ UNCHANGED <<tvars, use>>

\* One _OP_FOREACH: run the body for the next occupied node, or leave.
ForeachStep ==
  /\ cursor # NoLoop
  /\ LET n == NextNode(tbl, cursor) IN
       \/ /\ n # NoNode
          /\ cursor' = n + 1
          /\ seen' = seen \cup {tbl.key[n]}
          /\ twice' = (twice \/ tbl.key[n] \in seen)
          /\ UNCHANGED intact
       \/ /\ n = NoNode
          /\ cursor' = NoLoop
          /\ seen' = {}
          /\ twice' = FALSE
          /\ intact' = TRUE
  /\ UNCHANGED <<tvars, use>>

\* Operations treat all values alike: a value that is lost or mixed up is
\* seen with a single node that differs from the others.
OneOddValue ==
  \/ Cardinality(use.vals) = 1
  \/ \E v \in use.vals : Cardinality({n \in Nodes(tbl') : tbl'.val[n] = v}) =< 1

\* What the loop body (or the code outside a loop) does to the table.
Body ==
  /\ \/ \E k \in use.keys, v \in use.vals : NewSlot(k, v)
     \/ \E k \in use.keys \cup {Null}, v \in use.vals : Set(k, v)
     \/ \E k \in use.keys : Remove(k)
  /\ OneOddValue
  /\ intact' = (\/ cursor = NoLoop
                \/ /\ intact
                   /\ tbl'.numofnodes = tbl.numofnodes
                   /\ tbl'.usednodes =< tbl.usednodes)
  /\ UNCHANGED <<use, cursor, seen, twice>>

ClearInBody == /\ Clear
               /\ intact' = (cursor = NoLoop)
               /\ UNCHANGED <<use, cursor, seen, twice>>

\* A foreach goes on with the table it began with.
CloneOutside == /\ cursor = NoLoop
                /\ Clone
                /\ UNCHANGED <<use, loop>>

FNext == ForeachBegin \/ ForeachStep \/ Body \/ ClearInBody \/ CloneOutside

FSpec == FInit /\ [][FNext]_fvars /\ WF_fvars(ForeachStep)
-----------------------------------------------------------------------------
\* A loop whose body only overwrites or removes slots, without a
\* reallocation, runs once for every slot that is left when it ends, and
\* never twice for a key.
ForeachVisitsEachSlot ==
  [][(cursor # NoLoop /\ cursor' = NoLoop /\ intact) =>
       Stored \subseteq seen /\ ~twice]_fvars

\* Whatever the body does, a foreach ends: the index only grows and the node
\* array is bounded by the number of keys.
ForeachEnds == (cursor # NoLoop) ~> (cursor = NoLoop)
=============================================================================
