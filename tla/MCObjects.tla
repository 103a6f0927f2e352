----------------------------- MODULE MCObjects -----------------------------
(* One ordinary key and one metamethod (or the constructor, or a key of    *)
(* the default delegate) at a time, with the outcomes that its callers     *)
(* tell apart, and two starting points: tables that delegate to each       *)
(* other, and a class with a field and a class derived from it.            *)
EXTENDS Objects

Delegating(d) == [NewTable EXCEPT !.delegate = d]
WithField == [NewClass(<<>>, 0) EXCEPT !.members = [k \in {"a"} |-> [field |-> TRUE, idx |-> 1]],
                                       !.defaults = <<Member(Num(1))>>]
TableHeap == <<NewTable, Delegating(1), Delegating(2)>>
ClassHeap == <<NewTable, WithField, NewClass([heap |-> <<NewTable, WithField>>], 2)>>

MCSettings ==
  LET Each(heap, mms, outcomes) == {[keys |-> {"a", mm}, does |-> d, heap |-> heap] : mm \in mms, d \in outcomes}
      OfTables == Each(TableHeap, {"_cmp", "_newslot", "len"}, {"int"})
                  \cup Each(TableHeap, {"_eq", "_delslot", "_tostring"}, {"throw"})
      OfClasses == Each(ClassHeap, {"constructor", "_newmember", "_unm", "_typeof"}, {"int"})
                   \cup Each(ClassHeap, {"_cmp", "_cloned", "_newmember", "_add"}, {"throw"})
                   \cup Each(ClassHeap, {"_eq"}, {"bool"})
  IN Each(TableHeap, {"_get", "_set"}, {"int", "throw", "decline"})
     \cup Each(ClassHeap, {"_get", "_set"}, {"int", "decline"}) \cup OfTables \cup OfClasses
=============================================================================
