---------------------------- MODULE StringTable ----------------------------
(***************************************************************************)
(* The table of interned strings (struct SQStringTable). Equal texts share *)
(* one string, so the machine compares strings, and looks up slots, by     *)
(* address. The table owns nothing: a string leaves it, and is freed, when *)
(* its last reference goes.                                                *)
(*                                                                         *)
(*   strings   the strings that exist, by address, with text and _uiRef    *)
(*   slots     _strings: the chain of every slot; the order that _next     *)
(*             gives a chain shows nowhere, so a chain is a set            *)
(*   slotused  _slotused                                                   *)
(***************************************************************************)
EXTENDS Integers, Sequences, FiniteSets

CONSTANTS Texts,            \* what strings say
          Addresses,        \* where strings can be
          Hash,             \* _hashstr of every text
          MaxRefs           \* bound on the references to one string

ASSUME HashAssumption == Hash \in [Texts -> Nat]
ASSUME MaxRefsAssumption == MaxRefs \in Nat \ {0}

VARIABLES strings, slots, slotused
vars == <<strings, slots, slotused>>

Live == DOMAIN strings
NumOfSlots == Len(slots)

\* Slots count from 1 here; the number of slots is a power of two, so the mask is a remainder.
SlotOf(text, n) == (Hash[text] % n) + 1

AllocNodes(n) == [h \in 1 .. n |-> {}]

Link(table, text, a) == [table EXCEPT ![SlotOf(text, Len(table))] = @ \cup {a}]

\* (wrong on purpose) the mask is that of the smaller table.
ResizeOldMask(texts, table, n) ==
  [h \in 1 .. n |-> {a \in UNION {table[i] : i \in DOMAIN table} : SlotOf(texts[a], Len(table)) = h}]

\* Resize: every string of the old chains moves to the chain of its slot under the new mask.
Resize(texts, table, n) ==
  [h \in 1 .. n |-> {a \in UNION {table[i] : i \in DOMAIN table} : SlotOf(texts[a], n) = h}]

Found(text) == {a \in slots[SlotOf(text, NumOfSlots)] : strings[a].text = text}

\* The string at a gets a reference more, or less.
Referenced(a, d) == [strings EXCEPT ![a].refs = @ + d]

\* Add, and the reference that the caller of SQString::Create takes: the string
\* that says so, or a new one, wherever the allocator puts it.
AddKnown(text) ==
  \E a \in Found(text) :
    /\ strings[a].refs < MaxRefs
    /\ strings' = Referenced(a, 1)
    /\ UNCHANGED <<slots, slotused>>

AddNew(text) ==
  /\ Found(text) = {}
  /\ \E a \in Addresses \ Live :
       LET texts == [x \in Live \cup {a} |-> IF x = a THEN text ELSE strings[x].text]
           table == Link(slots, text, a)
       IN  /\ strings' = [x \in Live \cup {a} |-> IF x = a THEN [text |-> text, refs |-> 1] ELSE strings[x]]
           /\ slotused' = slotused + 1
           /\ slots' = IF slotused + 1 > NumOfSlots THEN Resize(texts, table, NumOfSlots * 2) ELSE table

Add(text) == AddKnown(text) \/ AddNew(text)

\* Another SQObjectPtr to the string.
AddRef(a) ==
  /\ strings[a].refs < MaxRefs
  /\ strings' = Referenced(a, 1)
  /\ UNCHANGED <<slots, slotused>>

\* Remove: the string is looked for in its chain; it must be there.
Unlink(a) ==
  LET h == SlotOf(strings[a].text, NumOfSlots)
  IN IF a \in slots[h]
     THEN slots' = [slots EXCEPT ![h] = @ \ {a}] /\ slotused' = slotused - 1
     ELSE UNCHANGED <<slots, slotused>>

Release(a) ==
  IF strings[a].refs > 1
  THEN strings' = Referenced(a, -1) /\ UNCHANGED <<slots, slotused>>
  ELSE strings' = [x \in Live \ {a} |-> strings[x]] /\ Unlink(a)

Init ==
  /\ strings = [x \in {} |-> [text |-> "", refs |-> 0]]
  /\ slots = AllocNodes(4)
  /\ slotused = 0

Next ==
  \/ \E t \in Texts : Add(t)
  \/ \E a \in Live : AddRef(a) \/ Release(a)

Spec == Init /\ [][Next]_vars
----------------------------------------------------------------------------
(* Properties.                                                             *)

\* A text is interned once, however often the table was enlarged and strings came and went:
\* comparing addresses is comparing texts.  The chains hold the strings that exist and no freed
\* one, each in the slot where Add and Remove look for it (the assert(0) of Remove is not
\* reached); _slotused counts them, and there are never more strings than slots.
InternedOnce ==
  /\ \A a, b \in Live : strings[a].text = strings[b].text => a = b
  /\ \A h \in DOMAIN slots : slots[h] = {a \in Live : SlotOf(strings[a].text, NumOfSlots) = h}
  /\ slotused = Cardinality(Live) /\ slotused <= NumOfSlots
=============================================================================
