------------------------------ MODULE Bytecode ------------------------------
(***************************************************************************)
(* Compiled functions as a stream: SQClosure::Save and Load. The stream is *)
(* the sequence of what the write function is called with, each item a     *)
(* pair of its kind and its value. Names, and the tables with the          *)
(* positions of lines and locals, travel the same way and are left out.    *)
(*                                                                         *)
(* protos is the program, nested functions before the function they are    *)
(* in and the main function last.                                          *)
(***************************************************************************)
EXTENDS Integers, Sequences, SequencesExt

HEAD == <<"tag", "HEAD">>
PART == <<"tag", "PART">>
TAIL == <<"tag", "TAIL">>
BYTECODE == <<"tag", "BYTECODE">>
Sizes(build) == [i \in DOMAIN build |-> <<"tag", build[i]>>]

\* The sizes of SQChar, SQInteger and SQFloat in the builds of the program.
Builds == {<<1, 4, 4>>, <<1, 8, 4>>}

Items(kind, s) == [i \in DOMAIN s |-> <<kind, s[i]>>]

RECURSIVE SaveProto(_, _)
SaveProto(protos, n) ==
  LET p == protos[n]
      Counts == <<Len(p.literals), p.params, Len(p.outervalues), Len(p.defaults), Len(p.ins), Len(p.functions)>>
      Nested == FoldLeft(LAMBDA out, f : out \o SaveProto(protos, f), <<>>, p.functions)
  IN <<PART>> \o Items("count", Counts)
     \o <<PART>> \o Items("object", p.literals)
     \o <<PART>> \o Items("outer", p.outervalues)
     \o <<PART>> \o Items("default", p.defaults)
     \o <<PART>> \o Items("instruction", p.ins)
     \o <<PART>> \o Nested
     \o <<<<"size", p.stacksize>>, <<"flag", p.varparams>>>>

\* sq_writeclosure: nothing is written of a function with captured variables.
Saveable(protos) == Last(protos).outervalues = <<>>
Save(protos, build) ==
  <<BYTECODE, HEAD>> \o Sizes(build) \o SaveProto(protos, Len(protos)) \o <<TAIL>>

----------------------------------------------------------------------------
(* Reading: r is the place in the stream s, what was read last, whether    *)
(* everything went well so far, and the functions loaded.                  *)

Read(s, r, n) ==
  IF r.ok /\ r.at + n <= Len(s) THEN [r EXCEPT !.at = @ + n, !.got = [i \in 1 .. n |-> s[r.at + i][2]]]
  ELSE [r EXCEPT !.ok = FALSE, !.got = <<>>]

\* (wrong on purpose) a tag is read but not compared.
SkipTag(s, r, tag) ==
  IF r.ok /\ r.at < Len(s) THEN [r EXCEPT !.at = @ + 1] ELSE [r EXCEPT !.ok = FALSE]

CheckTag(s, r, tag) ==
  IF r.ok /\ r.at < Len(s) /\ s[r.at + 1] = tag THEN [r EXCEPT !.at = @ + 1] ELSE [r EXCEPT !.ok = FALSE]

RECURSIVE LoadProto(_, _), LoadNested(_, _, _, _)
\* n functions one after the other; their numbers are collected.
LoadNested(s, r, n, numbers) ==
  LET f == LoadProto(s, r)
  IN IF n = 0 \/ ~r.ok THEN [r EXCEPT !.got = numbers]
     ELSE LoadNested(s, f, n - 1, Append(numbers, Len(f.protos)))

LoadProto(s, r) ==
  LET counts == Read(s, CheckTag(s, r, PART), 6)
      n == counts.got
      literals == Read(s, CheckTag(s, counts, PART), n[1])
      outers == Read(s, CheckTag(s, literals, PART), n[3])
      defaults == Read(s, CheckTag(s, outers, PART), n[4])
      ins == Read(s, CheckTag(s, defaults, PART), n[5])
      nested == LoadNested(s, CheckTag(s, ins, PART), n[6], <<>>)
      rest == Read(s, nested, 2)
  IN IF ~counts.ok THEN counts
     ELSE IF ~rest.ok THEN rest
     ELSE [rest EXCEPT !.protos = Append(@,
            [ins |-> ins.got, literals |-> literals.got, functions |-> nested.got, outervalues |-> outers.got,
             params |-> n[2], defaults |-> defaults.got, varparams |-> rest.got[2], stacksize |-> rest.got[1],
             pending |-> 0])]

\* sq_readclosure: no functions at all if anything is missing or wrong.
Load(s, build) ==
  LET r == [at |-> 0, got |-> <<>>, ok |-> TRUE, protos |-> <<>>]
      head == FoldLeft(LAMBDA x, tag : CheckTag(s, x, tag), r, <<BYTECODE, HEAD>> \o Sizes(build))
      tail == CheckTag(s, LoadProto(s, head), TAIL)
  IN IF tail.ok THEN tail.protos ELSE <<>>
=============================================================================
