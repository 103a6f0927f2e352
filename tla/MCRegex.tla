------------------------------ MODULE MCRegex ------------------------------
(* Every short pattern over a few symbols, and longer ones on purpose.     *)
EXTENDS Regex

Symbols == {"a", "b", "(", ")", "|", "*", "?", "^", "$"}
Short == UNION {[1 .. n -> Symbols] : n \in 1 .. 4}

Longer ==
  {<<"(", "a", "|", "b", ")", "*", "a">>, <<"a", "*", "(", "b", ")">>, <<"(", "a", "*", "b", ")", "+">>,
   <<"(", "a", "(", "b", ")", ")", "+", "b">>, <<"[", "a", "-", "b", "]", "+", "c">>, <<"[", "^", "a", "]", "b">>,
   <<"a", "{", "1", "}", "b">>, <<"a", "{", "1", ",", "}">>, <<"b", "{", "0", ",", "1", "}", "a">>,
   <<"(", "?", ":", "a", ")", "b">>, <<"b", "|", "(", "a", ")">>, <<"\\", "w", "+", "b">>, <<"\\", "D", "a">>,
   <<"\\", "b", "a">>, <<"(", "a", "|", "a", "b", ")", "b", "*">>, <<"[", "a", "]">>, <<"a", "{", "}">>,
   <<"[", "b", "-", "a", "]">>, <<"(", "a", "*", ")", "*", "b">>, <<"(", "a", "?", "b", "?", ")", "+", "$">>,
   <<".", "*", "b">>, <<"(", "a", ".", ")">>, <<".", "?", "$">>, <<"[", "b", "a", "\\", "w", "]">>, <<"(", "a", ")", "(", "b", ")", "?", "(", "a", ")">>}

\* Captures left behind by a branch that failed, a look-ahead, an attempt further to the left or
\* an earlier call; and captures that are taken anew each time.
Leftovers ==
  {<<"(", "a", "b", ")", "a", "|", "a">>, <<"(", "?", ":", "(", "a", "b", ")", "b", ")", "?", "a">>,
   <<"a", "{", "2", "}", "(", "a", ")">>, <<"(", "?", ":", "a", "|", "(", "b", ")", ")", "(", "a", ")">>,
   <<"(", "a", ")", "b", "|", "(", "b", ")", "a">>, <<"(", "a", ")", "(", "b", ")">>,
   <<"(", "(", "a", ")", "b", ")">>, <<"a", "*", "(", "a", "b", ")", "b">>,
   <<"^", "(", "a", ")", "a", "|", "b">>}

\* Numbers of several digits: one that loses its high bits, the longest one, one too many.
Times(n) == <<"(", "b", ")", "a", "{">> \o n \o <<"}">>
Ones(n) == [k \in 1 .. n |-> "1"]
Counts == {Times(<<"1", "0">>), Times(<<"0", ",", "1", "0">>), Times(Ones(9)), Times(Ones(10)),
           Times(<<"0", ",">> \o Ones(10))}

MCPatterns == Short \cup Longer \cup Leftovers \cup Counts
MCCalls == [pattern \in MCPatterns |-> IF pattern \in Short THEN 1 ELSE 2]
MCTexts == UNION {[1 .. n -> {"a", "b"}] : n \in 0 .. 3} \cup {<<"a", "b", "b", "a">>, <<"a", " ", "b">>, <<"1", "a", "c">>}
=============================================================================
