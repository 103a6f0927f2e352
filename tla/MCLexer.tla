------------------------------ MODULE MCLexer ------------------------------
(* Every short text over four alphabets: punctuation, words and numbers,  *)
(* comments, and strings.                                                 *)
EXTENDS Lexer

Over(alphabet, n) == UNION {[1 .. k -> alphabet] : k \in 0 .. n}
MCSources ==
  Over({"<", "=", ">", "/", ".", "-", "|", "$", " "}, 4)
  \cup Over({"0", "1", "9", "x", "e", ".", "-", "i", "n", " "}, 4)
  \cup Over({"/", "*", NL, "a", "#"}, 5) \cup Over({"@", "\"", "'", "\\", "n", NL}, 4)
  \cup {<<"\"", "\\", "x">> \o s \o <<"\"">> : s \in Over({"1", "a"}, 5)}
  \cup {<<"0", "x">> \o [k \in 1 .. n |-> "1"] : n \in 8 .. 9}
=============================================================================
