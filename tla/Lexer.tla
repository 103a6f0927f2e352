------------------------------- MODULE Lexer -------------------------------
(***************************************************************************)
(* SQLexer: the characters of a source text become tokens, one Lex() call  *)
(* at a time. The compiler reads two more things from the lexer: the line  *)
(* it is on, and the previous token, which is a newline where a statement  *)
(* may end without a semicolon.                                            *)
(*                                                                         *)
(* A character is a string of length one, "NL" is the newline and "EOB"    *)
(* the end of the text. A token is its kind and the characters it spans.   *)
(***************************************************************************)
EXTENDS Integers, Sequences, SequencesExt, FiniteSets, FiniteSetsExt

CONSTANT Sources            \* the texts of the instance

VARIABLES src,              \* the text the read function delivers
          lex,              \* the lexer
          tokens            \* what Lex() has returned so far
vars == <<src, lex, tokens>>

EOB == "EOB"
NL == "NL"
IsDigit(c) == c \in {"0", "1", "7", "9"}
IsOctal(c) == c \in {"0", "1", "7"}
IsHex(c) == IsDigit(c) \/ c \in {"a", "e"}
IsAlpha(c) == c \in {"a", "e", "i", "n", "s", "x"}
MaxHexDigits == 8           \* two per byte of an SQInteger of 32 bits
MaxEscapeDigits == 4

Keywords == {<<"i", "n">>, <<"a", "s">>, <<"i", "s">>}

\* The tokens made of punctuation; the longest one that fits is taken.
Operators ==
  {<<"/">>, <<"/", "=">>, <<"/", ">">>, <<"=">>, <<"=", "=">>, <<"<">>, <<"<", "=">>, <<"<", "=", ">">>,
   <<"<", "-">>, <<"<", "<">>, <<"<", "/">>, <<"<", "|">>, <<">">>, <<">", "=">>, <<">", ">">>,
   <<">", ">", ">">>, <<"!">>, <<"!", "=">>, <<"@">>, <<".">>, <<".", ".", ".">>, <<"&">>, <<"&", "&">>,
   <<"|">>, <<"|", ">">>, <<"|", "|">>, <<":">>, <<":", ":">>, <<"*">>, <<"*", "=">>, <<"%">>, <<"%", "=">>,
   <<"-">>, <<"-", "=">>, <<"-", "-">>, <<"+">>, <<"+", "=">>, <<"+", "+">>}

Single == {"{", "}", "(", ")", "[", "]", ";", ",", "?", "^", "~"}

----------------------------------------------------------------------------
(* Reading. x is the lexer: at, the characters delivered before CUR_CHAR,  *)
(* and line. Error is the compiler's longjmp: nothing follows it.          *)

Cur(x) == IF x.at < Len(x.src) THEN x.src[x.at + 1] ELSE EOB
NEXT(x) == [x EXCEPT !.at = IF @ < Len(x.src) THEN @ + 1 ELSE @]
Error(x) == [x EXCEPT !.err = TRUE]
NewLine(x) == [x EXCEPT !.line = @ + 1]

\* (wrong on purpose) the lines of a comment are not counted.
RECURSIVE LexBlockCommentAsLine(_)
LexBlockCommentAsLine(x) ==
  CASE Cur(x) = EOB -> Error(x)
    [] Cur(x) = "*" /\ Cur(NEXT(x)) = "/" -> NEXT(NEXT(x))
    [] OTHER -> LexBlockCommentAsLine(NEXT(x))

RECURSIVE LexBlockComment(_)
LexBlockComment(x) ==
  CASE Cur(x) = EOB -> Error(x)
    [] Cur(x) = "*" -> IF Cur(NEXT(x)) = "/" THEN NEXT(NEXT(x)) ELSE LexBlockComment(NEXT(x))
    [] Cur(x) = NL -> LexBlockComment(NEXT(NewLine(x)))
    [] OTHER -> LexBlockComment(NEXT(x))

RECURSIVE LexLineComment(_)
LexLineComment(x) ==
  LET n == NEXT(x) IN IF Cur(n) \in {NL, EOB} THEN n ELSE LexLineComment(n)

\* At most n more characters of a set.
RECURSIVE Skip(_, _, _)
Skip(x, Ok(_), n) == IF n = 0 \/ ~Ok(Cur(x)) THEN x ELSE Skip(NEXT(x), Ok, n - 1)

Escapes == {"n", "a", "0", "\\", "\"", "'"}
Escape(x) ==
  LET e == NEXT(x)
  IN CASE Cur(e) = "x" -> IF IsHex(Cur(NEXT(e))) THEN Skip(NEXT(e), IsHex, MaxEscapeDigits) ELSE Error(e)
       [] Cur(e) \in Escapes -> NEXT(e)
       [] OTHER -> Error(e)

\* The characters up to the delimiter; len counts those of the value.
RECURSIVE StringBody(_, _, _, _)
StringBody(x, delim, verbatim, len) ==
  LET c == Cur(x)
      e == Escape(x)
      n == NEXT(x)
  IN CASE x.err \/ c = EOB -> [x |-> Error(x), len |-> len]
       [] c = delim /\ ~x.err ->
            IF verbatim /\ Cur(n) = "\"" THEN StringBody(NEXT(n), delim, verbatim, len + 1)
            ELSE [x |-> n, len |-> len]
       [] c = NL /\ ~x.err ->
            IF verbatim THEN StringBody(NewLine(n), delim, verbatim, len + 1)
            ELSE [x |-> Error(x), len |-> len]
       [] c = "\\" /\ ~verbatim /\ ~x.err -> StringBody(e, delim, verbatim, len + 1)
       [] OTHER -> StringBody(n, delim, verbatim, len + 1)

\* A character constant is an integer, and has exactly one character.
ReadString(x, delim, verbatim) ==
  LET s == StringBody(NEXT(x), delim, verbatim, 0)
  IN IF delim = "'" /\ s.len # 1 THEN [x |-> Error(s.x), kind |-> "integer"]
     ELSE [x |-> s.x, kind |-> IF delim = "'" THEN "integer" ELSE "string"]

\* Digits, dots and exponents, in any number.
RECURSIVE Decimal(_, _)
Decimal(x, kind) ==
  LET c == Cur(x)
      s == IF Cur(NEXT(x)) \in {"+", "-"} THEN NEXT(NEXT(x)) ELSE NEXT(x)
  IN CASE c = "e" -> IF IsDigit(Cur(s)) THEN Decimal(NEXT(s), "float") ELSE [x |-> Error(s), kind |-> kind]
       [] c = "." -> Decimal(NEXT(x), "float")
       [] IsDigit(c) -> Decimal(NEXT(x), kind)
       [] OTHER -> [x |-> x, kind |-> kind]

ReadNumber(x) ==
  LET n == NEXT(x)
      o == Skip(n, IsOctal, Len(x.src))
      h == Skip(NEXT(n), IsHex, Len(x.src))
  IN CASE Cur(x) = "0" /\ IsOctal(Cur(n)) -> [x |-> IF IsDigit(Cur(o)) THEN Error(o) ELSE o, kind |-> "integer"]
       [] Cur(x) = "0" /\ Cur(n) = "x" ->
            [x |-> IF h.at - n.at - 1 > MaxHexDigits THEN Error(h) ELSE h, kind |-> "integer"]
       [] OTHER -> Decimal(n, "integer")

\* (wrong on purpose) one character too many is taken.
ReadIDPast(x) ==
  LET n == Skip(x, LAMBDA c : IsAlpha(c) \/ IsDigit(c) \/ c = "_", Len(x.src))
  IN [x |-> NEXT(n), kind |-> "identifier"]

ReadID(x) ==
  LET n == Skip(x, LAMBDA c : IsAlpha(c) \/ IsDigit(c) \/ c = "_", Len(x.src))
      s == SubSeq(x.src, x.at + 1, n.at)
  IN [x |-> n, kind |-> IF s \in Keywords THEN "keyword" ELSE "identifier"]

LongestOperator(x) ==
  LET rest == SubSeq(x.src, x.at + 1, Len(x.src))
      fits == {o \in Operators : IsPrefix(o, rest)}
  IN CHOOSE o \in fits : \A p \in fits : Len(p) <= Len(o)

Operator(x) ==
  LET o == LongestOperator(x)
      n == [x EXCEPT !.at = @ + Len(o)]
  IN [x |-> IF o = <<".">> /\ Cur(n) = "." THEN Error(n) ELSE n, kind |-> "operator"]

Token(x) ==
  LET c == Cur(x)
  IN CASE c \in {"\"", "'"} -> ReadString(x, c, FALSE)
       [] c = "@" /\ Cur(NEXT(x)) = "\"" -> ReadString(NEXT(x), "\"", TRUE)
       [] c \in Single -> [x |-> NEXT(x), kind |-> "operator"]
       [] IsDigit(c) -> ReadNumber(x)
       [] IsAlpha(c) \/ c = "_" -> ReadID(x)
       [] \E o \in Operators : o[1] = c /\ ~(c = "@" /\ Cur(NEXT(x)) = "\"") -> Operator(x)
       [] OTHER -> [x |-> NEXT(x), kind |-> "operator"]

\* White space, newlines and comments before a token.
RECURSIVE SkipBlanks(_)
SkipBlanks(x) ==
  LET c == Cur(x)
      n == NEXT(x)
  IN CASE x.err -> x
       [] ~x.err /\ c = " " -> SkipBlanks(n)
       [] ~x.err /\ c = NL -> SkipBlanks([NewLine(n) EXCEPT !.prevtoken = x.curtoken, !.curtoken = NL])
       [] ~x.err /\ c = "#" -> SkipBlanks(LexLineComment(x))
       [] ~x.err /\ c = "/" /\ Cur(n) = "*" -> SkipBlanks(LexBlockComment(NEXT(n)))
       [] ~x.err /\ c = "/" /\ Cur(n) = "/" -> SkipBlanks(LexLineComment(n))
       [] OTHER -> x

----------------------------------------------------------------------------
Start(s) ==
  [src |-> s, at |-> 0, line |-> 1, lasttokenline |-> 1, curtoken |-> "none", prevtoken |-> "none",
   err |-> FALSE, eob |-> FALSE]

Init ==
  /\ src \in Sources
  /\ lex = Start(src)
  /\ tokens = <<>>

\* Lex(): the state of the lexer after it, and the token, if there is one.
Lexed(x0) ==
  LET x == [x0 EXCEPT !.lasttokenline = x0.line]
      b == SkipBlanks(x)
      t == Token(b)
  IN IF b.err THEN [x |-> b, tok |-> <<>>]
     ELSE IF Cur(b) = EOB THEN [x |-> [b EXCEPT !.eob = TRUE], tok |-> <<>>]
     ELSE [x |-> [t.x EXCEPT !.prevtoken = b.curtoken, !.curtoken = t.kind],
           tok |-> IF t.x.err THEN <<>> ELSE <<[kind |-> t.kind, from |-> b.at, to |-> t.x.at]>>]

Lex ==
  /\ ~lex.err /\ ~lex.eob
  /\ lex' = Lexed(lex).x
  /\ tokens' = tokens \o Lexed(lex).tok
  /\ UNCHANGED src

\* The compiler has seen the end of the text, or an error.
Stop ==
  /\ lex.err \/ lex.eob
  /\ UNCHANGED vars

Next == Lex \/ Stop

Spec == Init /\ [][Next]_vars

----------------------------------------------------------------------------
(* Properties.                                                             *)

Spelling(t) == SubSeq(src, t.from + 1, t.to)

RECURSIVE AllTokens(_, _)
AllTokens(x, found) ==
  LET r == Lexed(x) IN IF r.x.err \/ r.x.eob THEN found ELSE AllTokens(r.x, found \o r.tok)

Spellings(ts, s) == [k \in DOMAIN ts |-> <<ts[k].kind, SubSeq(s, ts[k].from + 1, ts[k].to)>>]

\* A token does not depend on what stands around it: writing the tokens of a text with a
\* blank between them gives the same tokens again (the longest operator was taken, a number
\* ended where it should, a comment or string closed at its own end).
TokensStandAlone ==
  lex.eob =>
    LET spaced == FoldLeft(LAMBDA s, t : s \o Spelling(t) \o <<" ">>, <<>>, tokens)
    IN Spellings(AllTokens(Start(spaced), <<>>), spaced) = Spellings(tokens, src)

Newlines(from, to) == Cardinality({k \in from + 1 .. to : src[k] = NL})

\* Whether a newline outside comments stands between two places of the text.
RECURSIVE OutsideComment(_, _)
OutsideComment(i, to) ==
  LET closers == {k \in i + 2 .. to - 1 : src[k + 1] = "/" /\ src[k] = "*" /\ k > i + 2}
      eol == {k \in i .. to - 1 : src[k + 1] = NL}
  IN CASE i >= to -> FALSE
       [] i < to /\ src[i + 1] = NL -> TRUE
       [] i < to /\ src[i + 1] = "/" /\ src[i + 2] = "*" ->
            closers # {} /\ OutsideComment(Min(closers) + 1, to)
       [] i < to /\ (src[i + 1] = "#" \/ (src[i + 1] = "/" /\ src[i + 2] = "/")) -> eol # {}
       [] OTHER -> OutsideComment(i + 1, to)

\* No newline is missed, and none counts that is no separator: the line the lexer is on is the
\* number of newlines it has passed, in blanks, comments and verbatim strings alike; and a
\* statement may end before a token exactly where a newline outside comments separates it
\* from the token before (_prevtoken, which IsEndOfStatement reads).
NewlinesSeen ==
  /\ lex.line = 1 + Newlines(0, lex.at)
  /\ ~lex.err /\ ~lex.eob /\ tokens # <<>> =>
       LET n == Len(tokens)
           before == IF n = 1 THEN 0 ELSE tokens[n - 1].to
       IN (lex.prevtoken = NL) <=> OutsideComment(before, tokens[n].from)
=============================================================================
