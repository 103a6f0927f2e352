------------------------------- MODULE Regex -------------------------------
(***************************************************************************)
(* The regular expressions of the standard library: the compiler from a    *)
(* pattern to a vector of nodes and the matcher, which never backtracks    *)
(* but decides when to stop a repetition by looking ahead.                 *)
(*                                                                         *)
(* Characters are strings of length one, NUL ends every string. A node     *)
(* links to others by their number (from 1; 0 is the code's -1). The       *)
(* matcher's cursor counts from 0, NULL is the failed match.               *)
(***************************************************************************)
EXTENDS Integers, Sequences, SequencesExt, FiniteSets

CONSTANTS Patterns,         \* the patterns of the instance
          Texts,            \* the texts searched
          Many,             \* 0xFFFF: the count that stands for no limit
          MaxCalls          \* how often the expression of each pattern is used

VARIABLES exp,              \* the expression: pattern, nodes, nsubexpr, matches
          call              \* the last call: what was asked and the answer
vars == <<exp, call>>

NUL == "NUL"
NULL == -1
Ord == [c \in {"0", "1", "2", "9", "A", "_", "a", "b", "c", "]", " ", "-", "*", "+", "?", "|", "(", ")",
               "[", "^", "$", ".", "{", "}", ",", "\\", "d", "w", "D", "W", "s", "S", ":"} |->
  CASE c = "0" -> 48 [] c = "1" -> 49 [] c = "2" -> 50 [] c = "9" -> 57 [] c = ":" -> 58
    [] c = "A" -> 65 [] c = "D" -> 68 [] c = "S" -> 83 [] c = "W" -> 87 [] c = "]" -> 93 [] c = "_" -> 95
    [] c = "a" -> 97 [] c = "b" -> 98 [] c = "c" -> 99 [] c = "d" -> 100 [] c = "s" -> 115
    [] c = "w" -> 119 [] c = " " -> 32 [] OTHER -> 33]

IsDigit(c) == c \in {"0", "1", "2", "9"}
IsAlnum(c) == IsDigit(c) \/ c \in {"A", "a", "b", "c", "d", "w", "s", "D", "W", "S"}

----------------------------------------------------------------------------
(* Compiling. x is the SQRex under construction: p is the next character   *)
(* of src, ret the node the last function returned; after an error (a      *)
(* longjmp) nothing more happens.                                          *)

Peek(x) == IF x.p <= Len(x.src) THEN x.src[x.p] ELSE NUL
Advance(x) == [x EXCEPT !.p = @ + 1]
Fail(x) == [x EXCEPT !.err = TRUE]

NewNode(x, type) ==
  [x EXCEPT !.nodes = Append(@, [type |-> type, left |-> 0, next |-> 0,
                                 right |-> IF type = "EXPR" THEN x.nsub ELSE 0]),
            !.nsub = IF type = "EXPR" THEN @ + 1 ELSE @,
            !.ret = Len(x.nodes) + 1]

Expect(x, c) == IF Peek(x) = c THEN Advance(x) ELSE Fail(x)

Classes == {"d", "D", "w", "W", "s", "S", "a", "A", "c"}

EscapeChar(x) ==
  LET y == IF Peek(x) = "\\" THEN Advance(x) ELSE x
  IN IF Peek(y) = NUL THEN Fail(y) ELSE Advance(y)       \* the character is src[p - 1]

CharNode(x, isclass) ==
  LET y == Advance(x)
      t == Peek(y)
      c == NewNode(Advance(y), "CCLASS")
      w == NewNode(Advance(y), "WB")
  IN CASE Peek(x) = NUL -> Fail(x)
       [] Peek(x) = "\\" /\ t \in Classes -> [c EXCEPT !.nodes[c.ret].left = t]
       [] Peek(x) = "\\" /\ t = "b" /\ ~isclass -> [w EXCEPT !.nodes[w.ret].left = t]
       [] Peek(x) = "\\" /\ t \notin Classes /\ (t # "b" \/ isclass) -> NewNode(Advance(y), t)
       [] OTHER -> NewNode(Advance(x), Peek(x))

\* first: a character not yet linked, which may still become the start of a range.
RECURSIVE ClassItems(_, _, _)
ClassItems(x, first, chain) ==
  LET linked == IF first = 0 THEN x ELSE [x EXCEPT !.nodes[chain].next = first]
      y == NewNode(Advance(x), "RANGE")
      e == EscapeChar(y)
      range == [e EXCEPT !.nodes[y.ret].left = x.nodes[first].type,
                         !.nodes[y.ret].right = x.src[e.p - 1], !.nodes[chain].next = y.ret]
      c == CharNode(linked, TRUE)
  IN CASE x.err -> x
       [] ~x.err /\ Peek(x) = "]" -> linked
       [] ~x.err /\ Peek(x) = "-" /\ first # 0 ->
            IF \/ x.nodes[first].type = "CCLASS" \/ Peek(y) = NUL
               \/ Ord[x.nodes[first].type] > Ord[Peek(y)] \/ e.err
            THEN Fail(x) ELSE ClassItems(range, 0, y.ret)
       [] OTHER -> IF c.err THEN c ELSE ClassItems(c, c.ret, IF first = 0 THEN chain ELSE first)

Class(x) ==
  LET n == IF Peek(x) = "^" THEN NewNode(Advance(x), "NCLASS") ELSE NewNode(x, "CLASS")
      i == ClassItems(n, 0, n.ret)
  IN IF Peek(n) = "]" THEN Fail(n)
     ELSE IF i.err THEN i
     ELSE [i EXCEPT !.nodes[n.ret].left = i.nodes[n.ret].next, !.nodes[n.ret].next = 0, !.ret = n.ret]

Digit(c) == Ord[c] - 48

\* The number that begins with n: at most nine digits. The callers keep as much of it as fits
\* an unsigned short.
MaxDigits == 9
RECURSIVE ParseNumber(_, _, _)
ParseNumber(x, n, digits) ==
  CASE ~IsDigit(Peek(x)) -> [x |-> x, n |-> n % (Many + 1)]
    [] IsDigit(Peek(x)) /\ digits = MaxDigits -> [x |-> Fail(Advance(x)), n |-> 0]
    [] OTHER -> ParseNumber(Advance(x), 10 * n + Digit(Peek(x)), digits + 1)

\* The bounds of a repetition: a state, with an empty sequence where there is none.
Repetition(x) ==
  LET c == Peek(x)
      y == Advance(x)
      lo == ParseNumber(y, 0, 0)
      z == lo.x
      w == Advance(z)
      hi == ParseNumber(w, 0, 0)
      Is(from, to, s) == [x |-> s, p |-> <<from, to>>]
  IN CASE c = "*" -> Is(0, Many, y)
       [] c = "+" -> Is(1, Many, y)
       [] c = "?" -> Is(0, 1, y)
       [] c = "{" /\ ~IsDigit(Peek(y)) -> [x |-> Fail(y), p |-> <<>>]
       [] c = "{" /\ IsDigit(Peek(y)) ->
            (CASE z.err -> [x |-> z, p |-> <<>>]
               [] ~z.err /\ Peek(z) = "}" -> Is(lo.n, lo.n, w)
               [] ~z.err /\ Peek(z) = "," /\ IsDigit(Peek(w)) ->
                    Is(lo.n, hi.n, IF hi.x.err THEN hi.x ELSE Expect(hi.x, "}"))
               [] ~z.err /\ Peek(z) = "," /\ ~IsDigit(Peek(w)) -> Is(lo.n, Many, Expect(w, "}"))
               [] OTHER -> [x |-> Fail(z), p |-> <<>>])
       [] OTHER -> [x |-> x, p |-> <<>>]

RECURSIVE List(_), Element(_)

\* The list l closes the group n.
EndGroup(n, l) ==
  IF l.err THEN l ELSE [Expect([l EXCEPT !.nodes[n].left = l.ret], ")") EXCEPT !.ret = n]

Group(x, nocap) ==
  LET o == IF nocap THEN Expect(Advance(x), ":") ELSE x
  IN IF o.err THEN o
     ELSE EndGroup(Len(o.nodes) + 1, List(NewNode(o, IF nocap THEN "NOCAPEXPR" ELSE "EXPR")))

\* One character, class or group.
Atom(x) ==
  LET y == Advance(x)
  IN CASE Peek(x) = "(" -> Group(y, Peek(y) = "?")
       [] Peek(x) = "[" -> LET k == Class(y) IN IF k.err THEN k ELSE Expect(k, "]")
       [] Peek(x) = "$" -> NewNode(y, "EOL")
       [] Peek(x) = "." -> NewNode(y, "DOT")
       [] OTHER -> CharNode(x, FALSE)

\* The atom e with the repetition r behind it, if there is one.
Repeated(e, r) ==
  LET g == NewNode(r.x, "GREEDY")
  IN IF r.p = <<>> THEN r.x ELSE [g EXCEPT !.nodes[g.ret].left = e.ret, !.nodes[g.ret].right = r.p]

\* The element q and the elements n that follow it.
Followed(q, n) == IF n.err THEN n ELSE [n EXCEPT !.nodes[q.ret].next = n.ret, !.ret = q.ret]

Continued(e, q) ==
  IF e.err \/ q.err THEN Fail(e)
  ELSE IF Peek(q) \in {"|", ")", "*", "+", NUL} THEN q ELSE Followed(q, Element(q))

AfterAtom(e) == Continued(e, Repeated(e, Repetition(e)))
Element(x) == AfterAtom(Atom(x))

\* The alternatives l and r of the node o.
Either(l, o, r) ==
  IF r.err THEN r ELSE [r EXCEPT !.nodes[o].left = l.ret, !.nodes[o].right = r.ret, !.ret = o]

Alternatives(l) ==
  IF l.err \/ Peek(l) # "|" THEN l
  ELSE Either(l, Len(l.nodes) + 1, List(NewNode(Advance(l), "OR")))

\* bol: the node created last, in b, stands for the beginning of the text and comes first.
FromStart(b, bol) == LET e == Element(b) IN IF bol THEN Followed(b, e) ELSE e

List(x) ==
  LET bol == Peek(x) = "^"
  IN Alternatives(FromStart(IF bol THEN NewNode(Advance(x), "BOL") ELSE x, bol))

\* The expression that the parser leaves behind: a set of at most one.
Parsed(pattern, x) ==
  IF x.err \/ Peek(x) # NUL THEN {}
  ELSE {[pattern |-> pattern, nodes |-> [x.nodes EXCEPT ![1].left = x.ret], nsubexpr |-> x.nsub,
         matches |-> [k \in 0 .. x.nsub - 1 |-> [begin |-> NULL, len |-> 0, of |-> <<>>]]]}

Compiled(pattern) ==
  Parsed(pattern, List(NewNode([src |-> pattern, p |-> 1, nodes |-> <<>>, nsub |-> 0, ret |-> 0,
                                err |-> FALSE], "EXPR")))

----------------------------------------------------------------------------
(* Matching. t is the text with its bounds, m what the matcher changes:    *)
(* at (the result), curr (_currsubexp) and matches.                        *)

At(t, i) == IF i < Len(t.text) THEN t.text[i + 1] ELSE NUL
IsSpace(c) == c = " "

MatchCClass(id, c) ==
  CASE id = "d" -> IsDigit(c) [] id = "D" -> ~IsDigit(c)
    [] id = "w" -> IsAlnum(c) \/ c = "_" [] id = "W" -> ~(IsAlnum(c) \/ c = "_")
    [] id = "s" -> IsSpace(c) [] id = "S" -> ~IsSpace(c)
    [] id = "a" -> IsAlnum(c) /\ ~IsDigit(c) [] id = "A" -> IsDigit(c) \/ ~IsAlnum(c)
    [] id = "c" -> c = NUL

\* Does c match an item of the list of nodes that starts at n?
RECURSIVE MatchClass(_, _, _)
MatchClass(nodes, n, c) ==
  LET d == nodes[n]
      here == CASE d.type = "RANGE" -> c # NUL /\ Ord[d.left] <= Ord[c] /\ Ord[c] <= Ord[d.right]
                [] d.type = "CCLASS" -> MatchCClass(d.left, c)
                [] OTHER -> c = d.type
  IN here \/ (d.next # 0 /\ MatchClass(nodes, d.next, c))

WordBoundary(t, i) ==
  \/ i = 0 /\ ~IsSpace(At(t, i))
  \/ i = Len(t.text) /\ ~IsSpace(At(t, i - 1))
  \/ IsSpace(At(t, i)) # IsSpace(At(t, i + 1))

\* One character: what a node that consumes a character accepts.
Accepts(t, d, nodes, c) ==
  CASE d.type = "DOT" -> TRUE
    [] d.type = "CLASS" -> MatchClass(nodes, d.left, c)
    [] d.type = "NCLASS" -> ~MatchClass(nodes, d.left, c)
    [] d.type = "CCLASS" -> MatchCClass(d.left, c)
    [] OTHER -> c = d.type

Moved(m, at) == [m EXCEPT !.at = at]
\* (wrong on purpose) a repetition may be shorter than its minimum.
EnoughAtMost(n, p0, p1) == p1 = Many \/ n <= p1

Enough(n, p0, p1) == n >= p0 /\ (p1 = Many \/ n <= p1)

RECURSIVE MatchNode(_, _, _, _), GreedyRounds(_, _, _, _, _), MatchChain(_, _, _, _, _)

\* The nodes from n on, in turn; next is what follows the last one (0 in an OR).
MatchChain(t, n, m, next, inor) ==
  LET d == t.nodes[n]
      r == MatchNode(t, n, m, IF inor THEN 0 ELSE IF d.next # 0 THEN d.next ELSE next)
  IN IF r.at = NULL \/ d.next = 0 THEN r ELSE MatchChain(t, d.next, r, next, inor)

\* count rounds have been matched, the last good one up to m.at.
GreedyRounds(t, n, m, next, count) ==
  LET d == t.nodes[n]
      p0 == d.right[1]
      p1 == d.right[2]
      stop == IF d.next # 0 THEN d.next ELSE next
      r == MatchNode(t, d.left, m, stop)
      s == t.nodes[stop]
      looks == stop # 0 /\ (s.type # "GREEDY" \/ s.right[1] # 0)
      gnext == IF s.next # 0 THEN s.next ELSE IF next # 0 THEN t.nodes[next].next ELSE 0
      l == MatchNode(t, stop, r, gnext)
      after == IF looks THEN Moved(l, r.at) ELSE r
      satisfied == looks /\ l.at # NULL /\ Enough(count + 1, p0, p1)
      End(x, k) == Moved(x, IF Enough(k, p0, p1) THEN x.at ELSE NULL)
  IN CASE ~(count = Many \/ count < p1) -> End(m, count)
       [] (count = Many \/ count < p1) /\ r.at = NULL -> End(Moved(r, m.at), count)
       [] OTHER -> IF satisfied \/ r.at >= Len(t.text) THEN End(after, count + 1)
                   ELSE GreedyRounds(t, n, after, next, count + 1)

\* (wrong on purpose) a group that fails keeps its begin and the length of an earlier match.
MatchGroupKeeps(t, n, m, next) ==
  LET d == t.nodes[n]
      capture == d.type = "EXPR" /\ d.right = m.curr
      b == IF capture THEN [m EXCEPT !.matches[d.right].begin = m.at, !.matches[d.right].of = t.text,
                                     !.curr = @ + 1]
           ELSE m
      r == MatchChain(t, d.left, b, next, FALSE)
  IN IF r.at = NULL THEN r
     ELSE [r EXCEPT !.curr = b.curr, !.matches =
             IF capture THEN [@ EXCEPT ![d.right].len = r.at - m.at] ELSE @]

\* A capture is recorded only while _currsubexp is the number of the group; of remembers the
\* text that begin points into.
MatchGroup(t, n, m, next) ==
  LET d == t.nodes[n]
      capture == d.type = "EXPR" /\ d.right = m.curr
      b == IF capture THEN [m EXCEPT !.matches[d.right].begin = m.at, !.matches[d.right].of = t.text,
                                     !.curr = @ + 1]
           ELSE m
      r == MatchChain(t, d.left, b, next, FALSE)
  IN CASE r.at = NULL /\ capture ->
            [r EXCEPT !.matches[d.right].begin = NULL, !.matches[d.right].len = 0]
       [] r.at = NULL /\ ~capture -> r
       [] OTHER -> [r EXCEPT !.curr = b.curr, !.matches =
                      IF capture THEN [@ EXCEPT ![d.right].len = r.at - m.at] ELSE @]

MatchNode(t, n, m, next) ==
  LET d == t.nodes[n]
      left == MatchChain(t, d.left, m, 0, TRUE)
      If(cond, at) == Moved(m, IF cond THEN at ELSE NULL)
  IN CASE d.type = "GREEDY" -> GreedyRounds(t, n, m, next, 0)
       [] d.type = "OR" -> IF left.at # NULL THEN left
                           ELSE MatchChain(t, d.right, Moved(left, m.at), 0, TRUE)
       [] d.type \in {"EXPR", "NOCAPEXPR"} -> MatchGroup(t, n, m, next)
       [] d.type = "WB" -> If(WordBoundary(t, m.at), m.at)
       [] d.type = "BOL" -> If(m.at = 0, m.at)
       [] d.type = "EOL" -> If(m.at = Len(t.text), m.at)
       [] OTHER -> If(Accepts(t, d, t.nodes, At(t, m.at)), m.at + 1)

Subject(text) == [text |-> text, nodes |-> exp.nodes]
Attempt(t, from, matches) == MatchNode(t, 1, [at |-> from, curr |-> 0, matches |-> matches], 0)

----------------------------------------------------------------------------
(* The operations.                                                         *)

Nothing == [pattern |-> <<>>]

Init ==
  /\ exp = Nothing
  /\ call = [kind |-> "none", calls |-> 0]

\* sqstd_rex_compile: an expression, or an error.
Compile(pattern) ==
  /\ call.kind = "none"
  /\ exp' \in IF Compiled(pattern) = {} THEN {Nothing} ELSE Compiled(pattern)
  /\ call' = [kind |-> IF exp' = Nothing THEN "rejected" ELSE "compiled", calls |-> 0]

Usable == call.kind \notin {"none", "rejected"} /\ call.calls < MaxCalls[exp.pattern]

\* sqstd_rex_match: the whole text.
Match(text) ==
  /\ Usable
  /\ LET r == Attempt(Subject(text), 0, exp.matches)
     IN /\ exp' = [exp EXCEPT !.matches = r.matches]
        /\ call' = [kind |-> "match", calls |-> call.calls + 1, text |-> text, begin |-> 0,
                    end |-> r.at, found |-> r.at = Len(text)]

\* sqstd_rex_search: the first position where the expression matches.
RECURSIVE FirstMatch(_, _, _)
FirstMatch(t, from, matches) ==
  LET r == Attempt(t, from, matches)
  IN IF r.at # NULL \/ from + 1 = Len(t.text) THEN [m |-> r, begin |-> from]
     ELSE FirstMatch(t, from + 1, r.matches)

Search(text) ==
  /\ Usable
  /\ text # <<>>
  /\ LET f == FirstMatch(Subject(text), 0, exp.matches)
     IN /\ exp' = [exp EXCEPT !.matches = f.m.matches]
        /\ call' = [kind |-> "search", calls |-> call.calls + 1, text |-> text, begin |-> f.begin,
                    end |-> f.m.at, found |-> f.m.at # NULL]

\* sqstd_rex_free, after the last use.
Free ==
  /\ call.kind # "none" /\ ~Usable
  /\ UNCHANGED vars

Next ==
  \/ \E pattern \in Patterns : Compile(pattern)
  \/ \E text \in Texts : Match(text) \/ Search(text)
  \/ Free

Spec == Init /\ [][Next]_vars

----------------------------------------------------------------------------
(* Properties. Ends is the meaning of a list of nodes: every position where *)
(* a match that starts at i may end, whatever the matcher tries first.     *)

RECURSIVE Ends(_, _, _), NodeEnds(_, _, _), Rounds(_, _, _, _)
Rounds(t, n, S, k) ==
  IF k = 0 THEN S ELSE Rounds(t, n, UNION {NodeEnds(t, n, i) : i \in S}, k - 1)

NodeEnds(t, n, i) ==
  LET d == t.nodes[n]
      last == IF d.right[2] = Many THEN d.right[1] + Len(t.text) + 1 ELSE d.right[2]
  IN CASE d.type = "GREEDY" -> UNION {Rounds(t, d.left, {i}, k) : k \in d.right[1] .. last}
       [] d.type = "OR" -> Ends(t, d.left, i) \cup Ends(t, d.right, i)
       [] d.type \in {"EXPR", "NOCAPEXPR"} -> Ends(t, d.left, i)
       [] d.type = "WB" -> {j \in {i} : WordBoundary(t, i)}
       [] d.type = "BOL" -> {j \in {i} : i = 0}
       [] d.type = "EOL" -> {j \in {i} : i = Len(t.text)}
       [] OTHER -> {j \in {i + 1} : i < Len(t.text) /\ Accepts(t, d, t.nodes, At(t, i))}

Ends(t, n, i) ==
  UNION {IF t.nodes[n].next = 0 THEN {j} ELSE Ends(t, t.nodes[n].next, j) : j \in NodeEnds(t, n, i)}

Answered == call.kind \in {"match", "search"} /\ call.found
Meant(text) == [text |-> text, nodes |-> exp.nodes]

\* The nodes that also accept the NUL behind the text.
AcceptsNUL(d) ==
  \/ d.type \in {"DOT", "NCLASS"}
  \/ d.type = "CCLASS" /\ d.left \in {"D", "W", "S", "A", "c"}

Types == {exp.nodes[k].type : k \in DOMAIN exp.nodes}
StaysInText == \A k \in DOMAIN exp.nodes : ~AcceptsNUL(exp.nodes[k])

\* What the matcher accepts is what the pattern describes: stopping a repetition by looking
\* ahead may miss a match but never invents one. (A search can run over the end of the text
\* when a node accepts the NUL behind it.)
MatchSound ==
  Answered /\ (call.kind = "match" \/ StaysInText) =>
    call.end \in Ends(Meant(call.text), 1, call.begin)

Groups == {k \in DOMAIN exp.nodes : exp.nodes[k].type = "EXPR"}
Capture(g) == exp.matches[exp.nodes[g].right]

\* A successful call leaves the complete match in capture 0.
CompleteMatch ==
  Answered =>
    Capture(1) = [begin |-> call.begin, len |-> call.end - call.begin, of |-> call.text]

\* Whatever leaves a capture behind - the match, a branch that failed, a look-ahead, an attempt
\* further to the left or an earlier call - it is a string its group describes, in the text it
\* was taken from.
CapturesDescribed ==
  StaysInText =>
    \A g \in Groups :
      LET c == Capture(g)
      IN c.begin # NULL /\ c.len > 0 => c.begin + c.len \in NodeEnds(Meant(c.of), g, c.begin)

\* Where a pattern has neither branches nor repetitions a successful call takes every capture
\* anew, inside its match.
CapturesFresh ==
  Answered /\ Types \cap {"OR", "GREEDY"} = {} =>
    \A g \in Groups :
      LET c == Capture(g)
      IN c.of = call.text /\ c.begin >= call.begin /\ c.begin + c.len <= call.end

\* What can be relied on in the captures after any sequence of calls, failed ones included.
CapturesSound ==
  exp # Nothing => CompleteMatch /\ CapturesDescribed /\ CapturesFresh

=============================================================================
