------------------------------ MODULE Patterns ------------------------------
(***************************************************************************)
(* The regular expressions of parser.go, over texts that are sequences of  *)
(* lexemes: blanks, words and marks.  A word of a name is one lexeme.      *)
(*                                                                         *)
(* A pattern is a sequence of items.  A match is the sequence of the       *)
(* positions where its items begin, and where the last one ends.  Go's     *)
(* regexp takes the match that backtracking finds first, so the matches    *)
(* are kept in that order: a greedy item has its longest end first.        *)
(***************************************************************************)
EXTENDS GoStrings

Item(is, of) == [is |-> is, of |-> of]

Words(ws) == Item("words", {ws})        \* WORD\s+WORD\s+
OneOf(S) == Item("words", S)            \* (?:WORD|WORD)\s+
Maybe(S) == Item("maybe", S)            \* (?:WORD\s+WORD\s+)?
Mark(x) == Item("mark", {<<x>>})        \* one lexeme, whatever follows
MarkOf(S) == Item("mark", {<<x>> : x \in S})
Name == Item("name", {})                \* (\S+)
LazyName == Item("lazy", {})            \* (\S+?)
Gap == Item("gap", {})                  \* \s+
Gap0 == Item("gap0", {})                \* \s*
Line == Item("line", {})                \* (.+)
Line0 == Item("line0", {})              \* (.*)
Rest == Item("rest", {})                \* (.*) where . matches a newline too
Args == Item("args", {})                \* (?:\s*\([^)]*\))?
ParenOrEnd == Item("parenOrEnd", {})    \* (?:\s*\(|$)
Literal == Item("literal", {})          \* '([^']*)'

-----------------------------------------------------------------------------
(* The first position from p on that holds none of these lexemes.          *)
SkipOver(t, p, S) == Min({q \in p..(Len(t) + 1) : q = Len(t) + 1 \/ t[q] \notin S})

(* ... that holds one of them.                                             *)
SkipTo(t, p, S) == Min({q \in p..(Len(t) + 1) : q = Len(t) + 1 \/ t[q] \in S})

Is(t, p, S) == p \in DOMAIN t /\ t[p] \in S

(* A blank run is taken whole: what follows it in the patterns is no blank *)
(* unless it is (.+), which takes the same blanks.                         *)
AfterBlanks(t, p) == SkipOver(t, p, Blank)

(* Where words with blanks behind each of them end; 0 if they are not here.*)
WordsEnd(t, p, ws) ==
  FoldLeft(LAMBDA q, w : IF q # 0 /\ Is(t, q, {w}) /\ Is(t, q + 1, Blank)
                           THEN AfterBlanks(t, q + 1) ELSE 0,
           p, ws)

Upwards(m, n) == [k \in 1..(n - m + 1) |-> m + k - 1]
Downwards(m, n) == [k \in 1..(m - n + 1) |-> m - k + 1]

When(cond, p) == IF cond THEN <<p>> ELSE <<>>

WordEnds(t, item, p) ==
  SetToSeq({WordsEnd(t, p, ws) : ws \in item.of} \ {0})

ArgsEnds(t, p) ==
  LET open == AfterBlanks(t, p)
      close == SkipTo(t, open, {")"})
  IN  When(Is(t, open, {"("}) /\ Is(t, close, {")"}), close + 1)

LiteralEnds(t, p, end) == When(Is(t, p, {"'"}) /\ Is(t, end, {"'"}), end + 1)

(* Where an item that begins at p can end, in the order of preference.     *)
Ends(t, item, p) ==
  CASE item.is \in {"words", "maybe"} ->
         WordEnds(t, item, p) \o When(item.is = "maybe", p)
    [] item.is = "mark"  -> When(p <= Len(t) /\ <<t[p]>> \in item.of, p + 1)
    [] item.is = "name"  -> Downwards(SkipTo(t, p, Blank), p + 1)
    [] item.is = "lazy"  -> Upwards(p + 1, SkipTo(t, p, Blank))
    [] item.is = "gap"   -> When(Is(t, p, Blank), AfterBlanks(t, p))
    [] item.is = "gap0"  -> <<AfterBlanks(t, p)>>
    [] item.is = "line"  -> Downwards(SkipTo(t, p, {"nl"}), p + 1)
    [] item.is = "line0" -> Downwards(SkipTo(t, p, {"nl"}), p)
    [] item.is = "rest"  -> <<Len(t) + 1>>
    [] item.is = "literal" -> LiteralEnds(t, p, SkipTo(t, p + 1, {"'"}))
    [] item.is = "args"  -> ArgsEnds(t, p) \o <<p>>
    [] item.is = "parenOrEnd" ->
         When(Is(t, AfterBlanks(t, p), {"("}) \/ p = Len(t) + 1, p)

Appended(m, ends) == [j \in DOMAIN ends |-> Append(m, ends[j])]

MatchesAt(t, pat, p) ==
  LET Longer(ms, item) ==
        FlattenSeq([k \in DOMAIN ms |-> Appended(ms[k], Ends(t, item, Last(ms[k])))])
  IN  FoldLeft(Longer, <<<<p>>>>, pat)

(* regexp.MatchString, for a pattern that begins with ^                    *)
Matches(t, pat) == MatchesAt(t, pat, 1) # <<>>

(* FindStringSubmatch: what the k-th item of the match stands for          *)
PartOf(t, m, k) == SubSeq(t, m[k], m[k + 1] - 1)
Part(t, pat, k) == PartOf(t, MatchesAt(t, pat, 1)[1], k)

(* ... and the items that are names.                                       *)
Names(t, pat) ==
  LET isName(k) == pat[k].is \in {"name", "lazy"}
      ks == SelectSeq([k \in DOMAIN pat |-> k], isName) IN
  [j \in DOMAIN ks |-> Part(t, pat, ks[j])]

(* Whether a (?:...)? of the pattern was there                             *)
Given(t, pat, item) == \E k \in DOMAIN pat : pat[k] = item /\ Part(t, pat, k) # <<>>

(* A pattern without ^ matches where it does first from the left.          *)
Finds(t, pat) == {p \in DOMAIN t : MatchesAt(t, pat, p) # <<>>}
Occurs(t, pat) == Finds(t, pat) # {}
Leftmost(t, pat) == MatchesAt(t, pat, Min(Finds(t, pat)))[1]
=============================================================================
