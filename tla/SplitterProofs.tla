--------------------------- MODULE SplitterProofs ---------------------------
(***************************************************************************)
(* SplitTypeOK and SplitsAtSemicolons for every alphabet and every set of  *)
(* texts: the scan never reads behind the text, wherever the text ends     *)
(* within a quote, a comment or a tag, and its statements are those of     *)
(* SqlText.  The scan stands at a boundary of two elements or within one   *)
(* that is not over yet, and has read what lies before that.               *)
(***************************************************************************)
EXTENDS SqlText, KeyedSlicesProofs

(* Reading n characters that are there keeps the types.                    *)
LEMMA TakeFacts ==
  ASSUME SplitTypeOK, NEW n \in Nat, i + n <= Len(sql) + 1, Take(n)
  PROVE  buf' \in Seq(Char) /\ i' \in 1..(Len(sql) + 1)
<1>1. SubSeq(sql, i, i + n - 1) \in Seq(Char)
  BY SubSeqProperties DEF SplitTypeOK
<1>2. buf' \in Seq(Char)
  BY <1>1, ConcatProperties DEF Take, SplitTypeOK
<1> QED
  BY <1>2 DEF Take, SplitTypeOK

(* ... and so does leaving them out.                                       *)
LEMMA SkipFacts ==
  ASSUME SplitTypeOK, NEW n \in Nat, i + n <= Len(sql) + 1, Skip(n)
  PROVE  buf' \in Seq(Char) /\ i' \in 1..(Len(sql) + 1)
BY DEF Skip, SplitTypeOK

(* Where a pattern stands, the text is long enough for it.                 *)
LEMMA AtFits ==
  ASSUME SplitTypeOK, NEW pat \in Seq(Char), At(pat)
  PROVE  i + Len(pat) <= Len(sql) + 1
BY DEF At, Places, SplitTypeOK

(* The characters of a statement without the blanks around it are          *)
(* characters.                                                             *)
LEMMA TrimSpaceType ==
  ASSUME NEW s \in Seq(Char)
  PROVE  TrimSpace(s) \in Seq(Char)
<1> DEFINE visible == {p \in DOMAIN s : s[p] \notin Blank}
<1>1. CASE visible = {}
  BY <1>1 DEF TrimSpace, Trim
<1>2. CASE visible # {}
  <2>1. TrimSpace(s) = SubSeq(s, Min(visible), Max(visible))
    BY <1>2 DEF TrimSpace, Trim
  <2>2. Min(visible) \in 1..Len(s)
    BY <1>2, MinPosition
  <2>3. Max(visible) \in 1..Len(s)
    <3>1. PICK m \in visible : \A x \in visible : m >= x
      <4> DEFINE gaps == {Len(s) - x : x \in visible}
      <4>1. gaps \subseteq Nat /\ gaps # {}
        BY <1>2
      <4>2. Min(gaps) \in gaps /\ \A x \in gaps : Min(gaps) <= x
        BY <4>1, MinPosition
      <4>3. PICK m \in visible : Min(gaps) = Len(s) - m
        BY <4>2
      <4>4. ASSUME NEW x \in visible PROVE m >= x
        <5>1. Len(s) - m <= Len(s) - x
          BY <4>2, <4>3
        <5> QED
          BY <5>1
      <4> QED
        BY <4>4
    <3>2. Max(visible) \in visible
      BY <3>1 DEF Max
    <3> QED
      BY <3>2
  <2> HIDE DEF visible
  <2> QED
    BY <2>1, <2>2, <2>3, SubSeqProperties
<1> QED
  BY <1>1, <1>2

(* A finished statement joins the others.                                  *)
LEMMA EndOfStatement ==
  ASSUME SplitTypeOK, stmts' = AppendNonEmpty(stmts, TrimSpace(buf))
  PROVE  stmts' \in Seq(Seq(Char))
<1>1. TrimSpace(buf) \in Seq(Char)
  BY TrimSpaceType DEF SplitTypeOK
<1> QED
  BY <1>1, AppendProperties DEF AppendNonEmpty, SplitTypeOK

(* A dollar block ends within the text.                                    *)
LEMMA DollarBlockFits ==
  ASSUME SplitTypeOK, st = "normal", At(<<"$">>),
         NEW tag \in dollarTags, closings(tag) # {}
  PROVE  /\ Min(closings(tag)) + Len(tag) - i \in Nat
         /\ i + (Min(closings(tag)) + Len(tag) - i) <= Len(sql) + 1
<1>1. sql \in Seq(Char) /\ i \in 1..(Len(sql) + 1) /\ Len(sql) \in Nat
  BY DEF SplitTypeOK
<1> DEFINE ends == Places(sql, <<"$">>, i + 1)
<1>2. ends \subseteq Nat /\ ends # {} /\ tag = SubSeq(sql, i, Min(ends))
  BY <1>1 DEF dollarTags, Places
<1>3. Min(ends) \in Nat /\ Min(ends) >= i + 1
  <2>1. Min(ends) \in ends
    BY <1>2, MinPosition
  <2> QED
    BY <1>1, <2>1 DEF Places
<1>4. Len(tag) \in Nat
  <2> HIDE DEF ends
  <2>1. Min(ends) <= Len(sql)
    <3>1. Min(ends) \in ends
      BY <1>2, MinPosition
    <3> QED
      BY <1>1, <3>1 DEF ends, Places
  <2>2. SubSeq(sql, i, Min(ends)) \in Seq(Char)
    BY <1>1, <1>3, <2>1, SubSeqProperties
  <2> QED
    BY <1>2, <2>2
<1>5. closings(tag) \subseteq Nat
  BY <1>1, <1>4 DEF closings, Places
<1>6. Min(closings(tag)) \in closings(tag)
  BY <1>5, MinPosition
<1>7. /\ Min(closings(tag)) >= i + Len(tag)
      /\ Min(closings(tag)) <= Len(sql) - Len(tag) + 1
      /\ Min(closings(tag)) \in Nat
  BY <1>1, <1>4, <1>5, <1>6 DEF closings, Places
<1> QED
  BY <1>1, <1>4, <1>7

(* Two characters are a text.                                              *)
LEMMA PairInSeq ==
  ASSUME NEW T, NEW x \in T, NEW y \in T
  PROVE  <<x, y>> \in Seq(T)
OBVIOUS

(* A text with something behind it is a text, and as long at least.        *)
LEMMA LongerText ==
  ASSUME NEW s \in Seq(Char), NEW t \in Seq(Char)
  PROVE  s \o t \in Seq(Char) /\ Len(s \o t) >= Len(s)
OBVIOUS

(* What is written for a second merge is a text again.                     *)
LEMMA OutputStep ==
  ASSUME SplitTypeOK, Output
  PROVE  SplitTypeOK'
<1>1. CASE StartWriting
  BY <1>1 DEF StartWriting, SplitTypeOK
<1>2. CASE WriteStatement
  <2>1. /\ stmts \in Seq(Seq(Char)) /\ stmts # <<>> /\ stmts' = Tail(stmts)
        /\ sql' = sql \o (Append(Head(stmts), "semi") \o <<"nl", "nl">>)
        /\ sql \in Seq(Char) /\ i \in 1..(Len(sql) + 1)
    BY <1>2 DEF WriteStatement, written, SplitTypeOK
  <2>2. Head(stmts) \in Seq(Char) /\ stmts' \in Seq(Seq(Char))
    BY <2>1, HeadTailProperties
  <2>3. Append(Head(stmts), "semi") \in Seq(Char) /\ <<"nl", "nl">> \in Seq(Char)
    <3>1. "semi" \in Char /\ "nl" \in Char
      BY CharAssumption
    <3> QED
      BY <2>2, <3>1, AppendProperties, PairInSeq
  <2>4. sql' \in Seq(Char) /\ Len(sql') >= Len(sql)
    <3>1. Append(Head(stmts), "semi") \o <<"nl", "nl">> \in Seq(Char)
      BY <2>3, LongerText
    <3> QED
      BY <2>1, <3>1, LongerText
  <2>5. i \in 1..(Len(sql') + 1)
    <3>1. Len(sql) \in Nat /\ Len(sql') \in Nat
      BY <2>1, <2>4
    <3> QED
      BY <2>1, <2>4, <3>1
  <2> QED
    BY <1>2, <2>2, <2>4, <2>5 DEF WriteStatement, SplitTypeOK
<1>3. CASE Rescan
  BY <1>3 DEF Rescan, SplitTypeOK
<1> QED
  BY <1>1, <1>2, <1>3 DEF Output

(* A character that is written to buf: the actions of strings and words.   *)
LEMMA TakeStep ==
  ASSUME SplitTypeOK, NEW n \in Nat, i + n <= Len(sql) + 1, Take(n),
         NEW s \in {"normal", "quote", "line", "block"}, Goto(s)
  PROVE  SplitTypeOK'
<1>1. buf' \in Seq(Char) /\ i' \in 1..(Len(sql) + 1)
  BY TakeFacts
<1> QED
  BY <1>1 DEF Goto, SplitTypeOK

(* A character that is left out: the actions of comments.                  *)
LEMMA SkipStep ==
  ASSUME SplitTypeOK, NEW n \in Nat, i + n <= Len(sql) + 1, Skip(n),
         NEW s \in {"normal", "quote", "line", "block"}, Goto(s)
  PROVE  SplitTypeOK'
<1>1. buf' \in Seq(Char) /\ i' \in 1..(Len(sql) + 1)
  BY SkipFacts
<1> QED
  BY <1>1 DEF Goto, SplitTypeOK

(* The scan keeps the types and stays within the text.                     *)
LEMMA ScanStep ==
  ASSUME SplitTypeOK, Scan
  PROVE  SplitTypeOK'
<1>0. i \in Nat /\ Len(sql) \in Nat
  BY DEF SplitTypeOK
<1>3. i <= Len(sql) => i + 1 <= Len(sql) + 1
  BY <1>0
<1>4. CASE OpenQuote
  <2>1. i + 1 <= Len(sql) + 1
    BY <1>4 DEF OpenQuote, At, Places, SplitTypeOK
  <2>2. Take(1) /\ Goto("quote")
    BY <1>4 DEF OpenQuote
  <2> QED
    BY <2>1, <2>2, TakeStep
<1>5. CASE OpenLineComment
  <2>1. i + 2 <= Len(sql) + 1
    BY <1>5 DEF OpenLineComment, At, Places, SplitTypeOK
  <2>2. Skip(2) /\ Goto("line")
    BY <1>5 DEF OpenLineComment
  <2> QED
    BY <2>1, <2>2, SkipStep
<1>6. CASE OpenBlockComment
  <2>1. i + 2 <= Len(sql) + 1
    BY <1>6 DEF OpenBlockComment, At, Places, SplitTypeOK
  <2>2. Skip(2) /\ Goto("block")
    BY <1>6 DEF OpenBlockComment
  <2> QED
    BY <2>1, <2>2, SkipStep
<1>7. CASE DollarBlock
  <2>1. PICK tag \in dollarTags :
          closings(tag) # {} /\ Take(Min(closings(tag)) + Len(tag) - i)
    BY <1>7 DEF DollarBlock
  <2>2. st = "normal" /\ At(<<"$">>) /\ Goto("normal")
    BY <1>7 DEF DollarBlock
  <2> QED
    BY <2>1, <2>2, DollarBlockFits, TakeStep
<1>8. CASE LoneDollar
  <2>1. i + 1 <= Len(sql) + 1
    BY <1>8 DEF LoneDollar, At, Places, SplitTypeOK
  <2>2. Take(1) /\ Goto("normal")
    BY <1>8 DEF LoneDollar
  <2> QED
    BY <2>1, <2>2, TakeStep
<1>9. CASE Semicolon
  <2>1. stmts' \in Seq(Seq(Char))
    BY <1>9, EndOfStatement DEF Semicolon
  <2>2. i + 1 <= Len(sql) + 1
    BY <1>9 DEF Semicolon, At, Places, SplitTypeOK
  <2> QED
    BY <1>9, <2>1, <2>2 DEF Semicolon, SplitTypeOK
<1>10. CASE OtherChar
  BY <1>3, <1>10, TakeStep DEF OtherChar
<1>11. CASE EscapedQuote
  <2>1. i + 2 <= Len(sql) + 1
    BY <1>11 DEF EscapedQuote, At, Places, SplitTypeOK
  <2>2. Take(2) /\ Goto("quote")
    BY <1>11 DEF EscapedQuote
  <2> QED
    BY <2>1, <2>2, TakeStep
<1>12. CASE CloseQuote
  <2>1. i + 1 <= Len(sql) + 1
    BY <1>12 DEF CloseQuote, At, Places, SplitTypeOK
  <2>2. Take(1) /\ Goto("normal")
    BY <1>12 DEF CloseQuote
  <2> QED
    BY <2>1, <2>2, TakeStep
<1>13. CASE QuotedChar
  BY <1>3, <1>13, TakeStep DEF QuotedChar
<1>14. CASE CloseLineComment
  <2>1. i + 1 <= Len(sql) + 1
    BY <1>14 DEF CloseLineComment, At, Places, SplitTypeOK
  <2>2. Skip(1) /\ Goto("normal")
    BY <1>14 DEF CloseLineComment
  <2> QED
    BY <2>1, <2>2, SkipStep
<1>15. CASE LineCommentChar
  BY <1>3, <1>15, SkipStep DEF LineCommentChar
<1>16. CASE CloseBlockComment
  <2>1. i + 2 <= Len(sql) + 1
    BY <1>16 DEF CloseBlockComment, At, Places, SplitTypeOK
  <2>2. Skip(2) /\ Goto("normal")
    BY <1>16 DEF CloseBlockComment
  <2> QED
    BY <2>1, <2>2, SkipStep
<1>17. CASE BlockCommentChar
  BY <1>3, <1>17, SkipStep DEF BlockCommentChar
<1>18. CASE Finish
  <2>1. stmts' \in Seq(Seq(Char))
    BY <1>18, EndOfStatement DEF Finish
  <2> QED
    BY <1>18, <2>1 DEF Finish, Scanning, SplitTypeOK
<1> QED
  BY <1>4, <1>5, <1>6, <1>7, <1>8, <1>9, <1>10, <1>11, <1>12, <1>13, <1>14,
     <1>15, <1>16, <1>17, <1>18 DEF Scan

-----------------------------------------------------------------------------
(* For every set of texts, whatever marks they hold and wherever they end: *)
(* the scan of parser.Split stays within the text, and so does that of the *)
(* output it leads to.                                                     *)
THEOREM ScanStaysInText == SplitSpec => []SplitTypeOK
<1>1. SplitInit => SplitTypeOK
  BY TextsAssumption DEF SplitInit, SplitTypeOK
<1>2. SplitTypeOK /\ [SplitNext]_splitVars => SplitTypeOK'
  <2> SUFFICES ASSUME SplitTypeOK, [SplitNext]_splitVars
               PROVE  SplitTypeOK'
    OBVIOUS
  <2>1. CASE Scan
    BY <2>1, ScanStep
  <2>2. CASE Output
    BY <2>2, OutputStep
  <2>3. CASE UNCHANGED splitVars
    BY <2>3 DEF splitVars, SplitTypeOK
  <2> QED
    BY <2>1, <2>2, <2>3 DEF SplitNext
<1> QED
  BY <1>1, <1>2, PTL DEF SplitSpec

-----------------------------------------------------------------------------
(* The elements of a text.                                                 *)

(* A text of one character is that character.                              *)
LEMMA OneCharacter ==
  ASSUME NEW T, NEW s \in Seq(T), Len(s) = 1, NEW c
  PROVE  s = <<c>> <=> s[1] = c
OBVIOUS

(* A text of two characters is those two.                                  *)
LEMMA TwoCharacters ==
  ASSUME NEW T, NEW s \in Seq(T), Len(s) = 2, NEW c, NEW d
  PROVE  s = <<c, d>> <=> s[1] = c /\ s[2] = d
OBVIOUS

(* A mark of one character stands where the character is.                  *)
LEMMA OneStands ==
  ASSUME NEW t \in Seq(Char), NEW c, NEW from \in Nat \ {0}, NEW q
  PROVE  q \in Places(t, <<c>>, from) <=> q \in from..Len(t) /\ t[q] = c
<1>1. Len(t) \in Nat /\ Len(<<c>>) = 1
  OBVIOUS
<1>2. ASSUME q \in from..Len(t)
      PROVE  SubSeq(t, q, q + 1 - 1) = <<c>> <=> t[q] = c
  <2>1. /\ SubSeq(t, q, q) \in Seq(Char) /\ Len(SubSeq(t, q, q)) = 1
        /\ SubSeq(t, q, q)[1] = t[q]
    <3>1. q \in Int /\ q <= q /\ \A k \in q..q : t[k] \in Char
      BY <1>1, <1>2
    <3> QED
      BY <1>1, <1>2, <3>1, SubSeqProperties
  <2>2. q + 1 - 1 = q
    BY <1>1, <1>2
  <2>3. SubSeq(t, q, q) = <<c>> <=> SubSeq(t, q, q)[1] = c
    BY <2>1, OneCharacter
  <2> QED
    BY <2>1, <2>2, <2>3, Zenon
<1> QED
  BY <1>1, <1>2 DEF Places

(* A mark of two characters stands where the two are.                      *)
LEMMA TwoStand ==
  ASSUME NEW t \in Seq(Char), NEW c, NEW d, NEW from \in Nat \ {0}, NEW q
  PROVE  q \in Places(t, <<c, d>>, from)
           <=> q \in from..(Len(t) - 1) /\ t[q] = c /\ t[q + 1] = d
<1>1. Len(t) \in Nat /\ Len(<<c, d>>) = 2
  OBVIOUS
<1>2. ASSUME q \in from..(Len(t) - 1)
      PROVE  SubSeq(t, q, q + 2 - 1) = <<c, d>> <=> t[q] = c /\ t[q + 1] = d
  <2>1. /\ SubSeq(t, q, q + 1) \in Seq(Char) /\ Len(SubSeq(t, q, q + 1)) = 2
        /\ SubSeq(t, q, q + 1)[1] = t[q] /\ SubSeq(t, q, q + 1)[2] = t[q + 1]
    <3>1. /\ q \in Int /\ q + 1 \in Int /\ q <= q + 1
          /\ \A k \in q..(q + 1) : t[k] \in Char
      BY <1>1, <1>2
    <3>2. /\ SubSeq(t, q, q + 1) \in Seq(Char)
          /\ Len(SubSeq(t, q, q + 1)) = (q + 1) - q + 1
          /\ \A k \in 1..((q + 1) - q + 1) : SubSeq(t, q, q + 1)[k] = t[q + k - 1]
      BY <3>1, SubSeqProperties
    <3>3. 1 \in 1..((q + 1) - q + 1) /\ 2 \in 1..((q + 1) - q + 1)
      BY <1>2
    <3> QED
      BY <1>2, <3>2, <3>3
  <2>2. q + 2 - 1 = q + 1
    BY <1>1, <1>2
  <2>3. SubSeq(t, q, q + 1) = <<c, d>>
          <=> SubSeq(t, q, q + 1)[1] = c /\ SubSeq(t, q, q + 1)[2] = d
    <3> DEFINE s == SubSeq(t, q, q + 1)
    <3>1. s \in Seq(Char) /\ Len(s) = 2
      BY <2>1
    <3> HIDE DEF s
    <3>2. s = <<c, d>> <=> s[1] = c /\ s[2] = d
      BY <3>1, TwoCharacters
    <3> QED
      BY <3>2 DEF s
  <2> QED
    BY <2>1, <2>2, <2>3, Zenon
<1> QED
  BY <1>1, <1>2 DEF Places

(* The positions a pattern stands at are positions of the text.            *)
LEMMA PlacesAreNumbers ==
  ASSUME NEW t \in Seq(Char), NEW pat \in Seq(Char), NEW from \in Nat
  PROVE  \A q \in Places(t, pat, from) :
           q \in Nat /\ q >= from /\ q + Len(pat) - 1 <= Len(t)
<1>1. Len(t) \in Nat /\ Len(pat) \in Nat
  OBVIOUS
<1> QED
  BY <1>1 DEF Places

(* The first of some positions, or what is given if there is none.         *)
LEMMA FirstOrFacts ==
  ASSUME NEW S, S \subseteq Nat, NEW d
  PROVE  /\ S = {} => FirstOr(S, d) = d
         /\ S # {} => FirstOr(S, d) \in S /\ \A x \in S : FirstOr(S, d) <= x
BY MinPosition DEF FirstOr

-----------------------------------------------------------------------------
(* The quote and its end.                                                  *)
LEMMA QuoteElement ==
  ASSUME NEW t \in Seq(Char), NEW p \in 1..Len(t), t[p] = "'"
  PROVE  ElementEnd(t, p) = FirstOr(Places(t, <<"'">>, p + 1), Len(t))
<1>1. Stands(t, p, <<"'">>)
  BY OneStands DEF Stands
<1>2. ~ Stands(t, p, <<"-", "-">>) /\ ~ Stands(t, p, <<"/", "*">>)
  BY TwoStand DEF Stands
<1>3. ClosedTagsAt(t, p) = {}
  BY DEF ClosedTagsAt, TagsAt
<1> QED
  BY <1>1, <1>2, <1>3 DEF ElementEnd

(* The comment up to the end of the line.                                  *)
LEMMA LineElement ==
  ASSUME NEW t \in Seq(Char), NEW p \in 1..(Len(t) - 1), t[p] = "-", t[p + 1] = "-"
  PROVE  /\ ElementEnd(t, p) = FirstOr(Places(t, <<"nl">>, p + 2), Len(t))
         /\ IsComment(t, p)
<1>1. Stands(t, p, <<"-", "-">>)
  BY TwoStand DEF Stands
<1>2. ~ Stands(t, p, <<"'">>) /\ ~ Stands(t, p, <<"/", "*">>)
  BY TwoStand, OneStands DEF Stands
<1>3. ClosedTagsAt(t, p) = {}
  BY DEF ClosedTagsAt, TagsAt
<1> QED
  BY <1>1, <1>2, <1>3 DEF ElementEnd, IsComment

(* The comment in C style.                                                 *)
LEMMA BlockElement ==
  ASSUME NEW t \in Seq(Char), NEW p \in 1..(Len(t) - 1), t[p] = "/", t[p + 1] = "*"
  PROVE  /\ ElementEnd(t, p) = FirstOr({q + 1 : q \in Places(t, <<"*", "/">>, p + 2)}, Len(t))
         /\ IsComment(t, p)
<1>1. Stands(t, p, <<"/", "*">>)
  BY TwoStand DEF Stands
<1>2. ~ Stands(t, p, <<"'">>) /\ ~ Stands(t, p, <<"-", "-">>)
  BY TwoStand, OneStands DEF Stands
<1>3. ClosedTagsAt(t, p) = {}
  BY DEF ClosedTagsAt, TagsAt
<1> QED
  BY <1>1, <1>2, <1>3 DEF ElementEnd, IsComment

(* The dollar quote: its tag is the text up to the next dollar.            *)
LEMMA DollarElement ==
  ASSUME NEW t \in Seq(Char), NEW p \in 1..Len(t), ClosedTagsAt(t, p) # {}
  PROVE  /\ t[p] = "$" /\ ~ IsComment(t, p)
         /\ Places(t, <<"$">>, p + 1) # {}
         /\ LET tag == SubSeq(t, p, Min(Places(t, <<"$">>, p + 1))) IN
              /\ tag \in Seq(Char) /\ Len(tag) >= 2
              /\ Places(t, tag, p + Len(tag)) # {}
              /\ ElementEnd(t, p) = Min(Places(t, tag, p + Len(tag))) + Len(tag) - 1
<1> DEFINE dollars == Places(t, <<"$">>, p + 1)
           tag == SubSeq(t, p, Min(dollars))
<1>1. t[p] = "$" /\ Len(t) \in Nat /\ p \in Nat /\ p + 1 \in Nat \ {0}
  BY DEF ClosedTagsAt, TagsAt
<1>2. ~ Stands(t, p, <<"'">>) /\ ~ Stands(t, p, <<"-", "-">>) /\ ~ Stands(t, p, <<"/", "*">>)
  BY <1>1, TwoStand, OneStands DEF Stands
<1>3. ASSUME NEW e \in (p + 1)..Len(t), t[e] = "$",
             \A m \in (p + 1)..(e - 1) : t[m] \in Letter
      PROVE  dollars # {} /\ e = Min(dollars)
  <2>1. e \in dollars
    BY <1>1, <1>3, OneStands
  <2>2. dollars \subseteq Nat /\ \A q \in dollars : q \in (p + 1)..Len(t) /\ t[q] = "$"
    BY <1>1, OneStands
  <2>3. Min(dollars) \in dollars /\ Min(dollars) <= e
    <3> HIDE DEF dollars
    <3> QED
      BY <2>1, <2>2, MinPosition
  <2>4. Min(dollars) \notin (p + 1)..(e - 1)
    BY <1>3, <2>2, <2>3 DEF Letter
  <2> HIDE DEF dollars
  <2>5. Min(dollars) \in (p + 1)..Len(t) /\ e \in (p + 1)..Len(t)
    BY <2>2, <2>3
  <2>6. Min(dollars) = e
    BY <1>1, <2>3, <2>4, <2>5
  <2> QED
    BY <2>1, <2>6
<1>4. ASSUME NEW g \in ClosedTagsAt(t, p)
      PROVE  dollars # {} /\ g = tag
  <2>1. PICK e \in (p + 1)..Len(t) :
          /\ t[e] = "$" /\ \A m \in (p + 1)..(e - 1) : t[m] \in Letter
          /\ g = SubSeq(t, p, e)
    BY <1>4 DEF ClosedTagsAt, TagsAt
  <2> QED
    BY <1>3, <2>1
<1>5. dollars # {} /\ ClosedTagsAt(t, p) = {tag}
  <2> HIDE DEF tag, dollars
  <2> QED
    BY <1>4
<1>6. Min(dollars) \in (p + 1)..Len(t)
  <2>1. dollars \subseteq Nat /\ \A q \in dollars : q \in (p + 1)..Len(t)
    BY <1>1, OneStands
  <2> HIDE DEF dollars
  <2> QED
    BY <1>5, <2>1, MinPosition
<1>7. tag \in Seq(Char) /\ Len(tag) >= 2
  <2> DEFINE e == Min(dollars)
  <2>1. e \in (p + 1)..Len(t)
    BY <1>6
  <2> HIDE DEF e
  <2>2. p \in Int /\ e \in Int /\ \A k \in p..e : t[k] \in Char
    BY <1>1, <2>1
  <2>3. SubSeq(t, p, e) \in Seq(Char) /\ Len(SubSeq(t, p, e)) = e - p + 1
    BY <1>1, <2>1, <2>2, SubSeqProperties
  <2> QED
    BY <1>1, <2>1, <2>3 DEF e
<1>8. Places(t, tag, p + Len(tag)) # {}
  <2> HIDE DEF tag
  <2> QED
    BY <1>5 DEF ClosedTagsAt
<1>9. ElementEnd(t, p) = Min(Places(t, tag, p + Len(tag))) + Len(tag) - 1
  <2> HIDE DEF tag
  <2>1. (CHOOSE g \in ClosedTagsAt(t, p) : TRUE) = tag
    BY <1>5
  <2> QED
    BY <1>2, <1>5, <2>1 DEF ElementEnd
<1>10. ~ IsComment(t, p)
  BY <1>2 DEF IsComment
<1> QED
  BY <1>1, <1>5, <1>7, <1>8, <1>9, <1>10

(* Everything else is an element of one character.                         *)
LEMMA OtherElement ==
  ASSUME NEW t \in Seq(Char), NEW p \in 1..Len(t), t[p] # "'", ClosedTagsAt(t, p) = {},
         ~ IsComment(t, p)
  PROVE  ElementEnd(t, p) = p
<1>1. ~ Stands(t, p, <<"'">>)
  BY OneStands DEF Stands
<1> QED
  BY <1>1 DEF ElementEnd, IsComment

(* An element lies within the text.                                        *)
LEMMA ElementFits ==
  ASSUME NEW t \in Seq(Char), NEW p \in 1..Len(t)
  PROVE  ElementEnd(t, p) \in p..Len(t)
<1>1. Len(t) \in Nat /\ p \in Nat /\ p + 1 \in Nat \ {0} /\ p + 2 \in Nat \ {0}
  OBVIOUS
<1>2. CASE t[p] = "'"
  <2> DEFINE S == Places(t, <<"'">>, p + 1)
  <2>1. \A q \in S : q \in (p + 1)..Len(t)
    BY <1>1, OneStands
  <2>2. S \subseteq Nat
    BY <1>1, <2>1
  <2>3. ElementEnd(t, p) = FirstOr(S, Len(t))
    BY <1>2, QuoteElement
  <2> HIDE DEF S
  <2>4. FirstOr(S, Len(t)) = Len(t) \/ FirstOr(S, Len(t)) \in (p + 1)..Len(t)
    BY <2>1, <2>2, FirstOrFacts
  <2> QED
    BY <1>1, <2>3, <2>4
<1>3. CASE p < Len(t) /\ t[p] = "-" /\ t[p + 1] = "-"
  <2> DEFINE S == Places(t, <<"nl">>, p + 2)
  <2>1. \A q \in S : q \in (p + 2)..Len(t)
    BY <1>1, OneStands
  <2>2. S \subseteq Nat
    BY <1>1, <2>1
  <2>3. ElementEnd(t, p) = FirstOr(S, Len(t))
    BY <1>1, <1>3, LineElement
  <2> HIDE DEF S
  <2>4. FirstOr(S, Len(t)) = Len(t) \/ FirstOr(S, Len(t)) \in (p + 2)..Len(t)
    BY <2>1, <2>2, FirstOrFacts
  <2> QED
    BY <1>1, <2>3, <2>4
<1>4. CASE p < Len(t) /\ t[p] = "/" /\ t[p + 1] = "*"
  <2> DEFINE S == {q + 1 : q \in Places(t, <<"*", "/">>, p + 2)}
  <2>1. \A q \in Places(t, <<"*", "/">>, p + 2) : q \in (p + 2)..(Len(t) - 1)
    BY <1>1, TwoStand
  <2>2. S \subseteq Nat /\ \A x \in S : x \in (p + 3)..Len(t)
    BY <1>1, <2>1
  <2>3. ElementEnd(t, p) = FirstOr(S, Len(t))
    BY <1>1, <1>4, BlockElement
  <2> HIDE DEF S
  <2>4. FirstOr(S, Len(t)) = Len(t) \/ FirstOr(S, Len(t)) \in (p + 3)..Len(t)
    BY <2>2, FirstOrFacts
  <2> QED
    BY <1>1, <2>3, <2>4
<1>5. CASE ClosedTagsAt(t, p) # {}
  <2>1. PICK tag \in Seq(Char) :
          /\ Places(t, tag, p + Len(tag)) # {}
          /\ ElementEnd(t, p) = Min(Places(t, tag, p + Len(tag))) + Len(tag) - 1
          /\ Len(tag) >= 2
    BY <1>5, DollarElement
  <2> DEFINE S == Places(t, tag, p + Len(tag))
  <2>2. Len(tag) \in Nat
    OBVIOUS
  <2>3. \A q \in S : q \in Nat /\ q >= p + Len(tag) /\ q + Len(tag) - 1 <= Len(t)
    BY <1>1, <2>2, PlacesAreNumbers
  <2>4. S # {} /\ ElementEnd(t, p) = Min(S) + Len(tag) - 1
    BY <2>1
  <2> HIDE DEF S
  <2>5. Min(S) \in S
    BY <2>3, <2>4, MinPosition
  <2>6. /\ Min(S) \in Nat /\ Min(S) >= p + Len(tag)
        /\ Min(S) + Len(tag) - 1 <= Len(t)
    BY <2>3, <2>5
  <2>7. Min(S) + Len(tag) - 1 \in p..Len(t)
    BY <1>1, <2>1, <2>2, <2>6
  <2> QED
    BY <2>4, <2>7
<1>6. CASE /\ t[p] # "'" /\ ClosedTagsAt(t, p) = {}
           /\ ~ (p < Len(t) /\ t[p] = "-" /\ t[p + 1] = "-")
           /\ ~ (p < Len(t) /\ t[p] = "/" /\ t[p + 1] = "*")
  <2>1. ~ IsComment(t, p)
    BY <1>1, <1>6, TwoStand DEF IsComment, Stands
  <2> QED
    BY <1>1, <1>6, <2>1, OtherElement
<1> QED
  BY <1>2, <1>3, <1>4, <1>5, <1>6

-----------------------------------------------------------------------------
(* How elements cover a text.                                              *)

(* Cover is the recursion it says.                                         *)
LEMMA CoverSteps ==
  ASSUME NEW t \in Seq(Char)
  PROVE  /\ Cover(t)[0] = 0
         /\ \A p \in 1..Len(t) :
              Cover(t)[p] = IF p <= Cover(t)[p - 1] THEN Cover(t)[p - 1]
                                                    ELSE ElementEnd(t, p)
<1> DEFINE n == Len(t)
           next(before, p) == IF p <= before THEN before ELSE ElementEnd(t, p)
           isRun(f, k) == f[0] = 0 /\ \A p \in 1..k : f[p] = next(f[p - 1], p)
           runs == {k \in 0..n : \E f : isRun(f, k)}
<1>1. n \in Nat
  OBVIOUS
<1> HIDE DEF n, next
<1>2. 0 \in runs
  <2> DEFINE zero == [p \in {0} |-> 0]
  <2>1. zero[0] = 0
    OBVIOUS
  <2> HIDE DEF zero
  <2>2. isRun(zero, 0)
    BY <2>1
  <2> HIDE DEF isRun
  <2> QED
    BY <1>1, <2>2
<1>3. ASSUME NEW k \in 1..n, k - 1 \in runs PROVE k \in runs
  <2>1. PICK f : isRun(f, k - 1)
    BY <1>3
  <2> DEFINE g == [p \in 0..k |-> IF p = k THEN next(f[k - 1], k) ELSE f[p]]
  <2>2. g[0] = 0
    BY <1>1, <2>1
  <2>3. ASSUME NEW p \in 1..k PROVE g[p] = next(g[p - 1], p)
    <3>1. k \in 1..n /\ k \in Nat /\ p \in 0..k /\ p - 1 \in 0..k /\ p - 1 # k
      BY <1>1
    <3>2. g[p - 1] = f[p - 1]
      BY <3>1
    <3>3. CASE p = k
      BY <3>1, <3>2, <3>3
    <3>4. CASE p # k
      <4>1. p \in 1..(k - 1)
        BY <3>1, <3>4
      <4>2. f[p] = next(f[p - 1], p)
        BY <2>1, <4>1
      <4>3. g[p] = f[p]
        BY <3>1, <3>4
      <4> QED
        BY <3>2, <4>2, <4>3
    <3> QED
      BY <3>3, <3>4
  <2> HIDE DEF g
  <2>4. isRun(g, k)
    BY <2>2, <2>3
  <2> HIDE DEF isRun
  <2> QED
    BY <1>1, <2>4
<1>4. n \in runs
  <2> HIDE DEF runs
  <2>1. \A k \in 0..n : k \in runs
    BY <1>1, <1>2, <1>3, AlongList
  <2> QED
    BY <1>1, <2>1
<1>5. PICK f : isRun(f, n)
  <2> HIDE DEF isRun
  <2> QED
    BY <1>4
<1> DEFINE g == [p \in 0..n |-> f[p]]
           whole(r) == r = [p \in 0..n |-> IF p = 0 THEN 0 ELSE next(r[p - 1], p)]
<1>6. whole(g)
  <2>1. ASSUME NEW p \in 0..n
        PROVE  g[p] = IF p = 0 THEN 0 ELSE next(g[p - 1], p)
    <3>1. CASE p = 0
      BY <1>1, <1>5, <3>1
    <3>2. CASE p # 0
      <4>1. p \in 1..n /\ p - 1 \in 0..n
        BY <1>1, <3>2
      <4>2. g[p] = f[p] /\ g[p - 1] = f[p - 1]
        BY <4>1
      <4>3. f[p] = next(f[p - 1], p)
        BY <1>5, <4>1
      <4> QED
        BY <3>2, <4>2, <4>3
    <3> QED
      BY <3>1, <3>2
  <2>2. g = [p \in 0..n |-> g[p]]
    OBVIOUS
  <2> HIDE DEF g
  <2> QED
    BY <2>1, <2>2
<1> DEFINE cover == CHOOSE r : whole(r)
<1>7. Cover(t) = cover
  BY DEF Cover, n, next
<1>8. whole(cover)
  <2> HIDE DEF whole
  <2> QED
    BY <1>6
<1> HIDE DEF cover
<1>9. \A p \in 0..n : cover[p] = IF p = 0 THEN 0 ELSE next(cover[p - 1], p)
  <2>1. cover = [p \in 0..n |-> IF p = 0 THEN 0 ELSE next(cover[p - 1], p)]
    BY <1>8
  <2> QED
    BY <2>1, Zenon
<1>10. cover[0] = 0
  BY <1>1, <1>9
<1>11. \A p \in 1..n : cover[p] = next(cover[p - 1], p)
  BY <1>1, <1>9
<1> QED
  BY <1>7, <1>10, <1>11 DEF n, next

(* Every position is covered by an element that ends there or behind it,   *)
(* within the text.                                                        *)
LEMMA CoverFits ==
  ASSUME NEW t \in Seq(Char)
  PROVE  \A p \in 0..Len(t) : Cover(t)[p] \in p..Len(t)
<1> DEFINE n == Len(t)
           good == {p \in 0..n : Cover(t)[p] \in p..n}
<1>1. n \in Nat
  OBVIOUS
<1>2. 0 \in good
  BY <1>1, CoverSteps
<1>3. ASSUME NEW p \in 1..n, p - 1 \in good PROVE p \in good
  <2>1. Cover(t)[p - 1] \in (p - 1)..n
    BY <1>3
  <2>2. Cover(t)[p] = IF p <= Cover(t)[p - 1] THEN Cover(t)[p - 1] ELSE ElementEnd(t, p)
    BY CoverSteps
  <2>3. ElementEnd(t, p) \in p..n
    BY ElementFits
  <2>4. Cover(t)[p] \in p..n
    <3> HIDE DEF n
    <3>1. CASE p <= Cover(t)[p - 1]
      BY <1>1, <2>1, <2>2, <3>1
    <3>2. CASE ~ (p <= Cover(t)[p - 1])
      BY <1>1, <2>2, <2>3, <3>2
    <3> QED
      BY <3>1, <3>2
  <2> QED
    BY <1>1, <2>4
<1>4. \A p \in 0..n : p \in good
  <2> HIDE DEF n, good
  <2> QED
    BY <1>1, <1>2, <1>3, AlongList
<1> QED
  BY <1>4

-----------------------------------------------------------------------------
(* Where an element can start: at a start, or behind the text.             *)
Boundary(t, p) == p \in 1..(Len(t) + 1) /\ Cover(t)[p - 1] = p - 1

(* A text starts with an element.                                          *)
LEMMA FirstBoundary ==
  ASSUME NEW t \in Seq(Char)
  PROVE  Boundary(t, 1)
<1>1. Len(t) \in Nat /\ 1 - 1 = 0
  OBVIOUS
<1> QED
  BY <1>1, CoverSteps DEF Boundary

(* A boundary within the text is a start.                                  *)
LEMMA BoundaryStarts ==
  ASSUME NEW t \in Seq(Char), NEW p
  PROVE  p \in Starts(t) <=> Boundary(t, p) /\ p <= Len(t)
<1>1. Len(t) \in Nat /\ DOMAIN t = 1..Len(t)
  OBVIOUS
<1> QED
  BY <1>1 DEF Starts, Boundary

(* All positions of an element are covered by it.                          *)
LEMMA ElementCovers ==
  ASSUME NEW t \in Seq(Char), NEW p \in Starts(t)
  PROVE  \A x \in p..ElementEnd(t, p) : Cover(t)[x] = ElementEnd(t, p)
<1> DEFINE e == ElementEnd(t, p)
           good == {k \in 0..(e - p) : Cover(t)[p + k] = e}
<1>1. p \in 1..Len(t) /\ Len(t) \in Nat /\ Cover(t)[p - 1] = p - 1
  BY BoundaryStarts DEF Boundary
<1>2. e \in p..Len(t)
  BY <1>1, ElementFits
<1>3. Cover(t)[p] = e
  <2>1. Cover(t)[p] = IF p <= Cover(t)[p - 1] THEN Cover(t)[p - 1] ELSE ElementEnd(t, p)
    BY <1>1, CoverSteps
  <2>2. ~ (p <= Cover(t)[p - 1])
    BY <1>1
  <2> QED
    BY <2>1, <2>2
<1> HIDE DEF e
<1>4. 0 \in good
  <2>1. p + 0 = p
    BY <1>1
  <2> QED
    BY <1>1, <1>2, <1>3, <2>1
<1>5. ASSUME NEW k \in 1..(e - p), k - 1 \in good PROVE k \in good
  <2>1. p + k \in 1..Len(t) /\ (p + k) - 1 = p + (k - 1) /\ p + k <= e
    BY <1>1, <1>2
  <2>2. Cover(t)[(p + k) - 1] = e
    BY <1>5, <2>1
  <2>3. Cover(t)[p + k] = e
    BY <2>1, <2>2, CoverSteps
  <2> QED
    BY <2>3
<1>6. \A k \in 0..(e - p) : k \in good
  <2>1. e - p \in Nat
    BY <1>1, <1>2
  <2> HIDE DEF good
  <2> QED
    BY <1>4, <1>5, <2>1, AlongList
<1>7. ASSUME NEW x \in p..e PROVE Cover(t)[x] = e
  <2>1. x - p \in 0..(e - p) /\ p + (x - p) = x
    BY <1>1, <1>2
  <2> QED
    BY <1>6, <2>1
<1> QED
  BY <1>7 DEF e

(* Behind an element the next one starts, and none starts within it.       *)
LEMMA NextBoundary ==
  ASSUME NEW t \in Seq(Char), NEW p \in Starts(t)
  PROVE  /\ Boundary(t, ElementEnd(t, p) + 1)
         /\ \A x \in p..ElementEnd(t, p) : x \in Starts(t) => x = p
<1> DEFINE e == ElementEnd(t, p)
<1>1. p \in 1..Len(t) /\ Len(t) \in Nat
  BY BoundaryStarts DEF Boundary
<1>2. e \in p..Len(t)
  BY <1>1, ElementFits
<1>3. \A x \in p..e : Cover(t)[x] = e
  BY ElementCovers
<1> HIDE DEF e
<1>4. Boundary(t, e + 1)
  <2>1. e + 1 \in 1..(Len(t) + 1) /\ (e + 1) - 1 = e /\ e \in p..e
    BY <1>1, <1>2
  <2> QED
    BY <1>3, <2>1 DEF Boundary
<1>5. ASSUME NEW x \in p..e, x \in Starts(t) PROVE x = p
  <2>1. Cover(t)[x - 1] = x - 1
    BY <1>5, BoundaryStarts DEF Boundary
  <2>2. x # p => x - 1 \in p..e /\ x - 1 # e
    BY <1>1, <1>2
  <2> QED
    BY <1>3, <2>1, <2>2
<1> QED
  BY <1>4, <1>5 DEF e

(* A position lies in a comment if the element around it is one.           *)
LEMMA CommentElement ==
  ASSUME NEW t \in Seq(Char), NEW p \in Starts(t), NEW x \in p..ElementEnd(t, p)
  PROVE  x \in InComment(t) <=> IsComment(t, p)
<1>1. IsComment(t, p) => x \in InComment(t)
  BY DEF InComment, Comments
<1>2. ASSUME x \in InComment(t) PROVE IsComment(t, p)
  <2>1. PICK c \in Starts(t) : IsComment(t, c) /\ x \in c..ElementEnd(t, c)
    BY <1>2 DEF InComment, Comments
  <2>2. /\ p \in 1..Len(t) /\ c \in 1..Len(t) /\ Len(t) \in Nat
    BY BoundaryStarts DEF Boundary
  <2>3. ElementEnd(t, p) \in p..Len(t) /\ ElementEnd(t, c) \in c..Len(t)
    BY <2>2, ElementFits
  <2>4. p \in c..ElementEnd(t, c) \/ c \in p..ElementEnd(t, p)
    BY <2>1, <2>2, <2>3
  <2>5. c = p
    BY <2>4, NextBoundary
  <2> QED
    BY <2>1, <2>5
<1> QED
  BY <1>1, <1>2

-----------------------------------------------------------------------------
(* What stands between two positions, and the statements up to one.        *)

(* A character behind a joined text.                                       *)
LEMMA JoinedLast ==
  ASSUME NEW u \in Seq(Char), NEW v \in Seq(Char), NEW c \in Char
  PROVE  (u \o v) \o <<c>> = u \o (v \o <<c>>)
<1>1. <<c>> \in Seq(Char)
  OBVIOUS
<1> QED
  BY <1>1, ConcatAssociative

(* A text between two positions is a text.                                 *)
LEMMA BetweenType ==
  ASSUME NEW t \in Seq(Char), NEW a \in Nat, NEW b \in (a + 1)..(Len(t) + 1)
  PROVE  Between(t, a, b) \in Seq(Char)
<1> DEFINE n == b - a - 1
           parts == [k \in 1..n |-> IF a + k \in InComment(t) THEN <<>> ELSE <<t[a + k]>>]
<1>1. n \in Nat /\ Len(t) \in Nat /\ \A k \in 1..n : a + k \in 1..Len(t)
  OBVIOUS
<1>2. \A k \in 1..n : parts[k] \in Seq(Char)
  <2>1. \A k \in 1..n : <<t[a + k]>> \in Seq(Char) /\ <<>> \in Seq(Char)
    BY <1>1
  <2> HIDE DEF n
  <2> QED
    BY <2>1
<1>3. parts \in [1..n -> Seq(Char)]
  <2> HIDE DEF n
  <2> QED
    BY <1>2
<1>4. Between(t, a, b) = FlattenSeq(parts)
  BY DEF Between
<1> HIDE DEF n, parts
<1> QED
  BY <1>1, <1>3, <1>4, FlattenType

(* Nothing stands between a position and the next.                         *)
LEMMA BetweenNeighbours ==
  ASSUME NEW t, NEW a \in Nat
  PROVE  Between(t, a, a + 1) = <<>>
<1>1. (a + 1) - a - 1 = 0
  OBVIOUS
<1> DEFINE parts == [k \in 1..0 |-> IF a + k \in InComment(t) THEN <<>> ELSE <<t[a + k]>>]
<1>2. Between(t, a, a + 1) = FlattenSeq(parts)
  BY <1>1 DEF Between
<1>3. parts = <<>>
  OBVIOUS
<1> HIDE DEF parts
<1> QED
  BY <1>2, <1>3 DEF FlattenSeq

(* One character further: it is there unless it belongs to a comment.      *)
LEMMA BetweenStep ==
  ASSUME NEW t \in Seq(Char), NEW a \in Nat, NEW b \in (a + 1)..Len(t)
  PROVE  Between(t, a, b + 1) =
           Between(t, a, b) \o (IF b \in InComment(t) THEN <<>> ELSE <<t[b]>>)
<1> DEFINE n == b - a - 1
           part(k) == IF a + k \in InComment(t) THEN <<>> ELSE <<t[a + k]>>
           parts == [k \in 1..(n + 1) |-> part(k)]
           fewer == [k \in 1..n |-> part(k)]
<1>1. /\ n \in Nat /\ Len(t) \in Nat /\ (b + 1) - a - 1 = n + 1
      /\ \A k \in 1..(n + 1) : a + k \in 1..Len(t)
      /\ a + (n + 1) = b
  OBVIOUS
<1>2. Between(t, a, b + 1) = FlattenSeq(parts)
  <2> HIDE DEF n
  <2> QED
    BY <1>1 DEF Between
<1>3. Between(t, a, b) = FlattenSeq(fewer)
  BY DEF Between
<1>4. \A k \in 1..(n + 1) : part(k) \in Seq(Char)
  <2>1. \A k \in 1..(n + 1) : <<t[a + k]>> \in Seq(Char) /\ <<>> \in Seq(Char)
    BY <1>1
  <2> HIDE DEF n
  <2> QED
    BY <2>1
<1>5. parts \in [1..(n + 1) -> Seq(Char)]
  <2> HIDE DEF n, part
  <2> QED
    BY <1>4
<1>6. [k \in 1..n |-> parts[k]] = fewer
  <2>1. \A k \in 1..n : k \in 1..(n + 1)
    BY <1>1
  <2> HIDE DEF n, part
  <2> QED
    BY <2>1
<1>7. parts[n + 1] = IF b \in InComment(t) THEN <<>> ELSE <<t[b]>>
  <2>1. n + 1 \in 1..(n + 1)
    BY <1>1
  <2> HIDE DEF n
  <2> QED
    BY <1>1, <2>1
<1> HIDE DEF n, part, parts, fewer
<1>8. FlattenSeq(parts) = FlattenSeq([k \in 1..n |-> parts[k]]) \o parts[n + 1]
  BY <1>1, <1>5, FlattenLast
<1> QED
  BY <1>2, <1>3, <1>6, <1>7, <1>8

(* n characters further, none of them in a comment.                        *)
LEMMA BetweenTaken ==
  ASSUME NEW t \in Seq(Char), NEW a \in Nat, NEW b \in (a + 1)..(Len(t) + 1),
         NEW n \in Nat, b + n <= Len(t) + 1,
         \A x \in b..(b + n - 1) : x \notin InComment(t)
  PROVE  Between(t, a, b + n) = Between(t, a, b) \o SubSeq(t, b, b + n - 1)
<1> DEFINE good == {k \in 0..n :
             Between(t, a, b + k) = Between(t, a, b) \o SubSeq(t, b, b + k - 1)}
<1>1. Len(t) \in Nat /\ b \in Nat /\ b >= 1
  OBVIOUS
<1>2. Between(t, a, b) \in Seq(Char)
  BY BetweenType
<1>3. 0 \in good
  <2>1. b + 0 - 1 < b /\ b \in Int /\ b + 0 - 1 \in Int /\ b + 0 = b
    BY <1>1
  <2>2. SubSeq(t, b, b + 0 - 1) = <<>>
    BY <2>1, SubSeqEmpty
  <2>3. Between(t, a, b) \o <<>> = Between(t, a, b)
    BY <1>2, ConcatEmptySeq
  <2>4. Between(t, a, b + 0) = Between(t, a, b) \o SubSeq(t, b, b + 0 - 1)
    BY <2>1, <2>2, <2>3
  <2> QED
    BY <2>4
<1>4. ASSUME NEW k \in 1..n, k - 1 \in good PROVE k \in good
  <2> DEFINE x == b + (k - 1)
  <2>1. /\ x \in (a + 1)..Len(t) /\ x \in b..(b + n - 1) /\ x + 1 = b + k /\ x \in Int
        /\ b + k - 1 = x /\ b + (k - 1) - 1 = x - 1 /\ b \in 1..Len(t) /\ x \in b..Len(t)
    BY <1>1
  <2>2. Between(t, a, x) = Between(t, a, b) \o SubSeq(t, b, x - 1)
    BY <1>4, <2>1
  <2> HIDE DEF x
  <2>3. Between(t, a, x + 1) = Between(t, a, x) \o <<t[x]>>
    BY <2>1, BetweenStep
  <2>4. SubSeq(t, b, x) = SubSeq(t, b, x - 1) \o <<t[x]>>
    BY <2>1, SubSeqRecursiveSecond
  <2>5. SubSeq(t, b, x - 1) \in Seq(Char)
    <3>1. b \in Int /\ x - 1 \in Int /\ \A m \in b..(x - 1) : t[m] \in Char
      BY <1>1, <2>1
    <3> QED
      BY <3>1, SubSeqProperties
  <2>6. <<t[x]>> \in Seq(Char)
    BY <1>1, <2>1
  <2>7. (Between(t, a, b) \o SubSeq(t, b, x - 1)) \o <<t[x]>>
          = Between(t, a, b) \o (SubSeq(t, b, x - 1) \o <<t[x]>>)
    <3>1. t[x] \in Char
      BY <1>1, <2>1
    <3> QED
      BY <1>2, <2>5, <3>1, JoinedLast
  <2>8. Between(t, a, x + 1) = Between(t, a, b) \o SubSeq(t, b, x)
    BY <2>2, <2>3, <2>4, <2>7, Zenon
  <2>9. Between(t, a, b + k) = Between(t, a, b) \o SubSeq(t, b, b + k - 1)
    BY <2>1, <2>8, Zenon
  <2>10. k \in 0..n
    OBVIOUS
  <2> QED
    BY <2>9, <2>10, Zenon
<1>5. n \in good
  <2> HIDE DEF good
  <2>1. \A k \in 0..n : k \in good
    BY <1>3, <1>4, AlongList
  <2> QED
    BY <2>1
<1> QED
  BY <1>5

(* n characters further, all of them in a comment.                         *)
LEMMA BetweenSkipped ==
  ASSUME NEW t \in Seq(Char), NEW a \in Nat, NEW b \in (a + 1)..(Len(t) + 1),
         NEW n \in Nat, b + n <= Len(t) + 1,
         \A x \in b..(b + n - 1) : x \in InComment(t)
  PROVE  Between(t, a, b + n) = Between(t, a, b)
<1> DEFINE good == {k \in 0..n : Between(t, a, b + k) = Between(t, a, b)}
<1>1. Len(t) \in Nat /\ b \in Nat /\ b >= 1
  OBVIOUS
<1>2. Between(t, a, b) \in Seq(Char)
  BY BetweenType
<1>3. 0 \in good
  <2>1. b + 0 = b
    BY <1>1
  <2>2. Between(t, a, b + 0) = Between(t, a, b)
    BY <2>1
  <2> QED
    BY <2>2
<1>4. ASSUME NEW k \in 1..n, k - 1 \in good PROVE k \in good
  <2> DEFINE x == b + (k - 1)
  <2>1. x \in (a + 1)..Len(t) /\ x \in b..(b + n - 1) /\ x + 1 = b + k
    BY <1>1
  <2>2. Between(t, a, x) = Between(t, a, b)
    BY <1>4
  <2> HIDE DEF x
  <2>3. Between(t, a, x + 1) = Between(t, a, x) \o <<>>
    BY <2>1, BetweenStep
  <2>4. Between(t, a, b) \o <<>> = Between(t, a, b)
    BY <1>2, ConcatEmptySeq
  <2>5. Between(t, a, b + k) = Between(t, a, b)
    BY <2>1, <2>2, <2>3, <2>4
  <2> QED
    BY <2>5
<1>5. n \in good
  <2> HIDE DEF good
  <2>1. \A k \in 0..n : k \in good
    BY <1>3, <1>4, AlongList
  <2> QED
    BY <2>1
<1> QED
  BY <1>5

-----------------------------------------------------------------------------
(* The end before a position is a position before it, ...                  *)
LEMMA EndBeforeFits ==
  ASSUME NEW t \in Seq(Char), NEW p \in 1..(Len(t) + 1)
  PROVE  EndBefore(t, p) \in 0..(p - 1)
<1> DEFINE S == {0} \cup {e \in Ends(t) : e < p}
<1>1. Len(t) \in Nat /\ Ends(t) \subseteq 1..(Len(t) + 1)
  BY DEF Ends, Starts
<1>2. \A x \in S : x \in 0..(p - 1)
  BY <1>1
<1>3. Max(S) \in S
  <2> DEFINE gaps == {p - x : x \in S}
  <2>1. gaps \subseteq Nat /\ gaps # {}
    BY <1>1, <1>2
  <2>2. PICK x \in S : p - x = Min(gaps)
    <3>1. Min(gaps) \in gaps
      BY <2>1, MinPosition
    <3> QED
      BY <3>1
  <2>3. \A y \in S : Min(gaps) <= p - y
    BY <2>1, MinPosition
  <2> HIDE DEF gaps
  <2>4. \A y \in S : x >= y
    <3> HIDE DEF S
    <3>1. TAKE y \in S
    <3>2. x \in 0..(p - 1) /\ y \in 0..(p - 1) /\ p - x <= p - y
      BY <1>2, <2>2, <2>3
    <3> QED
      BY <1>1, <3>2
  <2> HIDE DEF S
  <2> QED
    BY <2>4 DEF Max
<1> QED
  BY <1>2, <1>3 DEF EndBefore

(* ... the same for the positions up to the next end, ...                  *)
LEMMA EndBeforeKeeps ==
  ASSUME NEW t \in Seq(Char), NEW b \in Nat, NEW n \in Nat,
         \A x \in b..(b + n - 1) : x \notin Ends(t)
  PROVE  EndBefore(t, b + n) = EndBefore(t, b)
<1>1. Ends(t) \subseteq Nat
  BY DEF Ends, Starts
<1>2. \A e \in Ends(t) : e < b + n <=> e < b
  <2>1. TAKE e \in Ends(t)
  <2>2. e \in Nat /\ e \notin b..(b + n - 1)
    BY <1>1
  <2> QED
    BY <2>2
<1>3. {e \in Ends(t) : e < b + n} = {e \in Ends(t) : e < b}
  BY <1>2
<1> QED
  BY <1>3 DEF EndBefore

(* ... and the end itself behind it.                                       *)
LEMMA EndBeforeNext ==
  ASSUME NEW t \in Seq(Char), NEW b \in Ends(t)
  PROVE  EndBefore(t, b + 1) = b
<1> DEFINE S == {0} \cup {e \in Ends(t) : e < b + 1}
<1>1. Ends(t) \subseteq Nat
  BY DEF Ends, Starts
<1>2. b \in S /\ b \in Nat /\ \A e \in S : e \in Nat /\ b >= e
  BY <1>1
<1>3. Max(S) = b
  <2> HIDE DEF S
  <2>1. Max(S) \in S /\ \A e \in S : Max(S) >= e
    BY <1>2 DEF Max
  <2>2. Max(S) \in Nat /\ Max(S) >= b /\ b >= Max(S)
    BY <1>2, <2>1
  <2> QED
    BY <1>2, <2>2
<1> QED
  BY <1>3 DEF EndBefore

-----------------------------------------------------------------------------
(* The statements that end at the first n positions.                       *)
StatementsTo(t, n) == FlattenSeq([p \in 1..n |-> StatementAt(t, p)])

(* What ends at a position is at most one text.                            *)
LEMMA StatementType ==
  ASSUME NEW t \in Seq(Char), NEW p \in 1..(Len(t) + 1)
  PROVE  StatementAt(t, p) \in Seq(Seq(Char))
<1> DEFINE a == EndBefore(t, p)
           s == TrimSpace(Between(t, a, p))
<1>1. a \in Nat /\ p \in (a + 1)..(Len(t) + 1) /\ Len(t) \in Nat
  <2>1. a \in 0..(p - 1) /\ Len(t) \in Nat
    BY EndBeforeFits
  <2> HIDE DEF a
  <2> QED
    BY <2>1
<1>2. s \in Seq(Char)
  <2> HIDE DEF a
  <2>1. Between(t, a, p) \in Seq(Char)
    BY <1>1, BetweenType
  <2> QED
    BY <2>1, TrimSpaceType
<1>3. StatementAt(t, p) = IF p \in Ends(t) /\ s # <<>> THEN <<s>> ELSE <<>>
  BY DEF StatementAt
<1> HIDE DEF s
<1>4. <<s>> \in Seq(Seq(Char)) /\ <<>> \in Seq(Seq(Char))
  BY <1>2
<1> QED
  BY <1>3, <1>4

(* One position further.                                                   *)
LEMMA StatementsStep ==
  ASSUME NEW t \in Seq(Char), NEW n \in 0..Len(t)
  PROVE  /\ StatementsTo(t, n) \in Seq(Seq(Char))
         /\ StatementsTo(t, n + 1) = StatementsTo(t, n) \o StatementAt(t, n + 1)
<1> DEFINE parts == [p \in 1..(n + 1) |-> StatementAt(t, p)]
           fewer == [p \in 1..n |-> StatementAt(t, p)]
<1>1. n \in Nat /\ Len(t) \in Nat /\ \A p \in 1..(n + 1) : p \in 1..(Len(t) + 1)
  OBVIOUS
<1>2. \A p \in 1..(n + 1) : StatementAt(t, p) \in Seq(Seq(Char))
  BY <1>1, StatementType
<1>3. parts \in [1..(n + 1) -> Seq(Seq(Char))]
  BY <1>2
<1>4. fewer \in [1..n -> Seq(Seq(Char))] /\ fewer = [p \in 1..n |-> parts[p]]
  <2>1. \A p \in 1..n : p \in 1..(n + 1)
    BY <1>1
  <2> QED
    BY <1>2, <2>1
<1>5. parts[n + 1] = StatementAt(t, n + 1)
  BY <1>1
<1> HIDE DEF parts, fewer
<1>6. FlattenSeq(parts) = FlattenSeq([p \in 1..n |-> parts[p]]) \o parts[n + 1]
  BY <1>1, <1>3, FlattenLast
<1>7. FlattenSeq(fewer) \in Seq(Seq(Char))
  BY <1>1, <1>4, FlattenType
<1> QED
  BY <1>4, <1>5, <1>6, <1>7 DEF StatementsTo, parts, fewer

(* n positions further, none of them an end.                               *)
LEMMA StatementsKeep ==
  ASSUME NEW t \in Seq(Char), NEW b \in 1..(Len(t) + 1), NEW n \in Nat,
         b + n <= Len(t) + 1, \A x \in b..(b + n - 1) : x \notin Ends(t)
  PROVE  StatementsTo(t, b + n - 1) = StatementsTo(t, b - 1)
<1> DEFINE good == {k \in 0..n : StatementsTo(t, b + k - 1) = StatementsTo(t, b - 1)}
<1>1. Len(t) \in Nat /\ b \in Nat /\ b >= 1
  OBVIOUS
<1>2. 0 \in good
  <2>1. b + 0 - 1 = b - 1
    BY <1>1
  <2>2. StatementsTo(t, b + 0 - 1) = StatementsTo(t, b - 1)
    BY <2>1
  <2> QED
    BY <2>2
<1>3. ASSUME NEW k \in 1..n, k - 1 \in good PROVE k \in good
  <2> DEFINE x == b + (k - 1) - 1
  <2>1. x \in 0..Len(t) /\ x + 1 \in b..(b + n - 1) /\ x + 1 = b + k - 1
    BY <1>1
  <2>2. StatementsTo(t, x) = StatementsTo(t, b - 1)
    BY <1>3
  <2> HIDE DEF x
  <2>3. StatementAt(t, x + 1) = <<>>
    BY <2>1 DEF StatementAt
  <2>4. StatementsTo(t, x + 1) = StatementsTo(t, x) \o <<>>
    BY <2>1, <2>3, StatementsStep
  <2>5. StatementsTo(t, x) \o <<>> = StatementsTo(t, x)
    <3>1. StatementsTo(t, x) \in Seq(Seq(Char))
      BY <2>1, StatementsStep
    <3> QED
      BY <3>1, ConcatEmptySeq
  <2>6. StatementsTo(t, b + k - 1) = StatementsTo(t, b - 1)
    BY <2>1, <2>2, <2>4, <2>5
  <2> QED
    BY <2>6
<1>4. n \in good
  <2> HIDE DEF good
  <2>1. \A k \in 0..n : k \in good
    BY <1>2, <1>3, AlongList
  <2> QED
    BY <2>1
<1> QED
  BY <1>4

-----------------------------------------------------------------------------
(* The scan, read beside the reference.                                    *)

(* What was read so far: the text since the last end, and the statements   *)
(* that have ended.                                                        *)
Reading ==
  /\ buf = Between(sql, EndBefore(sql, i), i)
  /\ stmts = StatementsTo(sql, i - 1)

(* The element the scan is in, and that it is not over yet.                *)
InElement ==
  /\ st = "normal" => Boundary(sql, i)
  /\ st = "quote" =>
       \E p \in Starts(sql) :
         /\ sql[p] = "'" /\ p < i
         /\ \A q \in Places(sql, <<"'">>, p + 1) : q >= i
  /\ st = "line" =>
       \E p \in Starts(sql) :
         /\ p < Len(sql) /\ sql[p] = "-" /\ sql[p + 1] = "-" /\ p + 2 <= i
         /\ \A q \in Places(sql, <<"nl">>, p + 2) : q >= i
  /\ st = "block" =>
       \E p \in Starts(sql) :
         /\ p < Len(sql) /\ sql[p] = "/" /\ sql[p + 1] = "*" /\ p + 2 <= i
         /\ \A q \in Places(sql, <<"*", "/">>, p + 2) : q >= i

(* No statement ends within an element that is not a semicolon, and the    *)
(* whole of it is a comment, or nothing of it.                             *)
LEMMA InsideElement ==
  ASSUME NEW t \in Seq(Char), NEW p \in Starts(t), t[p] # "semi",
         NEW x \in p..ElementEnd(t, p)
  PROVE  x \notin Ends(t) /\ (x \in InComment(t) <=> IsComment(t, p))
<1>1. p \in 1..Len(t) /\ Len(t) \in Nat
  BY BoundaryStarts DEF Boundary
<1>2. ElementEnd(t, p) \in p..Len(t)
  BY <1>1, ElementFits
<1>3. x \in Starts(t) => x = p
  BY NextBoundary
<1>4. x # Len(t) + 1
  BY <1>1, <1>2
<1> QED
  BY <1>3, <1>4, CommentElement DEF Ends

(* Characters that are written to buf.                                     *)
LEMMA ReadingTakes ==
  ASSUME SplitTypeOK, Reading, NEW n \in Nat, i + n <= Len(sql) + 1, Take(n),
         \A x \in i..(i + n - 1) : x \notin Ends(sql) /\ x \notin InComment(sql),
         sql' = sql, stmts' = stmts
  PROVE  Reading'
<1> DEFINE a == EndBefore(sql, i)
<1>1. sql \in Seq(Char) /\ i \in 1..(Len(sql) + 1) /\ Len(sql) \in Nat
  BY DEF SplitTypeOK
<1>0. \A x \in i..(i + n - 1) : x \notin Ends(sql)
  OBVIOUS
<1>2. EndBefore(sql, i + n) = a
  <2>1. i \in Nat
    BY <1>1
  <2> QED
    BY <1>0, <1>1, <2>1, EndBeforeKeeps
<1>3. a \in 0..(i - 1)
  BY <1>1, EndBeforeFits
<1>4. a \in Nat /\ i \in (a + 1)..(Len(sql) + 1)
  BY <1>1, <1>3
<1>5. Between(sql, a, i + n) = Between(sql, a, i) \o SubSeq(sql, i, i + n - 1)
  <2> HIDE DEF a
  <2> QED
    BY <1>1, <1>4, BetweenTaken
<1>6. StatementsTo(sql, i + n - 1) = StatementsTo(sql, i - 1)
  BY <1>0, <1>1, StatementsKeep
<1>7. i' = i + n /\ buf' = buf \o SubSeq(sql, i, i + n - 1)
  BY DEF Take
<1>8. buf' = Between(sql, EndBefore(sql, i + n), i + n)
  BY <1>2, <1>5, <1>7 DEF Reading
<1>9. stmts' = StatementsTo(sql, i + n - 1)
  BY <1>6 DEF Reading
<1>10. i' = i + n /\ i' - 1 = i + n - 1
  BY <1>1, <1>7
<1>11. buf' = Between(sql', EndBefore(sql', i'), i') /\ stmts' = StatementsTo(sql', i' - 1)
  BY <1>8, <1>9, <1>10
<1> QED
  BY <1>11 DEF Reading

(* Characters that are left out.                                           *)
LEMMA ReadingSkips ==
  ASSUME SplitTypeOK, Reading, NEW n \in Nat, i + n <= Len(sql) + 1, Skip(n),
         \A x \in i..(i + n - 1) : x \notin Ends(sql) /\ x \in InComment(sql),
         sql' = sql, stmts' = stmts
  PROVE  Reading'
<1> DEFINE a == EndBefore(sql, i)
<1>1. sql \in Seq(Char) /\ i \in 1..(Len(sql) + 1) /\ Len(sql) \in Nat
  BY DEF SplitTypeOK
<1>0. \A x \in i..(i + n - 1) : x \notin Ends(sql)
  OBVIOUS
<1>2. EndBefore(sql, i + n) = a
  <2>1. i \in Nat
    BY <1>1
  <2> QED
    BY <1>0, <1>1, <2>1, EndBeforeKeeps
<1>3. a \in 0..(i - 1)
  BY <1>1, EndBeforeFits
<1>4. a \in Nat /\ i \in (a + 1)..(Len(sql) + 1)
  BY <1>1, <1>3
<1>5. Between(sql, a, i + n) = Between(sql, a, i)
  <2> HIDE DEF a
  <2> QED
    BY <1>1, <1>4, BetweenSkipped
<1>6. StatementsTo(sql, i + n - 1) = StatementsTo(sql, i - 1)
  BY <1>0, <1>1, StatementsKeep
<1>7. i' = i + n /\ buf' = buf
  BY DEF Skip
<1>8. buf' = Between(sql, EndBefore(sql, i + n), i + n)
  BY <1>2, <1>5, <1>7 DEF Reading
<1>9. stmts' = StatementsTo(sql, i + n - 1)
  BY <1>6 DEF Reading
<1>10. i' = i + n /\ i' - 1 = i + n - 1
  BY <1>1, <1>7
<1>11. buf' = Between(sql', EndBefore(sql', i'), i') /\ stmts' = StatementsTo(sql', i' - 1)
  BY <1>8, <1>9, <1>10
<1> QED
  BY <1>11 DEF Reading

(* What stands at the position read next.                                  *)
LEMMA AtMeans ==
  ASSUME SplitTypeOK
  PROVE  /\ \A c : At(<<c>>) <=> i <= Len(sql) /\ sql[i] = c
         /\ \A c, d : At(<<c, d>>) <=> i < Len(sql) /\ sql[i] = c /\ sql[i + 1] = d
<1>1. sql \in Seq(Char) /\ i \in Nat \ {0} /\ Len(sql) \in Nat
  BY DEF SplitTypeOK
<1>2. \A c : At(<<c>>) <=> i <= Len(sql) /\ sql[i] = c
  <2>1. TAKE c
  <2>2. i \in Places(sql, <<c>>, i) <=> i \in i..Len(sql) /\ sql[i] = c
    BY <1>1, OneStands
  <2> QED
    BY <1>1, <2>2 DEF At
<1>3. \A c, d : At(<<c, d>>) <=> i < Len(sql) /\ sql[i] = c /\ sql[i + 1] = d
  <2>1. TAKE c, d
  <2>2. i \in Places(sql, <<c, d>>, i)
          <=> i \in i..(Len(sql) - 1) /\ sql[i] = c /\ sql[i + 1] = d
    BY <1>1, TwoStand
  <2> QED
    BY <1>1, <2>2 DEF At
<1> QED
  BY <1>2, <1>3

-----------------------------------------------------------------------------
(* A quote opens.                                                          *)
LEMMA OpenQuoteReads ==
  ASSUME SplitTypeOK, Reading, InElement, OpenQuote
  PROVE  Reading' /\ InElement'
<1>1. sql \in Seq(Char) /\ i \in 1..Len(sql) /\ Len(sql) \in Nat /\ sql[i] = "'"
  BY AtMeans DEF OpenQuote, SplitTypeOK
<1>2. i \in Starts(sql)
  BY <1>1, BoundaryStarts DEF OpenQuote, InElement
<1>3. ElementEnd(sql, i) \in i..Len(sql)
  BY <1>1, ElementFits
<1>4. ~ IsComment(sql, i)
  BY <1>1, TwoStand DEF IsComment, Stands
<1>5. Take(1) /\ i' = i + 1 /\ sql' = sql /\ stmts' = stmts /\ st' = "quote"
  BY DEF OpenQuote, Take, Goto
<1>6. Reading'
  <2>1. i + 1 <= Len(sql) + 1 /\ i \in i..ElementEnd(sql, i)
    BY <1>1, <1>3
  <2>2. i \notin Ends(sql) /\ i \notin InComment(sql)
    BY <1>1, <1>2, <1>4, <2>1, InsideElement
  <2>3. \A x \in i..(i + 1 - 1) : x = i
    BY <1>1
  <2> QED
    BY <1>5, <2>1, <2>2, <2>3, ReadingTakes
<1>7. \A q \in Places(sql, <<"'">>, i + 1) : q >= i + 1
  BY <1>1, OneStands
<1> QED
  BY <1>1, <1>2, <1>5, <1>6, <1>7 DEF InElement

(* A comment opens: the two forms.                                         *)
LEMMA OpenCommentReads ==
  ASSUME SplitTypeOK, Reading, InElement, OpenLineComment \/ OpenBlockComment
  PROVE  Reading' /\ InElement'
<1>1. sql \in Seq(Char) /\ i \in 1..(Len(sql) - 1) /\ Len(sql) \in Nat
  BY AtMeans DEF OpenLineComment, OpenBlockComment, SplitTypeOK
<1>2. i \in Starts(sql)
  BY <1>1, BoundaryStarts DEF OpenLineComment, OpenBlockComment, InElement
<1>3. Skip(2) /\ i' = i + 2 /\ sql' = sql /\ stmts' = stmts
  BY DEF OpenLineComment, OpenBlockComment, Skip, Goto
<1>4. CASE OpenLineComment
  <2>1. sql[i] = "-" /\ sql[i + 1] = "-" /\ st' = "line"
    BY <1>4, AtMeans DEF OpenLineComment, Goto
  <2> DEFINE S == Places(sql, <<"nl">>, i + 2)
  <2>2. /\ ElementEnd(sql, i) = FirstOr(S, Len(sql))
        /\ IsComment(sql, i)
    BY <1>1, <2>1, LineElement
  <2>3. S \subseteq Nat /\ \A q \in S : q >= i + 2
    <3>1. \A q \in S : q \in (i + 2)..Len(sql)
      BY <1>1, OneStands
    <3> QED
      BY <1>1, <3>1
  <2> HIDE DEF S
  <2>4. i + 1 <= ElementEnd(sql, i)
    <3>1. FirstOr(S, Len(sql)) = Len(sql) \/ FirstOr(S, Len(sql)) \in S
      BY <2>3, FirstOrFacts
    <3>2. \A q \in S : q \in Nat /\ q >= i + 1
      BY <1>1, <2>3
    <3>3. i + 1 <= Len(sql)
      BY <1>1
    <3>4. i + 1 <= FirstOr(S, Len(sql))
      BY <3>1, <3>2, <3>3
    <3> QED
      BY <2>2, <3>4
  <2>5. \A x \in i..(i + 2 - 1) : x \notin Ends(sql) /\ x \in InComment(sql)
    <3>1. ElementEnd(sql, i) \in Nat
      BY <1>1, ElementFits
    <3>2. \A x \in i..(i + 2 - 1) : x \in i..ElementEnd(sql, i)
      BY <1>1, <2>4, <3>1
    <3> QED
      BY <1>1, <1>2, <2>1, <2>2, <3>2, InsideElement
  <2>6. Reading'
    BY <1>1, <1>3, <2>5, ReadingSkips
  <2> QED
    BY <1>1, <1>2, <1>3, <2>1, <2>3, <2>6 DEF InElement, S
<1>5. CASE OpenBlockComment
  <2>1. sql[i] = "/" /\ sql[i + 1] = "*" /\ st' = "block"
    BY <1>5, AtMeans DEF OpenBlockComment, Goto
  <2> DEFINE P == Places(sql, <<"*", "/">>, i + 2)
             S == {q + 1 : q \in P}
  <2>2. /\ ElementEnd(sql, i) = FirstOr(S, Len(sql))
        /\ IsComment(sql, i)
    BY <1>1, <2>1, BlockElement
  <2>3. P \subseteq Nat /\ \A q \in P : q >= i + 2
    <3>1. \A q \in P : q \in (i + 2)..(Len(sql) - 1)
      BY <1>1, TwoStand
    <3> QED
      BY <1>1, <3>1
  <2> HIDE DEF P
  <2>a. S \subseteq Nat /\ \A q \in S : q >= i + 3
    <3>1. \A q \in P : q + 1 \in Nat /\ q + 1 >= i + 3
      BY <1>1, <2>3
    <3> QED
      BY <3>1
  <2> HIDE DEF S
  <2>4. i + 1 <= ElementEnd(sql, i)
    <3>1. FirstOr(S, Len(sql)) = Len(sql) \/ FirstOr(S, Len(sql)) \in S
      BY <2>a, FirstOrFacts
    <3>2. \A q \in S : q \in Nat /\ q >= i + 1
      BY <1>1, <2>a
    <3>3. i + 1 <= Len(sql)
      BY <1>1
    <3>4. i + 1 <= FirstOr(S, Len(sql))
      BY <3>1, <3>2, <3>3
    <3> QED
      BY <2>2, <3>4
  <2>5. \A x \in i..(i + 2 - 1) : x \notin Ends(sql) /\ x \in InComment(sql)
    <3>1. ElementEnd(sql, i) \in Nat
      BY <1>1, ElementFits
    <3>2. \A x \in i..(i + 2 - 1) : x \in i..ElementEnd(sql, i)
      BY <1>1, <2>4, <3>1
    <3> QED
      BY <1>1, <1>2, <2>1, <2>2, <3>2, InsideElement
  <2>6. Reading'
    BY <1>1, <1>3, <2>5, ReadingSkips
  <2> QED
    BY <1>1, <1>2, <1>3, <2>1, <2>3, <2>6 DEF InElement, P
<1> QED
  BY <1>4, <1>5

(* A dollar quote is one element, whatever is in it.                       *)
LEMMA DollarReads ==
  ASSUME SplitTypeOK, Reading, InElement, PlainDollars(sql), DollarBlock
  PROVE  Reading' /\ InElement'
<1>1. sql \in Seq(Char) /\ i \in 1..Len(sql) /\ Len(sql) \in Nat /\ sql[i] = "$"
  BY AtMeans DEF DollarBlock, SplitTypeOK
<1>2. i \in Starts(sql)
  BY <1>1, BoundaryStarts DEF DollarBlock, InElement
<1> DEFINE tag == SubSeq(sql, i, Min(Places(sql, <<"$">>, i + 1)))
           e == ElementEnd(sql, i)
<1>3. /\ ~ IsComment(sql, i)
      /\ Places(sql, <<"$">>, i + 1) # {}
      /\ Places(sql, tag, i + Len(tag)) # {}
      /\ e = Min(Places(sql, tag, i + Len(tag))) + Len(tag) - 1
      /\ Len(tag) \in Nat
  <2>1. ClosedTagsAt(sql, i) # {}
    BY <1>1, <1>2 DEF PlainDollars
  <2> QED
    BY <1>1, <2>1, DollarElement
<1>4. dollarTags = {tag}
  BY <1>3 DEF dollarTags
<1>5. /\ Take(Min(closings(tag)) + Len(tag) - i)
      /\ Min(closings(tag)) + Len(tag) - i \in Nat
  <2>1. closings(tag) # {} /\ Take(Min(closings(tag)) + Len(tag) - i)
    BY <1>4 DEF DollarBlock
  <2> QED
    BY <1>4, <2>1, DollarBlockFits DEF DollarBlock
<1>6. e \in i..Len(sql)
  BY <1>1, ElementFits
<1> HIDE DEF e
<1>7. Take(e + 1 - i)
  <2> DEFINE m == Min(closings(tag))
             l == Len(tag)
  <2>1. m + l - i \in Nat /\ e = m + l - 1 /\ l \in Nat /\ Take(m + l - i)
    BY <1>3, <1>5 DEF closings
  <2>2. m \in Nat
    <3> HIDE DEF tag
    <3>1. \A q \in closings(tag) : q \in Nat
      BY <1>1, <1>3 DEF closings, Places
    <3>2. closings(tag) # {}
      BY <1>3 DEF closings
    <3> QED
      BY <3>1, <3>2, MinPosition
  <2> HIDE DEF m, l
  <2>3. e + 1 - i = m + l - i
    BY <1>1, <2>1, <2>2
  <2> QED
    BY <2>1, <2>3
<1>8. sql' = sql /\ stmts' = stmts /\ st' = "normal"
  BY DEF DollarBlock, Goto
<1>9. Reading'
  <2>1. \A x \in i..e : x \notin Ends(sql) /\ x \notin InComment(sql)
    BY <1>1, <1>2, <1>3, InsideElement DEF e
  <2>2. e + 1 - i \in Nat /\ i + (e + 1 - i) <= Len(sql) + 1 /\ i + (e + 1 - i) - 1 = e
    BY <1>1, <1>6
  <2> QED
    BY <1>7, <1>8, <2>1, <2>2, ReadingTakes
<1>10. i' = e + 1
  BY <1>1, <1>6, <1>7 DEF Take
<1>11. Boundary(sql, e + 1)
  BY <1>1, <1>2, NextBoundary DEF e
<1> QED
  BY <1>8, <1>9, <1>10, <1>11 DEF InElement

(* A dollar that opens no dollar quote does not occur.                     *)
LEMMA NoLoneDollar ==
  ASSUME SplitTypeOK, InElement, PlainDollars(sql), LoneDollar
  PROVE  FALSE
<1>1. sql \in Seq(Char) /\ i \in 1..Len(sql) /\ Len(sql) \in Nat /\ sql[i] = "$"
  BY AtMeans DEF LoneDollar, SplitTypeOK
<1>2. i \in Starts(sql)
  BY <1>1, BoundaryStarts DEF LoneDollar, InElement
<1> DEFINE tag == SubSeq(sql, i, Min(Places(sql, <<"$">>, i + 1)))
<1>3. /\ Places(sql, <<"$">>, i + 1) # {}
      /\ Places(sql, tag, i + Len(tag)) # {}
  <2>1. ClosedTagsAt(sql, i) # {}
    BY <1>1, <1>2 DEF PlainDollars
  <2> QED
    BY <1>1, <2>1, DollarElement
<1>4. tag \in dollarTags
  BY <1>3 DEF dollarTags
<1> QED
  BY <1>3, <1>4 DEF LoneDollar, closings

(* A character that means nothing.                                         *)
LEMMA OtherReads ==
  ASSUME SplitTypeOK, Reading, InElement, OtherChar
  PROVE  Reading' /\ InElement'
<1>1. /\ sql \in Seq(Char) /\ i \in 1..Len(sql) /\ Len(sql) \in Nat
      /\ sql[i] \notin {"'", "$", "semi"}
  BY DEF OtherChar, SplitTypeOK
<1>2. i \in Starts(sql)
  BY <1>1, BoundaryStarts DEF OtherChar, InElement
<1>3. ~ IsComment(sql, i)
  <2>1. /\ ~ (i < Len(sql) /\ sql[i] = "-" /\ sql[i + 1] = "-")
        /\ ~ (i < Len(sql) /\ sql[i] = "/" /\ sql[i + 1] = "*")
    BY AtMeans DEF OtherChar
  <2> QED
    BY <1>1, <2>1, TwoStand DEF IsComment, Stands
<1>4. ClosedTagsAt(sql, i) = {}
  BY <1>1 DEF ClosedTagsAt, TagsAt
<1>5. ElementEnd(sql, i) = i
  BY <1>1, <1>3, <1>4, OtherElement
<1>6. Take(1) /\ i' = i + 1 /\ sql' = sql /\ stmts' = stmts /\ st' = "normal"
  BY DEF OtherChar, Take, Goto
<1>7. Reading'
  <2>1. i + 1 <= Len(sql) + 1 /\ i \in i..ElementEnd(sql, i)
    BY <1>1, <1>5
  <2>2. i \notin Ends(sql) /\ i \notin InComment(sql)
    BY <1>1, <1>2, <1>3, <2>1, InsideElement
  <2>3. \A x \in i..(i + 1 - 1) : x = i
    BY <1>1
  <2> QED
    BY <1>6, <2>1, <2>2, <2>3, ReadingTakes
<1>8. Boundary(sql, i + 1)
  BY <1>1, <1>2, <1>5, NextBoundary
<1> QED
  BY <1>6, <1>7, <1>8 DEF InElement

-----------------------------------------------------------------------------
(* What has been read when a statement ends is that statement.             *)
LEMMA EndReads ==
  ASSUME SplitTypeOK, Reading, i \in Ends(sql)
  PROVE  AppendNonEmpty(stmts, TrimSpace(buf)) = StatementsTo(sql, i)
<1> DEFINE s == TrimSpace(Between(sql, EndBefore(sql, i), i))
<1>1. sql \in Seq(Char) /\ i \in 1..(Len(sql) + 1) /\ Len(sql) \in Nat
  BY DEF SplitTypeOK
<1>2. i - 1 \in 0..Len(sql) /\ (i - 1) + 1 = i
  BY <1>1
<1>3. StatementsTo(sql, i) = StatementsTo(sql, i - 1) \o StatementAt(sql, i)
  BY <1>1, <1>2, StatementsStep
<1>4. StatementAt(sql, i) = IF s # <<>> THEN <<s>> ELSE <<>>
  BY DEF StatementAt
<1>5. stmts = StatementsTo(sql, i - 1) /\ TrimSpace(buf) = s
  BY DEF Reading
<1>6. stmts \in Seq(Seq(Char)) /\ s \in Seq(Char)
  BY <1>5, TrimSpaceType DEF SplitTypeOK
<1> HIDE DEF s
<1>7. AppendNonEmpty(stmts, s) = stmts \o (IF s # <<>> THEN <<s>> ELSE <<>>)
  <2>1. stmts \o <<>> = stmts /\ stmts \o <<s>> = Append(stmts, s)
    BY <1>6
  <2> QED
    BY <2>1 DEF AppendNonEmpty
<1> QED
  BY <1>3, <1>4, <1>5, <1>7

(* A semicolon that is an element ends a statement.                        *)
LEMMA SemicolonReads ==
  ASSUME SplitTypeOK, Reading, InElement, Semicolon
  PROVE  Reading' /\ InElement'
<1>1. sql \in Seq(Char) /\ i \in 1..Len(sql) /\ Len(sql) \in Nat /\ sql[i] = "semi"
  BY AtMeans DEF Semicolon, SplitTypeOK
<1>2. i \in Starts(sql)
  BY <1>1, BoundaryStarts DEF Semicolon, InElement
<1>3. i \in Ends(sql)
  BY <1>1, <1>2 DEF Ends
<1>4. ~ IsComment(sql, i)
  BY <1>1, TwoStand DEF IsComment, Stands
<1>5. ClosedTagsAt(sql, i) = {}
  BY <1>1 DEF ClosedTagsAt, TagsAt
<1>6. ElementEnd(sql, i) = i
  BY <1>1, <1>4, <1>5, OtherElement
<1>7. Boundary(sql, i + 1)
  BY <1>1, <1>2, <1>6, NextBoundary
<1>8. /\ i' = i + 1 /\ i' - 1 = i /\ sql' = sql /\ st' = "normal" /\ buf' = <<>>
      /\ stmts' = AppendNonEmpty(stmts, TrimSpace(buf))
  BY <1>1 DEF Semicolon
<1>9. EndBefore(sql, i + 1) = i
  BY <1>1, <1>3, EndBeforeNext
<1>10. Between(sql, i, i + 1) = <<>>
  BY <1>1, BetweenNeighbours
<1>11. stmts' = StatementsTo(sql, i)
  BY <1>3, <1>8, EndReads
<1>12. buf' = Between(sql', EndBefore(sql', i'), i') /\ stmts' = StatementsTo(sql', i' - 1)
  BY <1>8, <1>9, <1>10, <1>11
<1> QED
  BY <1>7, <1>8, <1>12 DEF Reading, InElement

-----------------------------------------------------------------------------
(* In a string: the next quote ends it.                                    *)
LEMMA InQuote ==
  ASSUME SplitTypeOK, InElement, st = "quote", i <= Len(sql)
  PROVE  \E p \in Starts(sql) :
           /\ p < i /\ sql[p] = "'" /\ ~ IsComment(sql, p)
           /\ i \in p..ElementEnd(sql, p)
           /\ sql[i] = "'" => ElementEnd(sql, p) = i
           /\ sql[i] # "'" => \A q \in Places(sql, <<"'">>, p + 1) : q >= i + 1
<1>1. sql \in Seq(Char) /\ i \in 1..Len(sql) /\ Len(sql) \in Nat
  BY DEF SplitTypeOK
<1>2. PICK p \in Starts(sql) :
        /\ sql[p] = "'" /\ p < i
        /\ \A q \in Places(sql, <<"'">>, p + 1) : q >= i
  BY DEF InElement
<1> DEFINE S == Places(sql, <<"'">>, p + 1)
<1>3. p \in 1..Len(sql)
  BY <1>1, BoundaryStarts DEF Boundary
<1>4. ElementEnd(sql, p) = FirstOr(S, Len(sql))
  BY <1>1, <1>2, <1>3, QuoteElement
<1>5. ~ IsComment(sql, p)
  BY <1>1, <1>2, <1>3, TwoStand DEF IsComment, Stands
<1>6. \A q : q \in S <=> q \in (p + 1)..Len(sql) /\ sql[q] = "'"
  BY <1>1, <1>3, OneStands
<1>7. \A q \in S : q >= i
  BY <1>2
<1> HIDE DEF S
<1>8. S \subseteq Nat
  BY <1>3, <1>6
<1>9. /\ S = {} => FirstOr(S, Len(sql)) = Len(sql)
      /\ S # {} => FirstOr(S, Len(sql)) \in S /\ \A q \in S : FirstOr(S, Len(sql)) <= q
  BY <1>8, FirstOrFacts
<1>10. i \in p..ElementEnd(sql, p)
  <2>1. CASE S = {}
    BY <1>1, <1>2, <1>3, <1>4, <1>9, <2>1
  <2>2. CASE S # {}
    BY <1>1, <1>2, <1>3, <1>4, <1>6, <1>7, <1>9, <2>2
  <2> QED
    BY <2>1, <2>2
<1>11. ASSUME sql[i] = "'" PROVE ElementEnd(sql, p) = i
  <2>1. i \in S
    BY <1>1, <1>2, <1>3, <1>6, <1>11
  <2>2. FirstOr(S, Len(sql)) \in S /\ FirstOr(S, Len(sql)) <= i /\ FirstOr(S, Len(sql)) >= i
    BY <1>7, <1>9, <2>1
  <2>3. FirstOr(S, Len(sql)) \in Nat
    BY <1>8, <2>2
  <2> QED
    BY <1>1, <1>4, <2>2, <2>3
<1>12. ASSUME sql[i] # "'" PROVE \A q \in S : q >= i + 1
  BY <1>1, <1>6, <1>7, <1>8, <1>12
<1> QED
  BY <1>2, <1>5, <1>10, <1>11, <1>12 DEF S

(* In a comment up to the end of the line: the line ends it.               *)
LEMMA InLineComment ==
  ASSUME SplitTypeOK, InElement, st = "line", i <= Len(sql)
  PROVE  \E p \in Starts(sql) :
           /\ p < Len(sql) /\ sql[p] = "-" /\ sql[p + 1] = "-" /\ p + 2 <= i
           /\ IsComment(sql, p)
           /\ i \in p..ElementEnd(sql, p)
           /\ sql[i] = "nl" => ElementEnd(sql, p) = i
           /\ sql[i] # "nl" => \A q \in Places(sql, <<"nl">>, p + 2) : q >= i + 1
<1>1. sql \in Seq(Char) /\ i \in 1..Len(sql) /\ Len(sql) \in Nat
  BY DEF SplitTypeOK
<1>2. PICK p \in Starts(sql) :
        /\ p < Len(sql) /\ sql[p] = "-" /\ sql[p + 1] = "-" /\ p + 2 <= i
        /\ \A q \in Places(sql, <<"nl">>, p + 2) : q >= i
  BY DEF InElement
<1> DEFINE S == Places(sql, <<"nl">>, p + 2)
<1>3. p \in 1..(Len(sql) - 1)
  <2>1. p \in 1..Len(sql)
    BY <1>1, BoundaryStarts DEF Boundary
  <2> QED
    BY <1>1, <1>2, <2>1
<1>4. ElementEnd(sql, p) = FirstOr(S, Len(sql)) /\ IsComment(sql, p)
  BY <1>1, <1>2, <1>3, LineElement
<1>6. \A q : q \in S <=> q \in (p + 2)..Len(sql) /\ sql[q] = "nl"
  BY <1>1, <1>3, OneStands
<1>7. \A q \in S : q >= i
  BY <1>2
<1> HIDE DEF S
<1>8. S \subseteq Nat
  BY <1>3, <1>6
<1>9. /\ S = {} => FirstOr(S, Len(sql)) = Len(sql)
      /\ S # {} => FirstOr(S, Len(sql)) \in S /\ \A q \in S : FirstOr(S, Len(sql)) <= q
  BY <1>8, FirstOrFacts
<1>10. i \in p..ElementEnd(sql, p)
  <2>1. CASE S = {}
    BY <1>1, <1>2, <1>3, <1>4, <1>9, <2>1
  <2>2. CASE S # {}
    BY <1>1, <1>2, <1>3, <1>4, <1>6, <1>7, <1>9, <2>2
  <2> QED
    BY <2>1, <2>2
<1>11. ASSUME sql[i] = "nl" PROVE ElementEnd(sql, p) = i
  <2>1. i \in S
    BY <1>1, <1>2, <1>3, <1>6, <1>11
  <2>2. FirstOr(S, Len(sql)) \in S /\ FirstOr(S, Len(sql)) <= i /\ FirstOr(S, Len(sql)) >= i
    BY <1>7, <1>9, <2>1
  <2>3. FirstOr(S, Len(sql)) \in Nat
    BY <1>8, <2>2
  <2> QED
    BY <1>1, <1>4, <2>2, <2>3
<1>12. ASSUME sql[i] # "nl" PROVE \A q \in S : q >= i + 1
  BY <1>1, <1>6, <1>7, <1>8, <1>12
<1> QED
  BY <1>2, <1>4, <1>10, <1>11, <1>12 DEF S

(* In a comment in C style: its mark ends it.                              *)
LEMMA InBlockComment ==
  ASSUME SplitTypeOK, InElement, st = "block", i <= Len(sql)
  PROVE  \E p \in Starts(sql) :
           /\ p < Len(sql) /\ sql[p] = "/" /\ sql[p + 1] = "*" /\ p + 2 <= i
           /\ IsComment(sql, p)
           /\ i \in p..ElementEnd(sql, p)
           /\ At(<<"*", "/">>) => ElementEnd(sql, p) = i + 1
           /\ ~ At(<<"*", "/">>) => \A q \in Places(sql, <<"*", "/">>, p + 2) : q >= i + 1
<1>1. sql \in Seq(Char) /\ i \in 1..Len(sql) /\ Len(sql) \in Nat
  BY DEF SplitTypeOK
<1>2. PICK p \in Starts(sql) :
        /\ p < Len(sql) /\ sql[p] = "/" /\ sql[p + 1] = "*" /\ p + 2 <= i
        /\ \A q \in Places(sql, <<"*", "/">>, p + 2) : q >= i
  BY DEF InElement
<1> DEFINE P == Places(sql, <<"*", "/">>, p + 2)
           S == {q + 1 : q \in P}
<1>3. p \in 1..(Len(sql) - 1)
  <2>1. p \in 1..Len(sql)
    BY <1>1, BoundaryStarts DEF Boundary
  <2> QED
    BY <1>1, <1>2, <2>1
<1>4. ElementEnd(sql, p) = FirstOr(S, Len(sql)) /\ IsComment(sql, p)
  BY <1>1, <1>2, <1>3, BlockElement
<1>5. At(<<"*", "/">>) <=> i \in P
  <2>1. At(<<"*", "/">>) <=> i < Len(sql) /\ sql[i] = "*" /\ sql[i + 1] = "/"
    BY AtMeans
  <2>2. i \in P <=> i \in (p + 2)..(Len(sql) - 1) /\ sql[i] = "*" /\ sql[i + 1] = "/"
    BY <1>1, <1>3, TwoStand
  <2> HIDE DEF P
  <2>3. i \in (p + 2)..(Len(sql) - 1) <=> i < Len(sql)
    BY <1>1, <1>2, <1>3
  <2> QED
    BY <2>1, <2>2, <2>3
<1>6. \A q \in P : q \in (p + 2)..(Len(sql) - 1)
  BY <1>1, <1>3, TwoStand
<1>7. \A q \in P : q >= i
  BY <1>2
<1> HIDE DEF P
<1>8. S \subseteq Nat /\ \A q \in S : q >= i + 1
  <2>1. \A q \in P : q + 1 \in Nat /\ q + 1 >= i + 1
    BY <1>1, <1>3, <1>6, <1>7
  <2> QED
    BY <2>1
<1>9. i \in P => i + 1 \in S
  OBVIOUS
<1> HIDE DEF S
<1>a. /\ S = {} => FirstOr(S, Len(sql)) = Len(sql)
      /\ S # {} => FirstOr(S, Len(sql)) \in S /\ \A q \in S : FirstOr(S, Len(sql)) <= q
  BY <1>8, FirstOrFacts
<1>10. i \in p..ElementEnd(sql, p)
  <2>1. CASE S = {}
    BY <1>1, <1>2, <1>3, <1>4, <1>a, <2>1
  <2>2. CASE S # {}
    <3>1. FirstOr(S, Len(sql)) \in Nat /\ FirstOr(S, Len(sql)) >= i + 1
      BY <1>8, <1>a, <2>2
    <3>2. p \in Nat /\ i \in Nat /\ p <= i
      BY <1>1, <1>2, <1>3
    <3> QED
      BY <1>4, <3>1, <3>2
  <2> QED
    BY <2>1, <2>2
<1>11. ASSUME i \in P PROVE ElementEnd(sql, p) = i + 1
  <2>1. i + 1 \in S
    BY <1>9, <1>11
  <2>2. /\ FirstOr(S, Len(sql)) \in S
        /\ FirstOr(S, Len(sql)) <= i + 1 /\ FirstOr(S, Len(sql)) >= i + 1
    BY <1>8, <1>a, <2>1
  <2>3. FirstOr(S, Len(sql)) \in Nat
    BY <1>8, <2>2
  <2> QED
    BY <1>1, <1>4, <2>2, <2>3
<1>12. ASSUME i \notin P PROVE \A q \in P : q >= i + 1
  <2>1. TAKE q \in P
  <2>2. q # i /\ q >= i /\ q \in Int /\ i \in Int
    BY <1>1, <1>3, <1>6, <1>7, <1>12
  <2> QED
    BY <2>2
<1> QED
  BY <1>2, <1>4, <1>5, <1>10, <1>11, <1>12 DEF P

-----------------------------------------------------------------------------
(* Two quotes in a string end it and open the next one.                    *)
LEMMA EscapedQuoteReads ==
  ASSUME SplitTypeOK, Reading, InElement, EscapedQuote
  PROVE  Reading' /\ InElement'
<1>1. /\ sql \in Seq(Char) /\ i \in 1..(Len(sql) - 1) /\ Len(sql) \in Nat
      /\ sql[i] = "'" /\ sql[i + 1] = "'"
  BY AtMeans DEF EscapedQuote, SplitTypeOK
<1>2. PICK p \in Starts(sql) :
        /\ sql[p] = "'" /\ ~ IsComment(sql, p)
        /\ i \in p..ElementEnd(sql, p)
        /\ ElementEnd(sql, p) = i
  <2>1. i <= Len(sql)
    BY <1>1
  <2> QED
    BY <1>1, <2>1, InQuote DEF EscapedQuote
<1>3. i + 1 \in Starts(sql)
  BY <1>1, <1>2, NextBoundary, BoundaryStarts
<1>4. i \notin Ends(sql) /\ i \notin InComment(sql)
  BY <1>1, <1>2, InsideElement
<1>5. i + 1 \notin Ends(sql) /\ i + 1 \notin InComment(sql)
  <2>1. ~ IsComment(sql, i + 1)
    BY <1>1, TwoStand DEF IsComment, Stands
  <2>2. i + 1 \in (i + 1)..ElementEnd(sql, i + 1)
    BY <1>1, ElementFits
  <2> QED
    BY <1>1, <1>3, <2>1, <2>2, InsideElement
<1>6. Take(2) /\ i' = i + 2 /\ sql' = sql /\ stmts' = stmts /\ st' = "quote"
  BY DEF EscapedQuote, Take, Goto
<1>7. Reading'
  <2>1. i + 2 <= Len(sql) + 1 /\ \A x \in i..(i + 2 - 1) : x = i \/ x = i + 1
    BY <1>1
  <2> QED
    BY <1>4, <1>5, <1>6, <2>1, ReadingTakes
<1>8. i + 1 < i + 2 /\ \A q \in Places(sql, <<"'">>, (i + 1) + 1) : q >= i + 2
  BY <1>1, OneStands
<1> QED
  BY <1>1, <1>3, <1>6, <1>7, <1>8 DEF InElement

(* One quote ends it.                                                      *)
LEMMA CloseQuoteReads ==
  ASSUME SplitTypeOK, Reading, InElement, CloseQuote
  PROVE  Reading' /\ InElement'
<1>1. /\ sql \in Seq(Char) /\ i \in 1..Len(sql) /\ Len(sql) \in Nat /\ sql[i] = "'"
  BY AtMeans DEF CloseQuote, SplitTypeOK
<1>2. PICK p \in Starts(sql) :
        /\ sql[p] = "'" /\ ~ IsComment(sql, p)
        /\ i \in p..ElementEnd(sql, p)
        /\ ElementEnd(sql, p) = i
  <2>1. i <= Len(sql)
    BY <1>1
  <2> QED
    BY <1>1, <2>1, InQuote DEF CloseQuote
<1>3. Boundary(sql, i + 1)
  BY <1>1, <1>2, NextBoundary
<1>4. i \notin Ends(sql) /\ i \notin InComment(sql)
  BY <1>1, <1>2, InsideElement
<1>5. Take(1) /\ i' = i + 1 /\ sql' = sql /\ stmts' = stmts /\ st' = "normal"
  BY DEF CloseQuote, Take, Goto
<1>6. Reading'
  <2>1. i + 1 <= Len(sql) + 1 /\ \A x \in i..(i + 1 - 1) : x = i
    BY <1>1
  <2> QED
    BY <1>4, <1>5, <2>1, ReadingTakes
<1> QED
  BY <1>3, <1>5, <1>6 DEF InElement

(* Everything else belongs to it.                                          *)
LEMMA QuotedCharReads ==
  ASSUME SplitTypeOK, Reading, InElement, QuotedChar
  PROVE  Reading' /\ InElement'
<1>1. /\ sql \in Seq(Char) /\ i \in 1..Len(sql) /\ Len(sql) \in Nat /\ sql[i] # "'"
  BY AtMeans DEF QuotedChar, SplitTypeOK
<1>2. PICK p \in Starts(sql) :
        /\ p < i /\ sql[p] = "'" /\ ~ IsComment(sql, p)
        /\ i \in p..ElementEnd(sql, p)
        /\ \A q \in Places(sql, <<"'">>, p + 1) : q >= i + 1
  <2>1. i <= Len(sql)
    BY <1>1
  <2> QED
    BY <1>1, <2>1, InQuote DEF QuotedChar
<1>3. p < i + 1
  BY <1>1, <1>2, BoundaryStarts DEF Boundary
<1>4. i \notin Ends(sql) /\ i \notin InComment(sql)
  BY <1>1, <1>2, InsideElement
<1>5. Take(1) /\ i' = i + 1 /\ sql' = sql /\ stmts' = stmts /\ st' = "quote"
  BY DEF QuotedChar, Take, Goto
<1>6. Reading'
  <2>1. i + 1 <= Len(sql) + 1 /\ \A x \in i..(i + 1 - 1) : x = i
    BY <1>1
  <2> QED
    BY <1>4, <1>5, <2>1, ReadingTakes
<1> QED
  BY <1>2, <1>3, <1>5, <1>6 DEF InElement

(* The line ends a comment, ...                                            *)
LEMMA CloseLineCommentReads ==
  ASSUME SplitTypeOK, Reading, InElement, CloseLineComment
  PROVE  Reading' /\ InElement'
<1>1. /\ sql \in Seq(Char) /\ i \in 1..Len(sql) /\ Len(sql) \in Nat /\ sql[i] = "nl"
  BY AtMeans DEF CloseLineComment, SplitTypeOK
<1>2. PICK p \in Starts(sql) :
        /\ sql[p] = "-" /\ IsComment(sql, p)
        /\ i \in p..ElementEnd(sql, p)
        /\ ElementEnd(sql, p) = i
  <2>1. i <= Len(sql)
    BY <1>1
  <2> QED
    BY <1>1, <2>1, InLineComment DEF CloseLineComment
<1>3. Boundary(sql, i + 1)
  BY <1>1, <1>2, NextBoundary
<1>4. i \notin Ends(sql) /\ i \in InComment(sql)
  BY <1>1, <1>2, InsideElement
<1>5. Skip(1) /\ i' = i + 1 /\ sql' = sql /\ stmts' = stmts /\ st' = "normal"
  BY DEF CloseLineComment, Skip, Goto
<1>6. Reading'
  <2>1. i + 1 <= Len(sql) + 1 /\ \A x \in i..(i + 1 - 1) : x = i
    BY <1>1
  <2> QED
    BY <1>4, <1>5, <2>1, ReadingSkips
<1> QED
  BY <1>3, <1>5, <1>6 DEF InElement

(* ... and nothing else does.                                              *)
LEMMA LineCommentCharReads ==
  ASSUME SplitTypeOK, Reading, InElement, LineCommentChar
  PROVE  Reading' /\ InElement'
<1>1. /\ sql \in Seq(Char) /\ i \in 1..Len(sql) /\ Len(sql) \in Nat /\ sql[i] # "nl"
  BY AtMeans DEF LineCommentChar, SplitTypeOK
<1>2. PICK p \in Starts(sql) :
        /\ p < Len(sql) /\ sql[p] = "-" /\ sql[p + 1] = "-" /\ p + 2 <= i
        /\ IsComment(sql, p)
        /\ i \in p..ElementEnd(sql, p)
        /\ \A q \in Places(sql, <<"nl">>, p + 2) : q >= i + 1
  <2>1. i <= Len(sql)
    BY <1>1
  <2> QED
    BY <1>1, <2>1, InLineComment DEF LineCommentChar
<1>3. p + 2 <= i + 1
  BY <1>1, <1>2, BoundaryStarts DEF Boundary
<1>4. i \notin Ends(sql) /\ i \in InComment(sql)
  BY <1>1, <1>2, InsideElement
<1>5. Skip(1) /\ i' = i + 1 /\ sql' = sql /\ stmts' = stmts /\ st' = "line"
  BY DEF LineCommentChar, Skip, Goto
<1>6. Reading'
  <2>1. i + 1 <= Len(sql) + 1 /\ \A x \in i..(i + 1 - 1) : x = i
    BY <1>1
  <2> QED
    BY <1>4, <1>5, <2>1, ReadingSkips
<1> QED
  BY <1>2, <1>3, <1>5, <1>6 DEF InElement

(* Its mark ends the other kind of comment, ...                            *)
LEMMA CloseBlockCommentReads ==
  ASSUME SplitTypeOK, Reading, InElement, CloseBlockComment
  PROVE  Reading' /\ InElement'
<1>1. /\ sql \in Seq(Char) /\ i \in 1..(Len(sql) - 1) /\ Len(sql) \in Nat
  BY AtMeans DEF CloseBlockComment, SplitTypeOK
<1>2. PICK p \in Starts(sql) :
        /\ sql[p] = "/" /\ IsComment(sql, p)
        /\ i \in p..ElementEnd(sql, p)
        /\ ElementEnd(sql, p) = i + 1
  <2>1. i <= Len(sql)
    BY <1>1
  <2> QED
    BY <1>1, <2>1, InBlockComment DEF CloseBlockComment
<1>3. Boundary(sql, i + 2)
  <2>1. Boundary(sql, (i + 1) + 1) /\ (i + 1) + 1 = i + 2
    BY <1>1, <1>2, NextBoundary
  <2> QED
    BY <2>1
<1>4. \A x \in {i, i + 1} : x \notin Ends(sql) /\ x \in InComment(sql)
  <2>1. p \in Nat
    BY <1>1, BoundaryStarts DEF Boundary
  <2>2. \A x \in {i, i + 1} : x \in p..ElementEnd(sql, p)
    BY <1>1, <1>2, <2>1
  <2> QED
    BY <1>1, <1>2, <2>2, InsideElement
<1>5. Skip(2) /\ i' = i + 2 /\ sql' = sql /\ stmts' = stmts /\ st' = "normal"
  BY DEF CloseBlockComment, Skip, Goto
<1>6. Reading'
  <2>1. i + 2 <= Len(sql) + 1 /\ \A x \in i..(i + 2 - 1) : x \in {i, i + 1}
    BY <1>1
  <2> QED
    BY <1>4, <1>5, <2>1, ReadingSkips
<1> QED
  BY <1>3, <1>5, <1>6 DEF InElement

(* ... and nothing else does.                                              *)
LEMMA BlockCommentCharReads ==
  ASSUME SplitTypeOK, Reading, InElement, BlockCommentChar
  PROVE  Reading' /\ InElement'
<1>1. /\ sql \in Seq(Char) /\ i \in 1..Len(sql) /\ Len(sql) \in Nat
  BY DEF BlockCommentChar, SplitTypeOK
<1>2. PICK p \in Starts(sql) :
        /\ p < Len(sql) /\ sql[p] = "/" /\ sql[p + 1] = "*" /\ p + 2 <= i
        /\ IsComment(sql, p)
        /\ i \in p..ElementEnd(sql, p)
        /\ \A q \in Places(sql, <<"*", "/">>, p + 2) : q >= i + 1
  <2>1. i <= Len(sql)
    BY <1>1
  <2> QED
    BY <1>1, <2>1, InBlockComment DEF BlockCommentChar
<1>3. p + 2 <= i + 1
  BY <1>1, <1>2, BoundaryStarts DEF Boundary
<1>4. i \notin Ends(sql) /\ i \in InComment(sql)
  BY <1>1, <1>2, InsideElement
<1>5. Skip(1) /\ i' = i + 1 /\ sql' = sql /\ stmts' = stmts /\ st' = "block"
  BY DEF BlockCommentChar, Skip, Goto
<1>6. Reading'
  <2>1. i + 1 <= Len(sql) + 1 /\ \A x \in i..(i + 1 - 1) : x = i
    BY <1>1
  <2> QED
    BY <1>4, <1>5, <2>1, ReadingSkips
<1> QED
  BY <1>2, <1>3, <1>5, <1>6 DEF InElement

-----------------------------------------------------------------------------
(* In the scan, what was read is what stands in the text; after it, all    *)
(* of its statements were found.                                           *)
ScanInv ==
  /\ SplitTypeOK
  /\ Scanning /\ PlainDollars(sql) => InElement /\ Reading
  /\ st = "done" /\ PlainDollars(sql) => stmts = Statements(sql)
  /\ st = "writing" => i = 1
  /\ st \in {"done", "writing"} => buf = <<>>
  /\ round = 1 /\ st # "writing" => sql = file

(* Every step of the scan over the text reads what stands there.           *)
LEMMA ReadingStep ==
  ASSUME SplitTypeOK, Scanning, PlainDollars(sql), InElement, Reading, Scan
  PROVE  \/ Scanning' /\ InElement' /\ Reading'
         \/ st' = "done" /\ stmts' = Statements(sql)
<1>1. CASE OpenQuote
  BY <1>1, OpenQuoteReads DEF OpenQuote, Goto, Scanning
<1>2. CASE OpenLineComment
  BY <1>2, OpenCommentReads DEF OpenLineComment, Goto, Scanning
<1>3. CASE OpenBlockComment
  BY <1>3, OpenCommentReads DEF OpenBlockComment, Goto, Scanning
<1>4. CASE DollarBlock
  BY <1>4, DollarReads DEF DollarBlock, Goto, Scanning
<1>5. CASE LoneDollar
  BY <1>5, NoLoneDollar
<1>6. CASE Semicolon
  BY <1>6, SemicolonReads DEF Semicolon, Scanning
<1>7. CASE OtherChar
  BY <1>7, OtherReads DEF OtherChar, Goto, Scanning
<1>8. CASE EscapedQuote
  BY <1>8, EscapedQuoteReads DEF EscapedQuote, Goto, Scanning
<1>9. CASE CloseQuote
  BY <1>9, CloseQuoteReads DEF CloseQuote, Goto, Scanning
<1>10. CASE QuotedChar
  BY <1>10, QuotedCharReads DEF QuotedChar, Goto, Scanning
<1>11. CASE CloseLineComment
  BY <1>11, CloseLineCommentReads DEF CloseLineComment, Goto, Scanning
<1>12. CASE LineCommentChar
  BY <1>12, LineCommentCharReads DEF LineCommentChar, Goto, Scanning
<1>13. CASE CloseBlockComment
  BY <1>13, CloseBlockCommentReads DEF CloseBlockComment, Goto, Scanning
<1>14. CASE BlockCommentChar
  BY <1>14, BlockCommentCharReads DEF BlockCommentChar, Goto, Scanning
<1>15. CASE Finish
  <2>1. i = Len(sql) + 1
    BY <1>15 DEF Finish, SplitTypeOK
  <2>2. i \in Ends(sql)
    BY <2>1 DEF Ends
  <2>3. stmts' = StatementsTo(sql, i)
    BY <1>15, <2>2, EndReads DEF Finish
  <2>4. StatementsTo(sql, i) = Statements(sql)
    BY <2>1 DEF StatementsTo, Statements
  <2> QED
    BY <1>15, <2>3, <2>4 DEF Finish
<1> QED
  BY <1>1, <1>2, <1>3, <1>4, <1>5, <1>6, <1>7, <1>8, <1>9, <1>10, <1>11, <1>12,
     <1>13, <1>14, <1>15 DEF Scan

(* A scan starts with nothing read, at a boundary.                         *)
LEMMA NothingRead ==
  ASSUME NEW t \in Seq(Char)
  PROVE  /\ Boundary(t, 1)
         /\ Between(t, EndBefore(t, 1), 1) = <<>>
         /\ StatementsTo(t, 1 - 1) = <<>>
<1>1. Boundary(t, 1)
  BY FirstBoundary
<1>2. EndBefore(t, 1) = 0
  <2>1. Len(t) \in Nat /\ 1 \in 1..(Len(t) + 1)
    OBVIOUS
  <2>2. EndBefore(t, 1) \in 0..(1 - 1)
    BY <2>1, EndBeforeFits
  <2> QED
    BY <2>2
<1>3. Between(t, 0, 1) = <<>>
  <2>1. 0 + 1 = 1
    OBVIOUS
  <2> QED
    BY <2>1, BetweenNeighbours
<1>4. StatementsTo(t, 0) = <<>>
  <2>1. [p \in 1..0 |-> StatementAt(t, p)] = <<>>
    OBVIOUS
  <2> QED
    BY <2>1 DEF StatementsTo, FlattenSeq
<1>5. 1 - 1 = 0
  OBVIOUS
<1> QED
  BY <1>1, <1>2, <1>3, <1>4, <1>5

(* The scan leaves the text alone.                                         *)
LEMMA ScanKeepsText ==
  ASSUME Scan
  PROVE  /\ Scanning /\ UNCHANGED <<file, round, sql>>
         /\ st' \in {"normal", "quote", "line", "block", "done"}
         /\ st' = "done" => buf' = <<>>
BY DEF Scan, OpenQuote, OpenLineComment, OpenBlockComment, DollarBlock, LoneDollar,
       Semicolon, OtherChar, EscapedQuote, CloseQuote, QuotedChar, CloseLineComment,
       LineCommentChar, CloseBlockComment, BlockCommentChar, Finish, Goto, Scanning

(* The reading survives every step.                                        *)
LEMMA ScanInvStep ==
  ASSUME ScanInv, [SplitNext]_splitVars
  PROVE  ScanInv'
<1> USE DEF ScanInv
<1>1. CASE Scan
  <2>1. SplitTypeOK'
    BY <1>1, ScanStep
  <2>2. /\ Scanning /\ UNCHANGED <<file, round, sql>>
        /\ st' \in {"normal", "quote", "line", "block", "done"}
        /\ st' = "done" => buf' = <<>>
    BY <1>1, ScanKeepsText
  <2>3. PlainDollars(sql) =>
          \/ Scanning' /\ InElement' /\ Reading'
          \/ st' = "done" /\ stmts' = Statements(sql)
    BY <1>1, <2>2, ReadingStep
  <2>4. PlainDollars(sql)' <=> PlainDollars(sql)
    BY <2>2
  <2>5. Statements(sql)' = Statements(sql)
    BY <2>2
  <2>6. Scanning' <=> st' # "done"
    BY <2>2 DEF Scanning
  <2>7. Scanning' /\ PlainDollars(sql)' => InElement' /\ Reading'
    BY <2>3, <2>4, <2>6
  <2>8. st' = "done" /\ PlainDollars(sql)' => stmts' = Statements(sql)'
    BY <2>3, <2>4, <2>5, <2>6
  <2>9. round' = 1 /\ st' # "writing" => sql' = file'
    BY <2>2 DEF Scanning
  <2>10. st' # "writing" /\ (st' \in {"done", "writing"} => buf' = <<>>)
    BY <2>2
  <2> QED
    BY <2>1, <2>7, <2>8, <2>9, <2>10
<1>2. CASE StartWriting
  <2>1. SplitTypeOK'
    BY <1>2, OutputStep DEF Output
  <2> QED
    BY <1>2, <2>1 DEF StartWriting, Scanning
<1>3. CASE WriteStatement
  <2>1. SplitTypeOK'
    BY <1>3, OutputStep DEF Output
  <2> QED
    BY <1>3, <2>1 DEF WriteStatement, Scanning
<1>4. CASE Rescan
  <2>1. SplitTypeOK'
    BY <1>4, OutputStep DEF Output
  <2>2. /\ sql' \in Seq(Char) /\ i' = 1 /\ buf' = <<>> /\ stmts' = <<>>
        /\ st' = "normal" /\ round' = 2
    BY <1>4 DEF Rescan, SplitTypeOK
  <2>3. InElement' /\ Reading'
    BY <2>2, NothingRead DEF InElement, Reading
  <2> QED
    BY <2>1, <2>2, <2>3
<1>5. CASE UNCHANGED splitVars
  BY <1>5 DEF splitVars, SplitTypeOK, Scanning, InElement, Reading
<1> QED
  BY <1>1, <1>2, <1>3, <1>4, <1>5 DEF SplitNext, Output

(* Both scans find the statements PostgreSQL finds.                        *)
THEOREM ScansReadText == SplitSpec => []ScanInv
<1>1. SplitInit => ScanInv
  <2> SUFFICES ASSUME SplitInit PROVE ScanInv
    OBVIOUS
  <2>1. SplitTypeOK
    BY TextsAssumption DEF SplitInit, SplitTypeOK
  <2>2. InElement /\ Reading
    BY <2>1, NothingRead DEF SplitInit, SplitTypeOK, InElement, Reading
  <2> QED
    BY <2>1, <2>2 DEF SplitInit, ScanInv
<1>2. ScanInv /\ [SplitNext]_splitVars => ScanInv'
  BY ScanInvStep
<1> QED
  BY <1>1, <1>2, PTL DEF SplitSpec

(* The statements of a file end where PostgreSQL ends them.                *)
THEOREM SplitsAlwaysAtSemicolons == SplitSpec => []SplitsAtSemicolons
<1>1. ScanInv => SplitsAtSemicolons
  BY DEF ScanInv, SplitsAtSemicolons, Scannable
<1> QED
  BY <1>1, ScansReadText, PTL
=============================================================================
