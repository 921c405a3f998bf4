------------------------------ MODULE Splitter ------------------------------
(***************************************************************************)
(* parser.Split: one scan over the text of a file that cuts it into        *)
(* statements.  A text is a sequence of characters; "nl", "sp" and "semi"  *)
(* are the newline, the space and the semicolon, and a letter stands for   *)
(* any character the scan does not look at.  Positions count from 1.       *)
(*                                                                         *)
(* The statements of the first scan are written as the emitter writes      *)
(* verbatim texts, and scanned again, as by a merge of the output.         *)
(***************************************************************************)
EXTENDS GoStrings

CONSTANTS
  Char,       \* the characters
  Texts       \* the texts of the files

ASSUME CharAssumption == {"semi", "nl"} \subseteq Char
ASSUME TextsAssumption == Texts \subseteq Seq(Char)

VARIABLES
  file,       \* the text of the first scan
  round,      \* which scan this is, 1 or 2
  sql,        \* the text that is scanned
  i,          \* the position read next
  st,         \* "normal", "quote", "line" or "block" in the scan, "done" after
              \* it, "writing" while the output is written
  buf,        \* what was read of the current statement
  stmts       \* the statements so far

splitVars == <<file, round, sql, i, st, buf, stmts>>

-----------------------------------------------------------------------------
AppendNonEmpty(ss, s) == IF s = <<>> THEN ss ELSE Append(ss, s)

At(pat) == i \in Places(sql, pat, i)

(* The next n characters are written to buf, or left out. *)
Take(n) == buf' = buf \o SubSeq(sql, i, i + n - 1) /\ i' = i + n
Skip(n) == UNCHANGED buf /\ i' = i + n

Scanning == st \in {"normal", "quote", "line", "block"}

Goto(s) == st' = s /\ UNCHANGED <<file, round, sql, stmts>>

-----------------------------------------------------------------------------
OpenQuote == st = "normal" /\ At(<<"'">>) /\ Take(1) /\ Goto("quote")

OpenLineComment == st = "normal" /\ At(<<"-", "-">>) /\ Skip(2) /\ Goto("line")

OpenBlockComment == st = "normal" /\ At(<<"/", "*">>) /\ Skip(2) /\ Goto("block")

(* A tag is whatever stands between two dollars.                           *)
dollarTags ==
  LET ends == Places(sql, <<"$">>, i + 1) IN
  IF ends = {} THEN {} ELSE {SubSeq(sql, i, Min(ends))}

(* Where the block that opens at i with this tag is closed.                *)
closings(tag) == Places(sql, tag, i + Len(tag))

(* Mistake: the next dollar closes the block.                              *)
DollarBlockShort ==
  /\ st = "normal"
  /\ At(<<"$">>)
  /\ \E tag \in dollarTags :
       /\ closings(tag) # {}
       /\ Take(Len(tag))
  /\ Goto("normal")

(* The whole block is taken at once.                                       *)
DollarBlock ==
  /\ st = "normal"
  /\ At(<<"$">>)
  /\ \E tag \in dollarTags :
       /\ closings(tag) # {}
       /\ Take(Min(closings(tag)) + Len(tag) - i)
  /\ Goto("normal")

(* ... and a dollar that opens none is a character like others.            *)
LoneDollar ==
  /\ st = "normal"
  /\ At(<<"$">>)
  /\ \A tag \in dollarTags : closings(tag) = {}
  /\ Take(1)
  /\ Goto("normal")

Semicolon ==
  /\ st = "normal"
  /\ At(<<"semi">>)
  /\ stmts' = AppendNonEmpty(stmts, TrimSpace(buf))
  /\ buf' = <<>>
  /\ i' = i + 1
  /\ UNCHANGED <<file, round, sql, st>>

OtherChar ==
  /\ st = "normal"
  /\ i <= Len(sql)
  /\ sql[i] \notin {"'", "$", "semi"}
  /\ ~ At(<<"-", "-">>)
  /\ ~ At(<<"/", "*">>)
  /\ Take(1)
  /\ Goto("normal")

(* Mistake: two characters are read where the second one may not be there. *)
EscapedQuoteUnseen == st = "quote" /\ At(<<"'">>) /\ Skip(2) /\ Goto("quote")

EscapedQuote == st = "quote" /\ At(<<"'", "'">>) /\ Take(2) /\ Goto("quote")

CloseQuote ==
  st = "quote" /\ At(<<"'">>) /\ ~ At(<<"'", "'">>) /\ Take(1) /\ Goto("normal")

QuotedChar == st = "quote" /\ i <= Len(sql) /\ ~ At(<<"'">>) /\ Take(1) /\ Goto("quote")

CloseLineComment == st = "line" /\ At(<<"nl">>) /\ Skip(1) /\ Goto("normal")

(* Mistake: the position stays.                                            *)
LineCommentStuck == st = "line" /\ i <= Len(sql) /\ ~ At(<<"nl">>) /\ Skip(0) /\ Goto("line")

LineCommentChar == st = "line" /\ i <= Len(sql) /\ ~ At(<<"nl">>) /\ Skip(1) /\ Goto("line")

CloseBlockComment == st = "block" /\ At(<<"*", "/">>) /\ Skip(2) /\ Goto("normal")

BlockCommentChar ==
  st = "block" /\ i <= Len(sql) /\ ~ At(<<"*", "/">>) /\ Skip(1) /\ Goto("block")

(* The text has been read; what is left is a statement without semicolon.  *)
Finish ==
  /\ Scanning
  /\ i > Len(sql)
  /\ stmts' = AppendNonEmpty(stmts, TrimSpace(buf))
  /\ buf' = <<>>
  /\ st' = "done"
  /\ UNCHANGED <<file, round, sql, i>>

Scan ==
  \/ OpenQuote \/ OpenLineComment \/ OpenBlockComment
  \/ DollarBlock \/ LoneDollar \/ Semicolon \/ OtherChar
  \/ EscapedQuote \/ CloseQuote \/ QuotedChar
  \/ CloseLineComment \/ LineCommentChar
  \/ CloseBlockComment \/ BlockCommentChar
  \/ Finish

-----------------------------------------------------------------------------
(* The output is written, one statement after the other, ...               *)
StartWriting ==
  /\ st = "done"
  /\ round = 1
  /\ st' = "writing"
  /\ sql' = <<>>
  /\ i' = 1
  /\ UNCHANGED <<file, round, buf, stmts>>

(* Mistake: the semicolon is forgotten.                                    *)
writtenBare(s) == s \o <<"nl", "nl">>

(* Emit writes a verbatim text with a semicolon and an empty line.         *)
written(s) == Append(s, "semi") \o <<"nl", "nl">>

WriteStatement ==
  /\ st = "writing"
  /\ stmts # <<>>
  /\ sql' = sql \o written(Head(stmts))
  /\ stmts' = Tail(stmts)
  /\ UNCHANGED <<file, round, i, st, buf>>

(* ... and scanned in a second merge.                                      *)
Rescan ==
  /\ st = "writing"
  /\ stmts = <<>>
  /\ round' = 2
  /\ st' = "normal"
  /\ UNCHANGED <<file, sql, i, buf, stmts>>

SplitInit ==
  /\ round = 1
  /\ file \in Texts
  /\ sql = file
  /\ i = 1
  /\ st = "normal"
  /\ buf = <<>>
  /\ stmts = <<>>

Output == StartWriting \/ WriteStatement \/ Rescan

SplitNext == Scan \/ Output

(* The scan is a loop that runs to its end; nobody has to scan again.      *)
SplitSpec == SplitInit /\ [][SplitNext]_splitVars /\ WF_splitVars(Scan)

-----------------------------------------------------------------------------
(* Type invariant.  The position never leaves the text by more than one,   *)
(* though the scan reads one character ahead in five places.               *)
SplitTypeOK ==
  /\ file \in Seq(Char)
  /\ round \in 1..2
  /\ sql \in Seq(Char)
  /\ i \in 1..(Len(sql) + 1)
  /\ st \in {"normal", "quote", "line", "block", "done", "writing"}
  /\ buf \in Seq(Char)
  /\ stmts \in Seq(Seq(Char))

(* Every text is read to its end, in both scans.                           *)
ScanEnds == Scanning ~> st = "done"
=============================================================================
