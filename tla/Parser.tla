------------------------------- MODULE Parser -------------------------------
(***************************************************************************)
(* parser.Parse: the text of one statement, without its semicolon, to the  *)
(* statement; one action for each parse function.                          *)
(*                                                                         *)
(* What was understood is written as the emitter writes it, and parsed     *)
(* again, as by a merge of the output.                                     *)
(***************************************************************************)
EXTENDS EmitText

VARIABLES
  text,           \* the text
  stmt,           \* what Parse made of it
  first           \* what Parse made of the text that this one was written for

parserVars == <<text, stmt, first>>

Unparsed == [Type |-> "Unparsed"]

-----------------------------------------------------------------------------
(* strings.HasPrefix: there is exactly one space between the words, and    *)
(* the last one may go on.                                                 *)
Starts(t, words) ==
  LET n == 2 * Len(words) - 1 IN
  /\ Len(t) >= n
  /\ SubSeq(t, 1, n - 1) = Front(Spaced(words))
  /\ BeginsWith(t[n], Last(words))

StartsOneOf(t, heads) == \E words \in heads : Starts(t, words)

TableHeads ==
  {<<"CREATE">> \o kind \o <<"TABLE">> :
     kind \in {<<>>, <<"TEMPORARY">>, <<"TEMP">>, <<"UNLOGGED">>} \cup
              ({"GLOBAL", "LOCAL"} \X {"TEMPORARY", "TEMP"})}

IndexHeads == {<<"CREATE", "UNIQUE", "INDEX">>, <<"CREATE", "INDEX">>}

CreateHeads(kind) ==
  {<<"CREATE">> \o with \o KindWords(kind) :
     with \in {<<>>}
              \cup (IF kind \in Replaceable THEN {<<"OR", "REPLACE">>} ELSE {})
              \cup (IF kind = "TRIGGER" THEN {<<"CONSTRAINT">>} ELSE {})}

(* The kinds of objects that ALTER is known for are those of CREATE.       *)
Heads ==
  TableHeads \cup IndexHeads
    \cup {<<"ALTER", "TABLE">>, <<"DROP", "TABLE">>, <<"DROP", "INDEX">>,
          <<"ALTER", "INDEX">>, <<"TRUNCATE">>}
    \cup {<<verb, what>> : verb \in {"CREATE", "DROP", "ALTER"},
                           what \in {"SEQUENCE", "TYPE"}}
    \cup UNION {CreateHeads(kind) : kind \in ObjectKinds}
    \cup {<<verb>> \o KindWords(kind) : verb \in {"DROP", "ALTER"}, kind \in ObjectKinds}

Parsed(heads, result) ==
  /\ stmt = Unparsed
  /\ StartsOneOf(text, heads)
  /\ stmt' = result
  /\ UNCHANGED <<text, first>>

ParseCreateTable == Parsed(TableHeads, parseCreateTable(text))
ParseAlterTable == Parsed({<<"ALTER", "TABLE">>}, parseAlterTable(text))
ParseDropTable == Parsed({<<"DROP", "TABLE">>}, parseDropTable(text))
ParseTruncate == Parsed({<<"TRUNCATE">>}, parseTruncate(text))

ParseCreateIndex == Parsed(IndexHeads, parseCreateIndex(text))
ParseDropIndex == Parsed({<<"DROP", "INDEX">>}, parseDropIndex(text))
ParseAlterIndex == Parsed({<<"ALTER", "INDEX">>}, parseAlterIndex(text))

ParseCreateSequence == Parsed({<<"CREATE", "SEQUENCE">>}, parseCreateSequence(text))
ParseDropSequence == Parsed({<<"DROP", "SEQUENCE">>}, parseDropSequence(text))
ParseAlterSequence == Parsed({<<"ALTER", "SEQUENCE">>}, parseAlterSequence(text))

ParseCreateType == Parsed({<<"CREATE", "TYPE">>}, parseCreateType(text))
ParseDropType == Parsed({<<"DROP", "TYPE">>}, parseDropType(text))
ParseAlterType == Parsed({<<"ALTER", "TYPE">>}, parseAlterType(text))

ParseCreateObject == \E kind \in ObjectKinds :
  Parsed(CreateHeads(kind), parseCreateObject(text, kind))
ParseDropObject == \E kind \in ObjectKinds :
  Parsed({<<"DROP">> \o KindWords(kind)}, parseDropObject(text, kind))
ParseAlterObject == \E kind \in ObjectKinds :
  Parsed({<<"ALTER">> \o KindWords(kind)}, parseAlterObject(text, kind))

ParseUnknown ==
  /\ stmt = Unparsed
  /\ ~ StartsOneOf(text, Heads)
  /\ stmt' = Unknown(text)
  /\ UNCHANGED <<text, first>>

Parse ==
  \/ ParseCreateTable \/ ParseAlterTable \/ ParseDropTable \/ ParseTruncate
  \/ ParseCreateIndex \/ ParseDropIndex \/ ParseAlterIndex
  \/ ParseCreateSequence \/ ParseDropSequence \/ ParseAlterSequence
  \/ ParseCreateType \/ ParseDropType \/ ParseAlterType
  \/ ParseCreateObject \/ ParseDropObject \/ ParseAlterObject
  \/ ParseUnknown

-----------------------------------------------------------------------------
(* A definition goes to the output, and the output to a second merge.      *)
Emit ==
  /\ first = Unparsed
  /\ stmt.Type \in Emitted
  /\ text' = emitted(stmt)
  /\ first' = stmt
  /\ stmt' = Unparsed
=============================================================================
