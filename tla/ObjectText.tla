----------------------------- MODULE ObjectText -----------------------------
(***************************************************************************)
(* The objects that are kept verbatim: what parser.go makes of the text of *)
(* CREATE, DROP and ALTER for each kind.  The name of a trigger, policy or *)
(* rule is that of its table as well.                                      *)
(***************************************************************************)
EXTENDS DefinitionText

Routine == {"FUNCTION", "PROCEDURE"}
OfTable == {"TRIGGER", "POLICY", "RULE"}
Replaceable == Routine \cup {"VIEW", "MATERIALIZED VIEW", "TRIGGER", "RULE"}
ObjectKinds == Replaceable \cup {"SCHEMA", "EXTENSION", "DOMAIN", "POLICY"}

KindWords(kind) ==
  IF kind = "MATERIALIZED VIEW" THEN <<"MATERIALIZED", "VIEW">> ELSE <<kind>>

Clause(words) == <<Gap, Words(words), Name>>

-----------------------------------------------------------------------------
createPattern(kind) ==
  LET constraint == IF kind = "TRIGGER" THEN <<Maybe({<<"CONSTRAINT">>})>> ELSE <<>>
      orReplace == IF kind \in Replaceable THEN <<OrReplace>> ELSE <<>>
      head == <<Words(<<"CREATE">>)>> \o constraint \o orReplace
                \o <<Words(KindWords(kind))>>
  IN  CASE kind \in Routine -> head \o <<LazyName, ParenOrEnd>>
        [] kind \in {"TRIGGER", "DOMAIN"} -> head \o <<Name>>
        [] kind = "POLICY" -> head \o <<Name>> \o Clause(<<"ON">>)
        [] kind = "RULE" ->
             head \o <<Name>> \o Clause(<<"AS", "ON">>) \o Clause(<<"TO">>)
        [] OTHER -> head \o <<IfNotExists, Name>>

dropPattern(kind) ==
  LET head == <<Words(<<"DROP">> \o KindWords(kind)), IfExists>> IN
  CASE kind \in Routine -> head \o <<LazyName, ParenOrEnd>>
    [] kind \in OfTable -> head \o <<Name>> \o Clause(<<"ON">>)
    [] OTHER -> head \o <<Name>>

alterHead(kind) ==
  LET exists == IF kind \in {"EXTENSION", "POLICY", "RULE"} THEN <<>> ELSE <<IfExists>>
      head == <<Words(<<"ALTER">> \o KindWords(kind))>> \o exists
  IN  CASE kind \in Routine -> head \o <<LazyName, Args>>
        [] kind \in OfTable -> head \o <<Name>> \o Clause(<<"ON">>)
        [] OTHER -> head \o <<Name>>

(* Other changes are kept with the object, for some kinds.                 *)
KeepsAlters == Routine \cup {"POLICY", "EXTENSION", "DOMAIN", "VIEW"}

KeptAlter(kind, name, t) ==
  [Type |-> IF kind \in Routine THEN "AlterFunctionOpts" ELSE "AlterObjectOpts",
   Kind |-> kind, Name |-> name, SQL |-> t]

alterBase(kind) ==
  alterHead(kind) \o <<Gap>> \o
    (IF kind = "EXTENSION" THEN <<Mark("UPDATE")>> ELSE <<>>)

-----------------------------------------------------------------------------
onTable(name, table) == normalizeIdent(name) \o <<"_on_">> \o normalizeIdent(table)

(* The first and the last name a pattern has, or the first one alone       *)
nameIn(kind, names) ==
  IF kind \in OfTable /\ Len(names) > 1 THEN onTable(Head(names), Last(names))
  ELSE normalizeIdent(Head(names))

(* The table of a trigger stands behind the first ON there is.             *)
extractCreateObjectName(t, kind) ==
  LET on == Clause(<<"ON">>)
      m == Leftmost(t, on)
      behindOn == IF kind = "TRIGGER" /\ Occurs(t, on) THEN <<PartOf(t, m, 3)>> ELSE <<>>
  IN  IF ~ Matches(t, createPattern(kind)) THEN <<>>
      ELSE nameIn(kind, Names(t, createPattern(kind)) \o behindOn)

extractDropObjectName(t, kind) ==
  IF ~ Matches(t, dropPattern(kind)) THEN <<>>
  ELSE nameIn(kind, Names(t, dropPattern(kind)))

(* OR REPLACE and IF EXISTS are looked for in the whole text, the body of  *)
(* the object included.                                                    *)
parseCreateObject(t, kind) ==
  LET name == extractCreateObjectName(t, kind) IN
  IF name = <<>> THEN Unknown(t)
  ELSE CreateObject(kind, name, Holds(t, Spaced(<<"OR", "REPLACE">>)), t)

parseDropObject(t, kind) ==
  LET name == extractDropObjectName(t, kind) IN
  IF name = <<>> THEN Unknown(t)
  ELSE [Type |-> "DropObject", Kind |-> kind, Name |-> name,
        IfExists |-> Holds(t, Spaced(<<"IF", "EXISTS">>))]

parseAlterObject(t, kind) ==
  LET rename == alterHead(kind) \o RenameTo
      old == Front(Names(t, rename))
      new == Last(Names(t, rename))
  IN  CASE Matches(t, rename) ->
             [Type |-> "AlterObject", Kind |-> kind, OldName |-> nameIn(kind, old),
              NewName |-> nameIn(kind, <<new>> \o Tail(old))]
        [] ~ Matches(t, rename) /\ kind \in KeepsAlters /\ Matches(t, alterBase(kind)) ->
             KeptAlter(kind, nameIn(kind, Names(t, alterBase(kind))), t)
        [] OTHER -> Unknown(t)
=============================================================================
