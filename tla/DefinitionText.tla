--------------------------- MODULE DefinitionText ---------------------------
(***************************************************************************)
(* DROP TABLE, TRUNCATE, indexes, sequences and types: what                *)
(* parser.go makes of their text, one operator for each parse function.    *)
(***************************************************************************)
EXTENDS TableText

(* What a pattern of the form <<..., Maybe(IF EXISTS), Name>> drops        *)
Dropped(type, t, pat) ==
  IF ~ Matches(t, pat) THEN Malformed
  ELSE [Type |-> type, Name |-> Names(t, pat)[1], IfExists |-> Given(t, pat, IfExists)]

-----------------------------------------------------------------------------
reDropTable == <<Words(<<"DROP", "TABLE">>), IfExists, Line>>

parseDropTable(t) ==
  LET listed == TrimSuffix(TrimSuffix(TrimSpace(Part(t, reDropTable, 3)),
                                      <<"sp", "CASCADE">>), <<"sp", "RESTRICT">>)
      names == NonEmpty(PartsAt(listed, Commas(listed)))
  IN  IF ~ Matches(t, reDropTable) \/ names = <<>> THEN Malformed
      ELSE [Type |-> "DropTable", TableNames |-> names,
            IfExists |-> Given(t, reDropTable, IfExists)]

Modifiers ==
  {Spaced(words) : words \in {<<"CASCADE">>, <<"RESTRICT">>,
                              <<"RESTART", "IDENTITY">>, <<"CONTINUE", "IDENTITY">>}}

(* The text without the modifiers at its end                               *)
unmodified(t) ==
  LET Shorter(s, k) ==
        IF \E m \in Modifiers : IsSuffix(<<"sp">> \o m, s)
          THEN LET m == CHOOSE m \in Modifiers : IsSuffix(<<"sp">> \o m, s) IN
               TrimSuffix(s, <<"sp">> \o m)
          ELSE s
  IN  FoldLeft(Shorter, t, t)

(* ONLY stands in front of a name, the star of a table behind it.          *)
truncated(part) ==
  LET only == <<Words(<<"ONLY">>), Rest>> IN
  TrimSpace(TrimSuffix(IF Matches(part, only) THEN Part(part, only, 2) ELSE part, <<"*">>))

parseTruncate(t) ==
  LET plain == unmodified(t)
      modifiers == SubSeq(t, Len(plain) + 1, Len(t))
      list == TrimSpace(Tail(plain))
      names == IF Is(list, 1, {"TABLE"}) /\ Is(list, 2, {"sp"})
                 THEN TrimSpace(Tail(list)) ELSE list
      parts == PartsAt(names, Commas(names))
      tables == NonEmpty([k \in DOMAIN parts |-> truncated(parts[k])])
  IN  IF tables = <<>> THEN Unknown(t)
      ELSE [Type |-> "Truncate", Tables |-> tables,
            RestartIdentity |-> Holds(modifiers, Spaced(<<"RESTART", "IDENTITY">>)),
            Cascade |-> Holds(modifiers, <<"CASCADE">>)]

-----------------------------------------------------------------------------
Unique == Maybe({<<"UNIQUE">>})
Concurrently == Maybe({<<"CONCURRENTLY">>})

reCreateIndex ==
  <<Words(<<"CREATE">>), Unique, Words(<<"INDEX">>), Concurrently, IfNotExists,
    Name, Gap, Words(<<"ON">>), Name, Gap0, Line0>>
reDropIndex == <<Words(<<"DROP", "INDEX">>), IfExists, Name>>
RenameTo == <<Gap, Words(<<"RENAME", "TO">>), Name>>
reAlterIndex == <<Words(<<"ALTER", "INDEX">>), IfExists, Name>> \o RenameTo

parseCreateIndex(t) ==
  IF ~ Matches(t, reCreateIndex) THEN Malformed
  ELSE [Type |-> "CreateIndex",
        Unique |-> Given(t, reCreateIndex, Unique),
        Concurrently |-> Given(t, reCreateIndex, Concurrently),
        IfNotExists |-> Given(t, reCreateIndex, IfNotExists),
        IndexName |-> Names(t, reCreateIndex)[1],
        TableName |-> Names(t, reCreateIndex)[2],
        Body |-> TrimSpace(Part(t, reCreateIndex, 11))]

parseDropIndex(t) == Dropped("DropIndex", t, reDropIndex)

parseAlterIndex(t) ==
  IF ~ Matches(t, reAlterIndex) THEN Unknown(t)
  ELSE [Type |-> "AlterIndex"] @@ Renamed(t, reAlterIndex)

-----------------------------------------------------------------------------
reCreateSequence == <<Words(<<"CREATE", "SEQUENCE">>), IfNotExists, Name, Rest>>
reDropSequence == <<Words(<<"DROP", "SEQUENCE">>), IfExists, Name>>
reAlterSeqBase == <<Words(<<"ALTER", "SEQUENCE">>), IfExists, Name, Gap, Line>>
reAlterSeqRename == <<Words(<<"ALTER", "SEQUENCE">>), IfExists, Name>> \o RenameTo

(* A run of blanks is one space.                                           *)
squeezed(t) ==
  LET kept == SelectSeq([k \in DOMAIN t |-> k],
                        LAMBDA k : ~ (Is(t, k, Blank) /\ Is(t, k - 1, Blank))) IN
  [k \in DOMAIN kept |-> IF t[kept[k]] \in Blank THEN "sp" ELSE t[kept[k]]]

parseCreateSequence(t) ==
  IF ~ Matches(t, reCreateSequence) THEN Malformed
  ELSE [Type |-> "CreateSequence", SeqName |-> Part(t, reCreateSequence, 3),
        Body |-> squeezed(TrimSpace(Part(t, reCreateSequence, 4)))]

parseDropSequence(t) == Dropped("DropSequence", t, reDropSequence)

(* An option: what it is written with, its name, its family, and whether   *)
(* the last item of the pattern is its value.                              *)
seqOpt(re, kind, family, valued) ==
  [re |-> re, kind |-> kind, family |-> family, valued |-> valued]
Numbered(words, optional) ==
  <<Words(words)>> \o optional \o <<MarkOf(Number)>>
Without(word) == seqOpt(<<Words(<<"NO">>), Mark(word)>>, <<"NO", word>>, word, FALSE)
SetTo(word) == seqOpt(Numbered(<<word>>, <<>>), <<word>>, word, TRUE)

seqOptSpecs ==
  <<Without("MINVALUE"), Without("MAXVALUE"), Without("CYCLE"),
    seqOpt(Numbered(<<"INCREMENT">>, <<Maybe({<<"BY">>})>>),
           <<"INCREMENT", "BY">>, "INCREMENT", TRUE),
    SetTo("MINVALUE"), SetTo("MAXVALUE"),
    seqOpt(Numbered(<<"START">>, <<Maybe({<<"WITH">>})>>),
           <<"START", "WITH">>, "START", TRUE),
    SetTo("CACHE"),
    seqOpt(<<Mark("CYCLE")>>, <<"CYCLE">>, "CYCLE", FALSE),
    seqOpt(<<Words(<<"OWNED", "BY">>), Name>>, <<"OWNED", "BY">>, "OWNED", TRUE),
    seqOpt(<<Words(<<"AS">>), Name>>, <<"AS">>, "AS", TRUE),
    seqOpt(<<Words(<<"SET">>), MarkOf({"LOGGED", "UNLOGGED"})>>, <<"SET">>, "LOGGED", TRUE),
    seqOpt(Numbered(<<"RESTART">>, <<Maybe({<<"WITH">>})>>), <<"RESTART">>, "RESTART", TRUE),
    seqOpt(<<Mark("RESTART")>>, <<"RESTART">>, "RESTART", FALSE)>>

(* The families seen, and the options in the order of the table            *)
parseSequenceOptions(t) ==
  LET Take(found, spec) ==
        IF spec.family \in found.seen \/ ~ Occurs(t, spec.re) THEN found
        ELSE LET m == Leftmost(t, spec.re)
                 value == IF spec.valued THEN PartOf(t, m, Len(spec.re)) ELSE <<>> IN
             [seen |-> found.seen \cup {spec.family},
              opts |-> Append(found.opts, [Kind |-> spec.kind, Value |-> value])]
  IN  FoldLeft(Take, [seen |-> {}, opts |-> <<>>], seqOptSpecs).opts

parseAlterSequence(t) ==
  LET opts == parseSequenceOptions(Part(t, reAlterSeqBase, 5)) IN
  CASE Matches(t, reAlterSeqRename) ->
         [Type |-> "AlterSequence"] @@ Renamed(t, reAlterSeqRename)
    [] ~ Matches(t, reAlterSeqRename) /\ Matches(t, reAlterSeqBase) /\ opts # <<>> ->
         [Type |-> "AlterSequenceOpts", SeqName |-> Names(t, reAlterSeqBase)[1],
          Opts |-> opts]
    [] OTHER -> Unknown(t)

-----------------------------------------------------------------------------
typeNamed == <<Words(<<"CREATE", "TYPE">>), Name, Gap>>
reCreateTypeEnum ==
  typeNamed \o <<Words(<<"AS">>), Mark("ENUM"), Gap0, Mark("("), Line, Mark(")")>>
reCreateTypeRange == typeNamed \o <<Words(<<"AS">>), Mark("RANGE"), Gap0, Mark("(")>>
reCreateTypeComposite == typeNamed \o <<Mark("AS"), Gap0, Mark("(")>>
reDropType == <<Words(<<"DROP", "TYPE">>), IfExists, Name>>
reAlterType == <<Words(<<"ALTER", "TYPE">>), Name, Gap, Line>>
reAlterTypeAddValue == <<Words(<<"ADD", "VALUE">>), IfNotExists, Literal>>
ValuePlace == <<Gap, OneOf({<<"BEFORE">>, <<"AFTER">>}), Literal>>
reAlterTypeRenameValue ==
  <<Words(<<"RENAME", "VALUE">>), Literal, Gap, Words(<<"TO">>), Literal>>

parseCreateType(t) ==
  LET labels == splitAtDepthZeroCommas(Part(t, reCreateTypeEnum, 8)) IN
  CASE Matches(t, reCreateTypeEnum) ->
         [Type |-> "CreateType", TypeName |-> Names(t, reCreateTypeEnum)[1],
          Labels |-> [k \in DOMAIN labels |-> Trim(labels[k], {"'"})]]
    [] Matches(t, reCreateTypeRange) \/ Matches(t, reCreateTypeComposite) ->
         CreateObject("TYPE", normalizeIdent(Names(t, typeNamed)[1]), FALSE, t)
    [] OTHER -> Unknown(t)

parseDropType(t) == Dropped("DropType", t, reDropType)

Value(t, pat, k) == Front(Tail(Part(t, pat, k)))

(* Where the label goes: in front of or behind another, or to the end      *)
placedValue(s) ==
  LET placed == reAlterTypeAddValue \o ValuePlace IN
  IF Matches(s, placed)
    THEN [Place |-> Part(s, placed, 5)[1], Other |-> Value(s, placed, 6)]
    ELSE [Place |-> "END", Other |-> <<>>]

parseAlterTypeAction(s) ==
  CASE Matches(s, reAlterTypeAddValue) ->
         [Kind |-> "AddValue", Value |-> Value(s, reAlterTypeAddValue, 3),
          IfNotExists |-> Given(s, reAlterTypeAddValue, IfNotExists)] @@ placedValue(s)
    [] Matches(s, reAlterTypeRenameValue) ->
         [Kind |-> "RenameValue", Value |-> Value(s, reAlterTypeRenameValue, 2),
          NewValue |-> Value(s, reAlterTypeRenameValue, 5)]
    [] Matches(s, reRenameTo) -> [Kind |-> "RenameTo", NewName |-> Names(s, reRenameTo)[1]]
    [] OTHER -> [Kind |-> "Other"]

parseAlterType(t) ==
  LET action == parseAlterTypeAction(TrimSpace(Part(t, reAlterType, 4))) IN
  IF ~ Matches(t, reAlterType) \/ action.Kind = "Other" THEN Unknown(t)
  ELSE [Type |-> "AlterType", TypeName |-> Names(t, reAlterType)[1], Action |-> action]
=============================================================================
