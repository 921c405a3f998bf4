----------------------------- MODULE TableText -----------------------------
(***************************************************************************)
(* CREATE TABLE and ALTER TABLE: what parser.go makes of their text, one   *)
(* operator for each parse function.  The keywords of a text are upper     *)
(* case, as they are matched in any case.                                  *)
(***************************************************************************)
EXTENDS ColumnText, TLC

CONSTANTS
  LowerCase,      \* the upper case words of names, to their lower case
  Number          \* the numbers that occur in options

(* Parse returned an error; a statement it does not know.                  *)
Malformed == [Type |-> "Malformed"]
Unknown(t) == [Type |-> "Unknown", Raw |-> t]

-----------------------------------------------------------------------------
normalizeIdent(name) ==
  LET letters == Trim(name, {"quote"}) IN
  [k \in DOMAIN letters |->
     IF letters[k] \in DOMAIN LowerCase THEN LowerCase[letters[k]] ELSE letters[k]]

OrReplace == Maybe({<<"OR", "REPLACE">>})
IfExists == Maybe({<<"IF", "EXISTS">>})
IfNotExists == Maybe({<<"IF", "NOT", "EXISTS">>})

-----------------------------------------------------------------------------
Persistence == Maybe({<<"TEMPORARY">>, <<"TEMP">>, <<"UNLOGGED">>})

createTableHead ==
  <<Words(<<"CREATE">>), Maybe({<<"GLOBAL">>, <<"LOCAL">>}), Persistence,
    Words(<<"TABLE">>), IfNotExists, Name>>
reCreateTable == createTableHead \o <<Gap0, Mark("(")>>
rePartitionOf == createTableHead \o <<Gap, Words(<<"PARTITION", "OF">>)>>

PartitionBy == Spaced(<<"PARTITION", "BY">>)

CreateObject(kind, name, orReplace, t) ==
  [Type |-> "CreateObject", Kind |-> kind, Name |-> name,
   OrReplace |-> orReplace, SQL |-> t]

(* What follows the column list, other than PARTITION BY, is not looked at.*)
createTable(t, persistence, open, close) ==
  LET parts == splitAtDepthZeroCommas(Between(t, open, close))
      behind == SubSeq(t, close + 1, Len(t))
      by == Places(behind, PartitionBy, 1)
  IN  IF ~ ColumnListOK(parts) THEN Malformed ELSE
      [Type |-> "CreateTable",
       TableName |-> Part(t, reCreateTable, 6),
       Temporary |-> Range(persistence) \cap {"TEMPORARY", "TEMP"} # {},
       Unlogged |-> "UNLOGGED" \in Range(persistence),
       Columns |-> columnsIn(parts),
       Constraints |-> constraintsIn(parts),
       PartitionBy |-> IF by = {} THEN <<>> ELSE
         TrimSpace(SubSeq(behind, Min(by) + Len(PartitionBy), Len(behind)))]

parseCreateTable(t) ==
  CASE Matches(t, reCreateTable) ->
         LET m == MatchesAt(t, reCreateTable, 1)[1]
             closes == parenCloses(t, m[8]) IN
         IF closes = {} THEN Malformed
         ELSE createTable(t, PartOf(t, m, 3), m[8], Min(closes))
    [] ~ Matches(t, reCreateTable) /\ Matches(t, rePartitionOf) ->
         CreateObject("PARTITION", normalizeIdent(Part(t, rePartitionOf, 6)), FALSE, t)
    [] OTHER -> Malformed

-----------------------------------------------------------------------------
(* ALTER TABLE: one list of actions on one line.                           *)
alterColumn == <<Words(<<"ALTER", "COLUMN">>), Name, Gap>>

Marks(words) == [k \in DOMAIN Spaced(words) |-> Mark(Spaced(words)[k])]

reAddCol == <<Words(<<"ADD", "COLUMN">>), IfNotExists, Line>>
reDropCol == <<Words(<<"DROP", "COLUMN">>), IfExists, Name>>
reAlterColType == alterColumn \o <<Maybe({<<"SET", "DATA">>}), Words(<<"TYPE">>), Line>>
reAlterColUsing == <<Gap, Words(<<"USING">>), Line>>
reSetDefault == alterColumn \o Marks(<<"SET", "DEFAULT">>) \o <<Gap, Line>>
reDropDefault == alterColumn \o Marks(<<"DROP", "DEFAULT">>)
reSetNotNull == alterColumn \o Marks(<<"SET", "NOT", "NULL">>)
reDropNotNull == alterColumn \o Marks(<<"DROP", "NOT", "NULL">>)
reAlterColAddGen == alterColumn \o <<Words(<<"ADD">>), Words(<<"GENERATED">>), Rest>>
reAlterColSetAlways == alterColumn \o <<Words(<<"SET", "GENERATED">>), Mark("ALWAYS")>>
reAlterColSetByDefault ==
  alterColumn \o <<Words(<<"SET", "GENERATED", "BY">>), Mark("DEFAULT")>>
reAlterColDropIdent == alterColumn \o <<Words(<<"DROP">>), Mark("IDENTITY")>>
reAlterColSetStorage == alterColumn \o <<Words(<<"SET", "STORAGE">>), Name>>
reAlterColSetComp == alterColumn \o <<Words(<<"SET", "COMPRESSION">>), Name>>
renaming(what) == <<Words(<<"RENAME", what>>), Name, Gap, Words(<<"TO">>), Name>>
reRenameTo == <<Words(<<"RENAME", "TO">>), Name>>
reAddConstr == <<Words(<<"ADD", "CONSTRAINT">>), Name, Gap, Line>>
reAddKey == <<Words(<<"ADD">>), OneOf({<<"PRIMARY">>, <<"FOREIGN">>}), Mark("KEY"), Gap0, Line0>>
reAddUniqueOrCheck == <<Words(<<"ADD">>), MarkOf({"UNIQUE", "CHECK"}), Gap0, Line0>>
reDropConstr == <<Words(<<"DROP", "CONSTRAINT">>), IfExists, Name>>

withoutUsing(t) ==
  TrimSpace(IF Occurs(t, reAlterColUsing)
              THEN SubSeq(t, 1, Min(Finds(t, reAlterColUsing)) - 1) ELSE t)

Act(kind, more) == [Kind |-> kind] @@ more
On(s, pat) == [Column |-> Names(s, pat)[1]]
Renamed(s, pat) == [OldName |-> Names(s, pat)[1], NewName |-> Names(s, pat)[2]]

(* A row is a pattern, whether it matches, and the action it stands for.   *)
parseAlterAction(s) ==
  CASE Matches(s, reAddCol) ->
         Act("AddColumn", [ColDef |-> parseColumnDef(Part(s, reAddCol, 3))])
    [] Matches(s, reDropCol) -> Act("DropColumn", On(s, reDropCol))
    [] Matches(s, reAlterColType) ->
         Act("AlterColumnType",
             [DataType |-> withoutUsing(Part(s, reAlterColType, 6))] @@ On(s, reAlterColType))
    [] Matches(s, reSetDefault) ->
         Act("SetDefault",
             [Default |-> TrimSpace(Part(s, reSetDefault, 8))] @@ On(s, reSetDefault))
    [] Matches(s, reDropDefault) -> Act("DropDefault", On(s, reDropDefault))
    [] Matches(s, reSetNotNull) -> Act("SetNotNull", On(s, reSetNotNull))
    [] Matches(s, reDropNotNull) -> Act("DropNotNull", On(s, reDropNotNull))
    [] Matches(s, reAlterColAddGen) ->
         Act("AddGenerated",
             [GeneratedClause |-> Part(s, reAlterColAddGen, 5) \o Part(s, reAlterColAddGen, 6)]
             @@ On(s, reAlterColAddGen))
    [] Matches(s, reAlterColSetAlways) ->
         Act("SetGenerated", [GeneratedKind |-> "ALWAYS"] @@ On(s, reAlterColSetAlways))
    [] Matches(s, reAlterColSetByDefault) ->
         Act("SetGenerated", [GeneratedKind |-> "BY DEFAULT"] @@ On(s, reAlterColSetByDefault))
    [] Matches(s, reAlterColDropIdent) ->
         Act("DropIdentity",
             [IfExists |-> Matches(s, reAlterColDropIdent
                                        \o <<Gap, Words(<<"IF">>), Mark("EXISTS")>>)]
             @@ On(s, reAlterColDropIdent))
    [] Matches(s, reAlterColSetStorage) ->
         Act("SetStorage", [Type |-> Names(s, reAlterColSetStorage)[2]]
                           @@ On(s, reAlterColSetStorage))
    [] Matches(s, reAlterColSetComp) ->
         Act("SetCompression", [Method |-> Names(s, reAlterColSetComp)[2]]
                               @@ On(s, reAlterColSetComp))
    [] Matches(s, renaming("CONSTRAINT")) ->
         Act("RenameConstraint", Renamed(s, renaming("CONSTRAINT")))
    [] Matches(s, renaming("COLUMN")) -> Act("RenameColumn", Renamed(s, renaming("COLUMN")))
    [] Matches(s, reRenameTo) -> Act("RenameTo", [NewName |-> Names(s, reRenameTo)[1]])
    [] Matches(s, reAddConstr) ->
         Act("AddConstraint", TableConstraint(Names(s, reAddConstr)[1],
                                              TrimSpace(Part(s, reAddConstr, 4))))
    [] Matches(s, reAddKey) ->
         Act("AddConstraint", TableConstraint(<<>>,
             Part(s, reAddKey, 2) \o <<"KEY", "sp">> \o TrimSpace(Part(s, reAddKey, 5))))
    [] Matches(s, reAddUniqueOrCheck) ->
         Act("AddConstraint", TableConstraint(<<>>,
             TrimSpace(Part(s, reAddUniqueOrCheck, 2) \o <<"sp">>
                       \o TrimSpace(Part(s, reAddUniqueOrCheck, 4)))))
    [] Matches(s, reDropConstr) ->
         Act("DropConstraint", [Name |-> Names(s, reDropConstr)[1],
                                IfExists |-> Given(s, reDropConstr, IfExists)])
    [] OTHER -> [Kind |-> "Skip"]

reAlterTable ==
  <<Words(<<"ALTER", "TABLE">>), Maybe({<<"ONLY">>}), Name, Gap, Line>>

parseAlterTable(t) ==
  LET parts == splitAtDepthZeroCommas(TrimSpace(Part(t, reAlterTable, 5))) IN
  IF ~ Matches(t, reAlterTable) THEN Malformed
  ELSE [Type |-> "AlterTable", TableName |-> Part(t, reAlterTable, 3),
        Actions |-> [k \in DOMAIN parts |-> parseAlterAction(parts[k])]]
=============================================================================
