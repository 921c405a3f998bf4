------------------------------- MODULE MCMerge -------------------------------
(* A handful of files with fixed contents.  A directory is any choice of   *)
(* them with any numbers in front, so they are applied in every order; of  *)
(* two files with one number the names decide.                             *)
EXTENDS Merge

CONSTANTS a, b, c, d, x, y, text

ta == plain(a)
tb == plain(b)

MCToken == {plain(l) : l \in {a, b, c, d, x, y}}

minValue == [Kind |-> "MINVALUE", Value |-> 0]
noMinValue == [Kind |-> "NO MINVALUE", Value |-> 0]
MCOption == {minValue, noMinValue}

column(name, inline) ==
  [Name |-> name, DataType |-> "int", NotNull |-> FALSE, Default |-> NoValue,
   InlineConstraints |-> inline]

createTable(t, inline) ==
  Stmt("CreateTable", [Name |-> t, Columns |-> <<column(plain(c), inline)>>,
                       Constraints |-> <<>>])

createIndex(i, t) ==
  Stmt("CreateIndex", [Name |-> i, TableName |-> t, IfNotExists |-> FALSE,
                       Body |-> {plain(c)}])

create(kind, t, body, orReplace) ==
  createText(kind, [Name |-> t, Body |-> body, OrReplace |-> orReplace])

alter(kind, t, action) ==
  alterText([Kind |-> kind, Name |-> t, Action |-> action])

-----------------------------------------------------------------------------
(* a table, its partition, its indexes, a second constraint for its column *)
tableFile ==
  <<createTable(ta, <<clause("UNIQUE", NoValue)>>),
    create("PARTITION", plain(d), ta, FALSE),
    Stmt("AlterTable", [TableName |-> ta, Actions |->
      <<[Kind |-> "ADD GENERATED", Column |-> plain(c), Arg |-> "ALWAYS"]>>]),
    createIndex(plain(x), ta),
    createIndex(plain(y), ta),
    Stmt("DropIndex", [IndexName |-> plain(x), IfExists |-> FALSE]),
    Stmt("AlterIndex", [IndexName |-> plain(y), NewName |-> plain(x)])>>

(* another table, which may already be there                               *)
otherTableFile ==
  <<Stmt("DropTable", [TableNames |-> <<tb>>, IfExists |-> TRUE]),
    createTable(plain(d), <<>>),
    Stmt("AlterTableRenameTo", [TableName |-> plain(d), NewName |-> tb]),
    Stmt("Truncate", [Tables |-> <<tb>>, Cascade |-> TRUE])>>

sequenceFile ==
  <<Stmt("CreateSequence", [SeqName |-> tb, Body |-> {minValue}]),
    Stmt("CreateSequence", [SeqName |-> ta, Body |-> {}]),
    Stmt("DropSequence", [SeqName |-> tb, IfExists |-> FALSE]),
    Stmt("AlterSequenceOpts", [SeqName |-> ta, Opts |-> {noMinValue}]),
    Stmt("AlterSequence", [SeqName |-> ta, NewName |-> tb])>>

typeFile ==
  <<Stmt("CreateType", [TypeName |-> ta, Labels |-> <<"x">>]),
    Stmt("AlterTypeAddValue", [TypeName |-> ta, Value |-> "y",
                               IfNotExists |-> FALSE, Where |-> "END"]),
    Stmt("AlterTypeRenameValue", [TypeName |-> ta, Value |-> "y", NewValue |-> "z"]),
    Stmt("AlterTypeRenameTo", [TypeName |-> ta, NewName |-> tb]),
    Stmt("DropType", [TypeName |-> tb, IfExists |-> FALSE]),
    create("TYPE", tb, text, FALSE),
    create("DOMAIN", ta, text, FALSE),
    alter("DOMAIN", ta, "ADD CONSTRAINT"),
    alter("DOMAIN", ta, "OWNER TO")>>

functionFile ==
  <<create("SCHEMA", ta, text, FALSE),
    create("EXTENSION", ta, text, FALSE),
    alter("EXTENSION", ta, "UPDATE"),
    create("PROCEDURE", ta, text, FALSE),
    alter("PROCEDURE", ta, "OWNER TO"),
    create("POLICY", ta, text, FALSE),
    alter("POLICY", ta, "USING"),
    create("MATERIALIZED VIEW", ta, text, FALSE),
    create("FUNCTION", ta, text, FALSE),
    alter("FUNCTION", ta, "OWNER TO"),
    create("VIEW", ta, text, FALSE),
    alter("VIEW", ta, "SET OPTIONS"),
    alter("TRIGGER", ta, "ENABLE"),
    create("RULE", ta, text, FALSE),
    Stmt("AlterObject", [Kind |-> "RULE", OldName |-> ta, NewName |-> tb]),
    create("TRIGGER", ta, text, FALSE),
    Stmt("DropObject", [Kind |-> "TRIGGER", Name |-> ta, IfExists |-> FALSE])>>

replaceFile == <<create("FUNCTION", ta, text, TRUE)>>

brokenFile == <<Stmt("Malformed", NoValue)>>

MCContents ==
  <<tableFile, otherTableFile, sequenceFile, typeFile, functionFile,
    replaceFile, brokenFile>>

(* An ENUM that is written over several lines, and a table. *)
MCEnumContents ==
  <<<<Stmt("CreateTypeLines", [TypeName |-> ta, Labels |-> <<"x">>])>>,
    <<createTable(ta, <<>>)>>>>

-----------------------------------------------------------------------------
(* What the statements of the files are made of.                           *)
MCKind == ObjectKinds
MCAction ==
  {"ADD CONSTRAINT", "OWNER TO", "UPDATE", "USING", "SET OPTIONS", "ENABLE"}
MCText == {text, ta}

GivenTexts == UNION {Range(content) : content \in Range(MCContents \o MCEnumContents)}
Given(type) == {t.V : t \in {u \in GivenTexts : u.Type = type}}

MCCreateTableStmt ==
  {Parse(Stmt("CreateTable", v)).V : v \in Given("CreateTable")}
MCActionList == {v.Actions : v \in Given("AlterTable")}
MCIndexToken == {plain(x), plain(y)}
MCIndexBody == {{plain(c)}}
MCTableList ==
  {v.TableNames : v \in Given("DropTable")} \cup {v.Tables : v \in Given("Truncate")}

-----------------------------------------------------------------------------
entry(i, digits) == [Name |-> i, Digits |-> digits, IsSql |-> TRUE]

(* All choices of files with all numbers, and a file that is no migration. *)
Directories(names, digits) ==
  UNION {{{entry(i, num[i]) : i \in chosen} : num \in [chosen -> digits]} :
           chosen \in SUBSET names}

MCDirectory ==
  {dir \cup {[Name |-> 9, Digits |-> 1, IsSql |-> FALSE]} :
     dir \in Directories(1..7, 1..2)}

-----------------------------------------------------------------------------
(* Two files, the second one behind the first.                             *)
MCTwoFiles == {{entry(1, 1), entry(2, 2)}}

=============================================================================
