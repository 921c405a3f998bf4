------------------------------ MODULE EmitText ------------------------------
(***************************************************************************)
(* The text of a definition that was parsed and not altered since, as      *)
(* emitter.go writes it, without the semicolon.                            *)
(***************************************************************************)
EXTENDS ObjectText

(* strings.Join                                                            *)
Joined(parts, separator) ==
  FlattenSeq([k \in DOMAIN parts |->
    IF k = 1 THEN parts[k] ELSE separator \o parts[k]])

Optional(cond, words) == IF cond THEN Spaced(words) \o <<"sp">> ELSE <<>>

emitColumn(col) ==
  LET given(part, before) == IF part = <<>> THEN <<>> ELSE <<before \o part>> IN
  Joined(<<col.Name, col.DataType>>
           \o given(col.Collation, <<"COLLATE", "sp">>)
           \o (IF col.NotNull THEN <<NotNull>> ELSE <<>>)
           \o FlattenSeq([k \in 1..Cardinality(col.Default) |->
                <<<<"DEFAULT", "sp">> \o (CHOOSE d \in col.Default : TRUE)>>])
           \o given(col.InlineConstraints, <<>>),
         <<"sp">>)

(* Mistake: the name is left out.                                          *)
emitConstraintOnly(c) == c.Definition

emitConstraint(c) ==
  IF c.Name = <<>> THEN c.Definition
  ELSE Spaced(<<"CONSTRAINT">>) \o <<"sp">> \o c.Name \o <<"sp">> \o c.Definition

(* Every column and constraint stands on a line of its own.                *)
emitTable(s) ==
  LET items == [k \in DOMAIN s.Columns |-> emitColumn(s.Columns[k])]
               \o [k \in DOMAIN s.Constraints |-> emitConstraint(s.Constraints[k])]
  IN  <<"CREATE", "sp">>
        \o (IF s.Temporary THEN <<"TEMPORARY", "sp">>
            ELSE Optional(s.Unlogged, <<"UNLOGGED">>))
        \o <<"TABLE", "sp">> \o s.TableName \o <<"sp", "(", "nl", "sp">>
        \o Joined(items, <<",", "nl", "sp">>) \o <<"nl", ")">>
        \o (IF s.PartitionBy = <<>> THEN <<>>
            ELSE <<"sp">> \o PartitionBy \o <<"sp">> \o s.PartitionBy)

emitSequence(s) ==
  Spaced(<<"CREATE", "SEQUENCE">>) \o <<"sp">> \o s.SeqName
    \o (IF s.Body = <<>> THEN <<>> ELSE <<"sp">> \o s.Body)

emitIndex(s) ==
  <<"CREATE", "sp">> \o Optional(s.Unique, <<"UNIQUE">>) \o <<"INDEX", "sp">>
    \o Optional(s.Concurrently, <<"CONCURRENTLY">>)
    \o Optional(s.IfNotExists, <<"IF", "NOT", "EXISTS">>)
    \o s.IndexName \o <<"sp", "ON", "sp">> \o s.TableName \o <<"sp">> \o s.Body

emitTruncate(s) ==
  <<"TRUNCATE", "sp">> \o Joined(s.Tables, <<",", "sp">>)
    \o (IF s.RestartIdentity THEN <<"sp">> \o Spaced(<<"RESTART", "IDENTITY">>) ELSE <<>>)
    \o (IF s.Cascade THEN <<"sp", "CASCADE">> ELSE <<>>)

(* The definitions that the emitter writes from their parts, and those it  *)
(* has the text of.  An ENUM is not read back (EnumsBeforeTables).         *)
Emitted == {"CreateTable", "CreateSequence", "CreateIndex", "Truncate",
            "CreateObject", "AlterObjectOpts", "AlterFunctionOpts"}

emitted(s) ==
  CASE s.Type = "CreateTable" -> emitTable(s)
    [] s.Type = "CreateSequence" -> emitSequence(s)
    [] s.Type = "CreateIndex" -> emitIndex(s)
    [] s.Type = "Truncate" -> emitTruncate(s)
    [] OTHER -> s.SQL
=============================================================================
