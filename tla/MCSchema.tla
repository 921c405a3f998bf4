------------------------------ MODULE MCSchema ------------------------------
(* The whole schema under statements about one registry at a time: which   *)
(* one is chosen at the start.  All statements go through Apply.           *)
EXTENDS Schema

CONSTANTS a, b, c, p, q, r, x, y

VARIABLE registry

ta == plain(a)
tb == plain(b)

(* Three names for sequences, one of them in two spellings; other names    *)
(* for types, which keep to plain ones.                                    *)
MCSequenceToken == {ta, quoted(a), tb, plain(c)}
MCTypeToken == {plain(p), plain(q), plain(r)}
MCTableToken == {ta, tb, quoted(a)}
MCPartitionToken == {ta, quoted(a)}
MCObjectToken == {ta, tb}
MCToken == MCSequenceToken \cup MCTypeToken
MCOneToken == {ta}

(* Which of its names is which makes no difference to a type.              *)
MCSameNames == Permutations({p, q, r})

(* Options of two families besides RESTART                                 *)
MCOption == {[Kind |-> "MINVALUE", Value |-> 0],
             [Kind |-> "NO MINVALUE", Value |-> 0],
             [Kind |-> "CYCLE", Value |-> 0],
             [Kind |-> "RESTART", Value |-> 0]}

(* The maps do not depend on what is in a body.                            *)
MCOneOption == {[Kind |-> "CYCLE", Value |-> 0]}

MCBareTables == {[Name |-> t, Columns |-> <<>>, Constraints |-> <<>>] : t \in MCTableToken}
MCTableLists == {<<ta>>, <<tb>>, <<ta, tb>>}
MCIndexToken == {plain(x), plain(y)}
MCNoColumns == {{}}

-----------------------------------------------------------------------------
(* The statements of a type in which every name is one of these, in the    *)
(* verbatim text too                                                       *)
NameFields == {"SeqName", "TypeName", "TableName", "Name", "OldName", "NewName"}

Of(type, stmts, names) ==
  {Stmt(type, v) : v \in {w \in stmts :
     /\ \A f \in NameFields \cap DOMAIN w : w[f] \in names
     /\ "SQL" \in DOMAIN w => w.SQL.Name \in names}}

SequenceStatements ==
  LET On(type, stmts) == Of(type, stmts, MCSequenceToken) IN
  On("CreateSequence", CreateSequenceStmt) \cup On("DropSequence", DropSequenceStmt)
    \cup On("AlterSequence", AlterSequenceStmt)
    \cup On("AlterSequenceOpts", AlterSequenceOptsStmt)

ObjectStatements(names) ==
  LET On(type, stmts) == Of(type, stmts, names) IN
  On("CreateObject", CreateObjectStmt \ CreatePartitionStmt) \cup On("DropObject", DropObjectStmt)
    \cup On("AlterObject", AlterObjectStmt)

AlterStatements ==
  LET On(type, stmts) == Of(type, stmts, MCObjectToken) IN
  On("AlterFunctionOpts", AlterFunctionOptsStmt)
    \cup On("AlterObjectOpts", AlterObjectOptsStmt)
    \cup {Stmt("Unknown", v) : v \in {w \in UnknownStmt : w.Raw.Name \in MCObjectToken}}

TypeStatements ==
  LET On(type, stmts) == Of(type, stmts, MCTypeToken) IN
  On("CreateType", CreateTypeStmt) \cup On("DropType", DropTypeStmt)
    \cup On("AlterTypeAddValue", AddValueStmt)
    \cup On("AlterTypeRenameValue", RenameValueStmt)
    \cup On("AlterTypeRenameTo", RenameTypeStmt)
    \cup ObjectStatements(MCTypeToken)

TableStatements ==
  LET On(type, stmts) == Of(type, stmts, MCTableToken \cup MCIndexToken) IN
  On("CreateTable", CreateTableStmt) \cup On("AlterTableRenameTo", RenameTableStmt)
    \cup On("DropTable", DropTableStmt) \cup On("CreateIndex", CreateIndexStmt)
    \cup On("DropIndex", DropIndexStmt) \cup On("AlterIndex", AlterIndexStmt)
    \cup Of("CreateObject", CreatePartitionStmt, MCPartitionToken)

-----------------------------------------------------------------------------
mcVars == <<schemaVars, registry>>

AnyStatements == [sequences |-> SequenceStatements,
                  types |-> TypeStatements,
                  tables |-> TableStatements]

AnyInit == SchemaInit /\ registry \in DOMAIN AnyStatements

AnyNext ==
  /\ ~ failed
  /\ \E s \in AnyStatements[registry] : Apply(s)
  /\ UNCHANGED registry

AnySpec == AnyInit /\ [][AnyNext]_mcVars

(* The statements PostgreSQL accepts: no rename takes a name in use.       *)
LegalStatements == [sequences |-> SequenceStatements,
                    objects |-> ObjectStatements(MCObjectToken) \cup AlterStatements]

LegalInit == SchemaInit /\ registry \in DOMAIN LegalStatements

LegalNext ==
  /\ ~ failed
  /\ \E s \in LegalStatements[registry] : RenamesToFreeName(s) /\ Apply(s)
  /\ UNCHANGED registry

LegalSpec == LegalInit /\ [][LegalNext]_mcVars
=============================================================================
