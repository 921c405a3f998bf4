------------------------------- MODULE Schema -------------------------------
(***************************************************************************)
(* The whole schema.Schema: the registries of sequences, types, tables,    *)
(* indexes and verbatim objects side by side, and the type switch of       *)
(* Apply that hands a statement to the one handler it is for.  A statement *)
(* is a record of its Go type and its fields.                              *)
(***************************************************************************)
EXTENDS SequenceRegistry, TypeRegistry, TableRegistry

seqOnlyVars == <<Sequences, seqIndex>>
schemaVars == <<seqOnlyVars, enumVars, tableOnlyVars, indexVars, truncVars,
                objOnlyVars, failed>>

Stmt(type, v) == [Type |-> type, V |-> v]

ApplySequence(s) ==
  /\ \/ s.Type = "CreateSequence" /\ applyCreateSequence(s.V)
     \/ s.Type = "DropSequence" /\ applyDropSequence(s.V)
     \/ s.Type = "AlterSequence" /\ applyAlterSequence(s.V)
     \/ s.Type = "AlterSequenceOpts" /\ applyAlterSequenceOpts(s.V)
  /\ UNCHANGED <<enumVars, tableOnlyVars, indexVars, truncVars, objOnlyVars>>

ApplyType(s) ==
  /\ \/ s.Type = "CreateType" /\ applyCreateType(s.V)
     \/ s.Type = "DropType" /\ applyDropType(s.V)
     \/ s.Type = "AlterTypeAddValue" /\ alterTypeAddValue(s.V)
     \/ s.Type = "AlterTypeRenameValue" /\ alterTypeRenameValue(s.V)
     \/ s.Type = "AlterTypeRenameTo" /\ alterTypeRenameTo(s.V)
  /\ UNCHANGED <<seqOnlyVars, tableOnlyVars, indexVars, truncVars>>

(* An ALTER TABLE is here one of two types, see TableRegistry.             *)
ApplyTable(s) ==
  /\ \/ s.Type = "CreateTable" /\ applyCreateTable(s.V)
     \/ s.Type = "AlterTable" /\ applyAlterTable(s.V)
     \/ s.Type = "AlterTableRenameTo" /\ applyRenameTo(s.V)
     \/ s.Type = "DropTable" /\ applyDropTable(s.V)
     \/ s.Type = "CreateIndex" /\ applyCreateIndex(s.V)
     \/ s.Type = "DropIndex" /\ applyDropIndex(s.V)
     \/ s.Type = "AlterIndex" /\ applyAlterIndex(s.V)
     \/ s.Type = "Truncate" /\ applyTruncate(s.V)
  /\ UNCHANGED <<seqOnlyVars, enumVars>>

ApplyObject(s) ==
  /\ \/ s.Type = "CreateObject" /\ applyCreateObject(s.V)
     \/ s.Type = "DropObject" /\ applyDropObject(s.V)
     \/ s.Type = "AlterObject" /\ applyAlterObject(s.V)
     \/ s.Type = "AlterFunctionOpts" /\ applyAlterFunctionOpts(s.V)
     \/ s.Type = "AlterObjectOpts" /\ applyAlterObjectOpts(s.V)
     \/ s.Type = "Unknown" /\ applyUnknown(s.V)
  /\ UNCHANGED <<seqOnlyVars, enumVars, tableOnlyVars, indexVars, truncVars>>

Apply(s) ==
  ApplySequence(s) \/ ApplyType(s) \/ ApplyTable(s) \/ ApplyObject(s)

(* What is not recognised is passed through as it came: an ENUM over       *)
(* several lines, or an ALTER of a kind whose ALTERs have no handler.      *)
PassedThrough(raw) == "TypeName" \in DOMAIN raw \/ raw.Kind \notin KeptAlterKinds

(* The statements Apply has a handler for.                                 *)
IsStatement(s) ==
  \/ s.Type = "CreateSequence" /\ s.V \in CreateSequenceStmt
  \/ s.Type = "DropSequence" /\ s.V \in DropSequenceStmt
  \/ s.Type = "AlterSequence" /\ s.V \in AlterSequenceStmt
  \/ s.Type = "AlterSequenceOpts" /\ s.V \in AlterSequenceOptsStmt
  \/ s.Type = "CreateType" /\ s.V \in CreateTypeStmt
  \/ s.Type = "DropType" /\ s.V \in DropTypeStmt
  \/ s.Type = "AlterTypeAddValue" /\ s.V \in AddValueStmt
  \/ s.Type = "AlterTypeRenameValue" /\ s.V \in RenameValueStmt
  \/ s.Type = "AlterTypeRenameTo" /\ s.V \in RenameTypeStmt
  \/ s.Type = "CreateTable" /\ s.V \in CreateTableStmt
  \/ s.Type = "AlterTable" /\ s.V \in AlterTableStmt
  \/ s.Type = "AlterTableRenameTo" /\ s.V \in RenameTableStmt
  \/ s.Type = "DropTable" /\ s.V \in DropTableStmt
  \/ s.Type = "CreateIndex" /\ s.V \in CreateIndexStmt
  \/ s.Type = "DropIndex" /\ s.V \in DropIndexStmt
  \/ s.Type = "AlterIndex" /\ s.V \in AlterIndexStmt
  \/ s.Type = "Truncate" /\ s.V \in TruncateStmt
  \/ s.Type = "CreateObject" /\ s.V \in CreateObjectStmt
  \/ s.Type = "DropObject" /\ s.V \in DropObjectStmt
  \/ s.Type = "AlterObject" /\ s.V \in AlterObjectStmt
  \/ s.Type = "AlterFunctionOpts" /\ s.V \in AlterFunctionOptsStmt
  \/ s.Type = "AlterObjectOpts" /\ s.V \in AlterObjectOptsStmt
  \/ s.Type = "Unknown" /\ PassedThrough(s.V.Raw)

(* A rename to a name in use is one PostgreSQL refuses; the handlers do    *)
(* not look.                                                               *)
RenamesToFreeName(s) ==
  /\ s.Type = "AlterSequence" => TargetFree(s.V)
  /\ s.Type = "AlterTypeRenameTo" => TypeNameFree(s.V.NewName)
  /\ s.Type = "AlterTableRenameTo" => ~ IsTable(s.V.NewName)
  /\ s.Type = "AlterIndex" => IndexNameFree(s.V.NewName)
  /\ s.Type = "AlterObject" => ObjTargetFree(s.V)

HasTable(t) == IsTable(t) \/ IsPartition(t)

HasPartitions(keys) ==
  \E i \in DOMAIN Objects :
    Objects[i].Kind = "PARTITION" /\ normIdent(Objects[i].SQL.Body) \in keys

(* An object that still has the name of its text.                          *)
HasFirstName(v) ==
  LET key == objectKey(v.Kind, v.Name) IN
  /\ key \in DOMAIN objectIdx
  /\ normIdent(Objects[objectIdx[key]].SQL.Name) = v.Name

(* A statement is about what the files before it created and did not       *)
(* rename, and no table is renamed or dropped while it has partitions, no  *)
(* partition dropped while it has indexes: the handlers leave those as     *)
(* they are.                                                               *)
RefersToDefined(s) ==
  /\ s.Type = "CreateIndex" => HasTable(s.V.TableName)
  /\ s.Type = "CreateObject" /\ s.V.Kind = "PARTITION" => HasTable(s.V.SQL.Body)
  /\ s.Type = "AlterTableRenameTo" => ~ HasPartitions({normIdent(s.V.TableName)})
  /\ s.Type = "DropTable" =>
       LET dropped == {normIdent(t) : t \in Range(s.V.TableNames)} IN
       /\ ~ HasPartitions(dropped)
       /\ \A i \in DOMAIN Indexes :
            normIdent(Indexes[i].TableName) \in dropped => IsTable(Indexes[i].TableName)
  /\ s.Type \in {"AlterFunctionOpts", "AlterObjectOpts"} =>
       Untracked(s.V.Kind, s.V.SQL.Action) \/ HasFirstName(s.V)

-----------------------------------------------------------------------------
SchemaInit == SeqInit /\ TypeInit /\ TableInit

(* schema.New, as the first thing of a later merge *)
New ==
  /\ Sequences' = <<>> /\ seqIndex' = [k \in {} |-> 0]
  /\ Types' = <<>> /\ typeIndex' = [k \in {} |-> 0]
  /\ Tables' = <<>> /\ tableIndex' = [k \in {} |-> 0]
  /\ Indexes' = <<>> /\ indexIndex' = [k \in {} |-> 0]
  /\ Truncates' = <<>> /\ truncateIdx' = [k \in {} |-> 0]
  /\ Objects' = <<>> /\ objectIdx' = [k \in {} |-> 0]
  /\ Unknowns' = <<>>
  /\ UNCHANGED failed

(* Every map of the schema leads to the definition it is asked for ...      *)
SchemaMapsSound == SeqIndexSound /\ TypeIndexSound /\ TableMapsSound

(* ... and every definition is found.                                      *)
SchemaCoherent ==
  /\ SeqIndexCoherent
  /\ TypeIndexCoherent
  /\ TableMapsCoherent
=============================================================================
