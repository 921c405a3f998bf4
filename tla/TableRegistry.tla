--------------------------- MODULE TableRegistry ---------------------------
(***************************************************************************)
(* The tables and indexes of merger/schema: the slices Tables and Indexes, *)
(* their maps, the TRUNCATE statements kept for the end of the output, and *)
(* the handlers of CREATE, ALTER and DROP TABLE, CREATE, ALTER and DROP    *)
(* INDEX and TRUNCATE.  A partition (CREATE TABLE ... PARTITION OF) is a   *)
(* verbatim object; the body of its text is the name of its parent.        *)
(***************************************************************************)
EXTENDS ObjectRegistry, TableDef, Integers

CONSTANTS
  CreateTableStmt,  \* the CREATE TABLE statements: name, columns, constraints
  ActionList,       \* the action lists of the ALTER TABLE statements
  IndexToken,       \* names of indexes
  IndexBody,        \* the sets of columns a CREATE INDEX can name
  TableList,        \* the name lists of DROP TABLE and TRUNCATE
  MaxTables, MaxIndexes, MaxTruncates,    \* bounds on the slices
  MaxConstraints                          \* bound on a table's constraints

(* The parts of a table.  An inline constraint is a text, and not empty.   *)
IsColumnDef(c) ==
  /\ c = [Name |-> c.Name, DataType |-> c.DataType, NotNull |-> c.NotNull,
          Default |-> c.Default, InlineConstraints |-> c.InlineConstraints]
  /\ c.NotNull \in BOOLEAN
  /\ IsSlice(c.InlineConstraints)
  /\ \A ch \in Range(c.InlineConstraints) : IsSlice(ch) /\ ch # <<>>

IsTableConstraint(c) == c = [Name |-> c.Name, Definition |-> c.Definition]

IsTableDef(t) ==
  /\ t = [Name |-> t.Name, Columns |-> t.Columns, Constraints |-> t.Constraints]
  /\ t.Name \in Token
  /\ IsSlice(t.Columns) /\ \A c \in Range(t.Columns) : IsColumnDef(c)
  /\ IsSlice(t.Constraints) /\ \A c \in Range(t.Constraints) : IsTableConstraint(c)

IsAction(a) ==
  /\ a.Kind \in ActionKind
  /\ a.Kind = "ADD COLUMN" => IsColumnDef(a.ColDef)
  /\ a.Kind = "ADD CONSTRAINT" => IsTableConstraint(a.Constraint)

(* The statements as the parser builds them.                               *)
ASSUME TableAssumption ==
  /\ \A v \in CreateTableStmt : IsTableDef(v)
  /\ \A actions \in ActionList :
       IsSlice(actions) /\ \A a \in Range(actions) : IsAction(a)
  /\ TableList \subseteq Seq(Token)

VARIABLES
  Tables, tableIndex,
  Indexes, indexIndex,
  Truncates, truncateIdx

indexVars == <<Indexes, indexIndex>>
truncVars == <<Truncates, truncateIdx>>
tableOnlyVars == <<Tables, tableIndex>>
objOnlyVars == <<Objects, objectIdx, Unknowns>>
tableVars == <<Tables, tableIndex, Indexes, indexIndex, Truncates, truncateIdx,
               Objects, objectIdx, Unknowns, failed>>

AlterTableStmt == [TableName : Token, Actions : ActionList]
RenameTableStmt == [TableName : Token, NewName : Token]
DropTableStmt == [TableNames : TableList, IfExists : BOOLEAN]
CreateIndexStmt ==
  [Name : IndexToken, TableName : Token, IfNotExists : BOOLEAN, Body : IndexBody]
DropIndexStmt == [IndexName : IndexToken, IfExists : BOOLEAN]
AlterIndexStmt == [IndexName : IndexToken, NewName : IndexToken]
TruncateStmt == [Tables : TableList, Cascade : BOOLEAN]

tableKeys == normKeys(Tables)
indexKeys == normKeys(Indexes)

RefuseTable ==
  /\ Refused
  /\ UNCHANGED <<Tables, tableIndex, indexVars, truncVars, objOnlyVars>>

-----------------------------------------------------------------------------
(* Mistake: the position is counted before the element is there.           *)
applyCreateTableEarly(v) ==
  LET key == normIdent(v.Name) IN
  /\ key \notin DOMAIN tableIndex
  /\ Len(Tables) < MaxTables
  /\ tableIndex' = Put(tableIndex, key, Len(Tables) - 1)
  /\ Tables' = Append(Tables, v)
  /\ UNCHANGED <<indexVars, truncVars, objOnlyVars>>
  /\ Succeed

applyCreateTable(v) ==
  LET key == normIdent(v.Name) IN
  \/ /\ key \in DOMAIN tableIndex
     /\ RefuseTable
  \/ /\ key \notin DOMAIN tableIndex
     /\ Len(Tables) < MaxTables
     /\ tableIndex' = Put(tableIndex, key, Len(Tables) + 1)
     /\ Tables' = Append(Tables, v)
     /\ UNCHANGED <<indexVars, truncVars, objOnlyVars>>
     /\ Succeed

(* One action of an ALTER TABLE, on the table and whether an action before *)
(* it was refused.                                                         *)
actOn(s, a) ==
  LET after == IF s.refused THEN {} ELSE applyAction(s.table, a) IN
  IF after = {} THEN [s EXCEPT !.refused = TRUE]
                ELSE [s EXCEPT !.table = CHOOSE x \in after : TRUE]

(* The actions of one ALTER TABLE, one after the other until one of them   *)
(* is refused; the actions before it have changed the table.  At i: what   *)
(* the first i actions left.                                               *)
applyActions(t, actions) ==
  LET after[i \in 0..Len(actions)] ==
        IF i = 0 THEN [table |-> t, refused |-> FALSE]
                 ELSE actOn(after[i - 1], actions[i])
  IN  after

(* No action touches the name of the table.                                *)
applyAlterTable(v) ==
  LET key == normIdent(v.TableName)
      idx == tableIndex[key]
      altered == applyActions(Tables[idx], v.Actions)[Len(v.Actions)] IN
  \/ /\ key \notin DOMAIN tableIndex
     /\ RefuseTable
  \/ /\ key \in DOMAIN tableIndex
     /\ Len(altered.table.Constraints) <= MaxConstraints
     /\ Tables' = [Tables EXCEPT ![idx].Columns = altered.table.Columns,
                                 ![idx].Constraints = altered.table.Constraints]
     /\ IF altered.refused THEN Refused ELSE Succeed
     /\ UNCHANGED <<tableIndex, indexVars, truncVars, objOnlyVars>>

(* Mistake: all indexes are moved.                                         *)
moveAllIndexes(oldKey, newName) ==
  [i \in DOMAIN Indexes |-> [Indexes[i] EXCEPT !.TableName = newName]]

(* The indexes of a renamed table follow it.                               *)
moveIndexes(oldKey, newName) ==
  [i \in DOMAIN Indexes |->
     IF normIdent(Indexes[i].TableName) = oldKey
       THEN [Indexes[i] EXCEPT !.TableName = newName] ELSE Indexes[i]]

(* RENAME TO, which PostgreSQL only takes as the only action of its        *)
(* statement.                                                              *)
applyRenameTo(v) ==
  LET oldKey == normIdent(v.TableName)
      idx == tableIndex[oldKey]
      referring == ReplaceSelfReference(Tables[idx], v.NewName) IN
  \/ /\ oldKey \notin DOMAIN tableIndex
     /\ RefuseTable
  \/ /\ oldKey \in DOMAIN tableIndex
     /\ Tables' = [Tables EXCEPT ![idx] = [referring EXCEPT !.Name = v.NewName]]
     /\ tableIndex' = Put(Delete(tableIndex, oldKey), normIdent(v.NewName), idx)
     /\ Indexes' = moveIndexes(oldKey, v.NewName)
     /\ UNCHANGED <<indexIndex, truncVars, objOnlyVars>>
     /\ Succeed

(* Mistake: the last table is moved into the gap.                          *)
tablesSwapped(tables, idx) ==
  Front([tables EXCEPT ![idx] = tables[Len(tables)]])

(* The tables left when the one at a position is dropped.                  *)
tablesWithout(tables, idx) == RemoveAt(tables, idx)

(* Mistake: the indexes of a dropped table stay.                           *)
keepIndexes(indexes, key) == indexes

(* The loop over the indexes; at i: what it kept of the first i.           *)
keptIndexes(indexes, key) ==
  LET kept[i \in 0..Len(indexes)] ==
        IF i = 0 THEN <<>>
        ELSE IF normIdent(indexes[i].TableName) # key
          THEN Append(kept[i - 1], indexes[i]) ELSE kept[i - 1]
  IN  kept

(* The indexes left when the table of this key is dropped.                 *)
indexesWithout(indexes, key) == keptIndexes(indexes, key)[Len(indexes)]

(* Mistake: indexIndex is left as it was.                                  *)
staleIndexPositions(indexes) == indexIndex

(* indexIndex made anew from the slice *)
IndexPositions(indexes) == Reindex([k \in {} |-> 0], normKeys(indexes), 1)

(* One name of a DROP TABLE, on a record of the variables it can change.   *)
(* A table takes its indexes with it, a partition does not.                *)
dropOneTable(s, name, ifExists) ==
  LET key == normIdent(name)
      idx == s.tableIndex[key]
      partKey == objectKey("PARTITION", name)
      partIdx == s.objectIdx[partKey]
      tables == tablesWithout(s.Tables, idx)
      kept == indexesWithout(s.Indexes, key)
      objects == RemoveAt(s.Objects, partIdx) IN
  IF s.refused THEN s
  ELSE IF key \in DOMAIN s.tableIndex
    THEN [s EXCEPT !.Tables = tables,
                   !.tableIndex = Reindex(Delete(@, key), normKeys(tables), idx),
                   !.Indexes = kept,
                   !.indexIndex = IndexPositions(kept)]
  ELSE IF partKey \in DOMAIN s.objectIdx
    THEN [s EXCEPT !.Objects = objects,
                   !.objectIdx = Reindex(Delete(@, partKey), objectKeys(objects), partIdx)]
  ELSE [s EXCEPT !.refused = ~ ifExists]

(* One name after the other until one is refused; at i: what the first i   *)
(* names left.                                                             *)
dropTables(before, names, ifExists) ==
  LET after[i \in 0..Len(names)] ==
        IF i = 0 THEN before
                 ELSE dropOneTable(after[i - 1], names[i], ifExists)
  IN  after

applyDropTable(v) ==
  LET before == [Tables |-> Tables, tableIndex |-> tableIndex,
                 Indexes |-> Indexes, indexIndex |-> indexIndex,
                 Objects |-> Objects, objectIdx |-> objectIdx, refused |-> FALSE]
      after == dropTables(before, v.TableNames, v.IfExists)[Len(v.TableNames)] IN
  /\ Tables' = after.Tables
  /\ tableIndex' = after.tableIndex
  /\ Indexes' = after.Indexes
  /\ indexIndex' = after.indexIndex
  /\ Objects' = after.Objects
  /\ objectIdx' = after.objectIdx
  /\ IF after.refused THEN Refused ELSE Succeed
  /\ UNCHANGED <<truncVars, Unknowns>>

-----------------------------------------------------------------------------
RefuseIndex == RefuseTable

(* A duplicate is skipped with IF NOT EXISTS, and otherwise overwrites the *)
(* index of that name in place.                                            *)
applyCreateIndex(v) ==
  LET key == normIdent(v.Name) IN
  \/ /\ key \in DOMAIN indexIndex
     /\ v.IfNotExists
     /\ UNCHANGED tableVars
  \/ /\ key \in DOMAIN indexIndex
     /\ ~ v.IfNotExists
     /\ Indexes' = [Indexes EXCEPT ![indexIndex[key]] = v]
     /\ UNCHANGED <<Tables, tableIndex, indexIndex, truncVars, objOnlyVars>>
     /\ Succeed
  \/ /\ key \notin DOMAIN indexIndex
     /\ Len(Indexes) < MaxIndexes
     /\ indexIndex' = Put(indexIndex, key, Len(Indexes) + 1)
     /\ Indexes' = Append(Indexes, v)
     /\ UNCHANGED <<Tables, tableIndex, truncVars, objOnlyVars>>
     /\ Succeed

applyDropIndex(v) ==
  LET key == normIdent(v.IndexName)
      idx == indexIndex[key] IN
  \/ /\ key \notin DOMAIN indexIndex
     /\ v.IfExists
     /\ UNCHANGED tableVars
  \/ /\ key \notin DOMAIN indexIndex
     /\ ~ v.IfExists
     /\ RefuseIndex
  \/ /\ key \in DOMAIN indexIndex
     /\ Indexes' = RemoveAt(Indexes, idx)
     /\ indexIndex' = Reindex(Delete(indexIndex, key), RemoveAt(indexKeys, idx), idx)
     /\ UNCHANGED <<Tables, tableIndex, truncVars, objOnlyVars>>
     /\ Succeed

applyAlterIndex(v) ==
  LET oldKey == normIdent(v.IndexName)
      idx == indexIndex[oldKey] IN
  \/ /\ oldKey \notin DOMAIN indexIndex
     /\ RefuseIndex
  \/ /\ oldKey \in DOMAIN indexIndex
     /\ Indexes' = [Indexes EXCEPT ![idx].Name = v.NewName]
     /\ indexIndex' = Put(Delete(indexIndex, oldKey), normIdent(v.NewName), idx)
     /\ UNCHANGED <<Tables, tableIndex, truncVars, objOnlyVars>>
     /\ Succeed

(* The key of a TRUNCATE: its table names, sorted, each as often as it is  *)
(* given.  Of two TRUNCATEs with one key the last one wins.                *)
truncateKey(v) ==
  LET given(name) == {i \in DOMAIN v.Tables : normIdent(v.Tables[i]) = name} IN
  [name \in {normIdent(t) : t \in Range(v.Tables)} |-> Cardinality(given(name))]

applyTruncate(v) ==
  LET key == truncateKey(v) IN
  /\ \/ /\ key \in DOMAIN truncateIdx
        /\ Truncates' = [Truncates EXCEPT ![truncateIdx[key]] = v]
        /\ UNCHANGED truncateIdx
     \/ /\ key \notin DOMAIN truncateIdx
        /\ Len(Truncates) < MaxTruncates
        /\ truncateIdx' = Put(truncateIdx, key, Len(Truncates) + 1)
        /\ Truncates' = Append(Truncates, v)
  /\ UNCHANGED <<Tables, tableIndex, indexVars, objOnlyVars>>
  /\ Succeed

-----------------------------------------------------------------------------
TableInit ==
  /\ ObjInit
  /\ Tables = <<>> /\ tableIndex = [k \in {} |-> 0]
  /\ Indexes = <<>> /\ indexIndex = [k \in {} |-> 0]
  /\ Truncates = <<>> /\ truncateIdx = [k \in {} |-> 0]

CreatePartitionStmt ==
  {v \in CreateObjectStmt : v.Kind = "PARTITION"}

createPartition(v) ==
  applyCreateObject(v) /\ UNCHANGED <<Tables, tableIndex, indexVars, truncVars>>

CreateTable == \E v \in CreateTableStmt : applyCreateTable(v)
CreatePartition == \E v \in CreatePartitionStmt : createPartition(v)
AlterTable == \E v \in AlterTableStmt : applyAlterTable(v)
RenameTable == \E v \in RenameTableStmt : applyRenameTo(v)
DropTable == \E v \in DropTableStmt : applyDropTable(v)
CreateIndex == \E v \in CreateIndexStmt : applyCreateIndex(v)
DropIndex == \E v \in DropIndexStmt : applyDropIndex(v)
RenameIndex == \E v \in AlterIndexStmt : applyAlterIndex(v)
Truncate == \E v \in TruncateStmt : applyTruncate(v)

TableNext ==
  /\ ~ failed
  /\ \/ CreateTable \/ CreatePartition \/ AlterTable \/ RenameTable \/ DropTable
     \/ CreateIndex \/ DropIndex \/ RenameIndex \/ Truncate

TableSpec == TableInit /\ [][TableNext]_tableVars

-----------------------------------------------------------------------------
(* The statements PostgreSQL accepts: names that are to be taken are free, *)
(* and what a statement refers to exists.                                  *)
IsTable(t) == normIdent(t) \in DOMAIN tableIndex
IsPartition(t) ==
  \E i \in DOMAIN Objects :
    Objects[i].Kind = "PARTITION" /\ Objects[i].Name = normIdent(t)
NameFree(t) == ~ IsTable(t) /\ ~ IsPartition(t)

(* The parts of a table bear different names, as far as they bear one.     *)
DistinctColumns(t) == Distinct(normKeys(t.Columns))
DistinctConstraints(t) ==
  \A i, j \in DOMAIN t.Constraints :
    LET key(k) == constraintKey(t.Constraints[k].Name) IN
    key(i) # NoName /\ key(i) = key(j) => i = j
DistinctParts(t) == DistinctColumns(t) /\ DistinctConstraints(t)

(* What a table's constraints refer to, inline ones included.              *)
InlineClauses(col) == UNION {Range(chunk) : chunk \in Range(col.InlineConstraints)}
References(t) ==
  {con.Definition.RefTable :
     con \in {x \in Range(t.Constraints) : x.Definition.Kind = "FOREIGN KEY"}}
  \cup {cl.Arg : cl \in {x \in UNION {InlineClauses(col) : col \in Range(t.Columns)} :
                        x.Kind = "REFERENCES"}}

LegalAction(t, a) ==
  /\ a.Kind = "RENAME COLUMN" => findColumnIdx(t, a.NewName) = 0
  /\ a.Kind = "RENAME CONSTRAINT" => findConstraintIdx(t, a.NewName) = 0
  /\ a.Kind = "ADD CONSTRAINT"
       => \A c \in a.Constraint.Definition.Cols : findColumnIdx(t, c) # 0

CreateTableLegally ==
  \E v \in CreateTableStmt :
    /\ NameFree(v.Name) /\ DistinctParts(v)
    /\ \A r \in References(v) : IsTable(r) \/ normIdent(r) = normIdent(v.Name)
    /\ applyCreateTable(v)
CreatePartitionLegally ==
  \E v \in CreatePartitionStmt :
    NameFree(v.Name) /\ IsTable(v.SQL.Body) /\ createPartition(v)
AlterTableLegally ==
  \E v \in AlterTableStmt :
    /\ IsTable(v.TableName)
    /\ \A i \in DOMAIN v.Actions :
         LegalAction(applyActions(Tables[tableIndex[normIdent(v.TableName)]],
                                  v.Actions)[i - 1].table, v.Actions[i])
    /\ applyAlterTable(v)
RenameTableLegally ==
  \E v \in RenameTableStmt :
    IsTable(v.TableName) /\ NameFree(v.NewName) /\ applyRenameTo(v)
(* without CASCADE: no table that stays refers to one that goes            *)
DropTableLegally ==
  \E v \in DropTableStmt :
    LET dropped == {normIdent(t) : t \in Range(v.TableNames)} IN
    /\ \A i \in DOMAIN Tables : normIdent(Tables[i].Name) \notin dropped =>
         \A r \in References(Tables[i]) : normIdent(r) \notin dropped
    /\ applyDropTable(v)
IndexNameFree(t) == normIdent(t) \notin DOMAIN indexIndex
CreateIndexLegally ==
  \E v \in CreateIndexStmt :
    /\ IsTable(v.TableName)
    /\ \A w \in v.Body :
         findColumnIdx(Tables[tableIndex[normIdent(v.TableName)]], w) # 0
    /\ v.IfNotExists \/ IndexNameFree(v.Name)
    /\ applyCreateIndex(v)
RenameIndexLegally ==
  \E v \in AlterIndexStmt : IndexNameFree(v.NewName) /\ applyAlterIndex(v)
TruncateLegally ==
  \E v \in TruncateStmt :
    (\A t \in Range(v.Tables) : IsTable(t)) /\ applyTruncate(v)

TableLegalNext ==
  /\ ~ failed
  /\ \/ CreateTableLegally \/ CreatePartitionLegally \/ AlterTableLegally
     \/ RenameTableLegally \/ DropTableLegally \/ CreateIndexLegally
     \/ DropIndex \/ RenameIndexLegally \/ TruncateLegally

TableLegalSpec == TableInit /\ [][TableLegalNext]_tableVars

-----------------------------------------------------------------------------
(* Type invariant.                                                         *)
TableTypeOK ==
  /\ ObjTypeOK
  /\ \A i \in DOMAIN Tables :
       /\ Tables[i].Name \in Token
       /\ \A j \in DOMAIN Tables[i].Columns :
            /\ Tables[i].Columns[j].NotNull \in BOOLEAN
            /\ \A k \in DOMAIN Tables[i].Columns[j].InlineConstraints :
                 Tables[i].Columns[j].InlineConstraints[k] # <<>>
  /\ Indexes \in Seq(CreateIndexStmt)
  /\ Truncates \in Seq(TruncateStmt)
  /\ tableIndex \in [DOMAIN tableIndex -> Nat]
  /\ indexIndex \in [DOMAIN indexIndex -> Nat]
  /\ truncateIdx \in [DOMAIN truncateIdx -> Nat]

(* Whatever statements came, an entry of tableIndex or indexIndex points   *)
(* at a table or index of that name, also after a DROP TABLE that failed   *)
(* half way through its list.                                              *)
TableMapsSound ==
  /\ Sound(tableIndex, tableKeys)
  /\ Sound(indexIndex, indexKeys)
  /\ Sound(objectIdx, objKeys)

(* Of what PostgreSQL accepts, every table, index and partition is found   *)
(* under its name.                                                         *)
TableMapsCoherent ==
  /\ Coherent(tableIndex, tableKeys)
  /\ Coherent(indexIndex, indexKeys)
  /\ Coherent(objectIdx, objKeys)

(* No index outlives its table: the emitted CREATE INDEX names a table     *)
(* that is emitted too, under the name it then has.                        *)
IndexesHaveTables ==
  \A i \in DOMAIN Indexes :
    IsTable(Indexes[i].TableName) \/ IsPartition(Indexes[i].TableName)

(* An index changes its table only when the table changes its name, and    *)
(* then to the new name: renames and drops do not move it elsewhere.       *)
IndexesFollowTables ==
  [][\A k \in DOMAIN indexIndex \cap DOMAIN indexIndex' :
       LET old == normIdent(Indexes[indexIndex[k]].TableName)
           new == normIdent(Indexes'[indexIndex'[k]].TableName)
       IN  old # new =>
             /\ old \notin DOMAIN tableIndex'
             /\ new \in DOMAIN tableIndex' \ DOMAIN tableIndex
             /\ tableIndex'[new] = tableIndex[old]]_tableVars

(* README: tables are emitted in the order of their CREATE TABLE.  No step *)
(* swaps two tables that stay.                                             *)
TableOrderKept ==
  [][\A k, l \in DOMAIN tableIndex \cap DOMAIN tableIndex' :
       tableIndex[k] < tableIndex[l] => tableIndex'[k] < tableIndex'[l]]_tableVars

(* No two columns of a table share a name, and no two named constraints,   *)
(* also after an ALTER TABLE that was refused half way through its list.   *)
NamesDistinct == \A i \in DOMAIN Tables : DistinctParts(Tables[i])

(* A statement that drops no column leaves no constraint on a column that  *)
(* the table does not have: RENAME COLUMN takes the constraints along, the *)
(* texts rewritten, and ADD CONSTRAINT comes with columns that are there.  *)
missingColumns(t) ==
  {c \in UNION {con.Definition.Cols : con \in Range(t.Constraints)} :
     findColumnIdx(t, c) = 0}
ConstraintsFollowColumns ==
  [][\A i \in DOMAIN Tables \cap DOMAIN Tables' :
       Len(Tables'[i].Columns) >= Len(Tables[i].Columns)
         => missingColumns(Tables'[i]) \subseteq missingColumns(Tables[i])]_tableVars

(* A foreign key of a table to itself, in a constraint or inline, refers   *)
(* to a table that is emitted, also after RENAME TO.  It is for tables     *)
(* without foreign keys to others, which RENAME TO does not follow, and    *)
(* whose names are no part of the word REFERENCES: NoValue stands for a    *)
(* text that lost this keyword.                                            *)
ReferencesResolve ==
  \A i \in DOMAIN Tables : \A r \in References(Tables[i]) :
    r # NoValue /\ IsTable(r)

=============================================================================
