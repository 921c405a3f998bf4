--------------------------- MODULE ObjectRegistry ---------------------------
(***************************************************************************)
(* The verbatim objects of merger/schema (views, functions, domains,       *)
(* triggers, composite types, partitions, ...): the slice Objects, the map *)
(* objectIdx, the pass-through list Unknowns and their handlers.           *)
(*                                                                         *)
(* The parser hands over the name of an object twice: normalised, as the   *)
(* key, and inside the SQL text.  A text is kept as the name it defines    *)
(* and the rest of it; an ALTER as the name it alters and its action.  The *)
(* key of a trigger, policy or rule is "name_on_table", one token here.    *)
(***************************************************************************)
EXTENDS KeyedSlices, Identifiers, Outcome

CONSTANTS
  ObjectKind,     \* the kinds in use, some of ObjectKinds
  Text,           \* what a definition says besides its name
  ObjectAction,   \* what an ALTER does other than rename
  MaxObjects,     \* bound on the length of Objects
  MaxAlters,      \* bound on the ALTERs kept with an object
  MaxUnknowns     \* bound on the length of Unknowns

(* The constants of type parser.ObjectKind.                                *)
ObjectKinds ==
  {"SCHEMA", "EXTENSION", "TYPE", "DOMAIN", "PARTITION", "FUNCTION", "PROCEDURE",
   "VIEW", "MATERIALIZED VIEW", "TRIGGER", "POLICY", "RULE"}

ASSUME KindAssumption == ObjectKind \subseteq ObjectKinds

VARIABLES
  Objects,        \* the slice, in order of creation
  objectIdx,      \* kind and name -> position in Objects
  Unknowns        \* statements passed through, in order

objVars == <<Objects, objectIdx, Unknowns, failed>>

-----------------------------------------------------------------------------
FunctionKinds == {"FUNCTION", "PROCEDURE"}

(* The kinds whose ALTERs other than a rename are kept with the object.    *)
AlterableKinds == {"EXTENSION", "DOMAIN", "VIEW", "POLICY"}

(* DROP TYPE and DROP TABLE have handlers of their own. *)
OwnHandlerKinds == {"TYPE", "PARTITION"}

KeptAlterKinds == FunctionKinds \cup AlterableKinds

(* OWNER TO and SET SCHEMA of a domain or a view are skipped. *)
Untracked(kind, action) ==
  kind \in {"DOMAIN", "VIEW"} /\ action \in {"OWNER TO", "SET SCHEMA"}

CreateSql == [Name : Token, Body : Text, OrReplace : BOOLEAN]
AlterSql == [Kind : ObjectKind, Name : Token, Action : ObjectAction]

GenericObject ==
  [Kind : ObjectKind, Name : NormalToken, SQL : CreateSql,
   PostAlters : Seq(AlterSql)]

CreateObjectStmt ==
  {[Kind |-> k, Name |-> normIdent(sql.Name), OrReplace |-> sql.OrReplace,
    SQL |-> sql] :
     k \in ObjectKind \ OwnHandlerKinds, sql \in CreateSql}
  \cup
  {[Kind |-> k, Name |-> normIdent(sql.Name), OrReplace |-> FALSE, SQL |-> sql] :
     k \in ObjectKind \cap OwnHandlerKinds,
     sql \in {x \in CreateSql : ~ x.OrReplace}}

DropObjectStmt ==
  [Kind : ObjectKind \ OwnHandlerKinds, Name : NormalToken, IfExists : BOOLEAN]

AlterObjectStmt ==
  [Kind : ObjectKind \ OwnHandlerKinds, OldName : NormalToken,
   NewName : NormalToken]

AlterStmtOf(kinds) ==
  {[Kind |-> sql.Kind, Name |-> normIdent(sql.Name), SQL |-> sql] :
     sql \in {x \in AlterSql : x.Kind \in kinds}}

AlterFunctionOptsStmt == AlterStmtOf(FunctionKinds)
AlterObjectOptsStmt == AlterStmtOf(AlterableKinds)
UnknownStmt == [Raw : {x \in AlterSql : x.Kind \notin KeptAlterKinds}]

-----------------------------------------------------------------------------
objKeys == objectKeys(Objects)

RefuseObject == Refused /\ UNCHANGED <<Objects, objectIdx, Unknowns>>

(* Mistake: the kept ALTERs stay at their positions.                       *)
RemoveObjectOnly(key) ==
  LET idx == objectIdx[key]
      left == RemoveAt(Objects, idx) IN
  /\ Objects' = [i \in DOMAIN left |->
                   [left[i] EXCEPT !.PostAlters = Objects[i].PostAlters]]
  /\ objectIdx' = Reindex(Delete(objectIdx, key), RemoveAt(objKeys, idx), idx)

(* The element at idx goes, and the ones behind it are indexed again.      *)
RemoveObject(key) ==
  LET idx == objectIdx[key] IN
  /\ Objects' = RemoveAt(Objects, idx)
  /\ objectIdx' = Reindex(Delete(objectIdx, key), RemoveAt(objKeys, idx), idx)

PassThrough(sql) ==
  /\ Len(Unknowns) < MaxUnknowns
  /\ Unknowns' = Append(Unknowns, sql)
  /\ UNCHANGED <<Objects, objectIdx>>
  /\ Succeed

(* Mistake: the position is counted before the element is there.           *)
applyCreateObjectEarly(v) ==
  LET key == objectKey(v.Kind, v.Name) IN
  /\ key \notin DOMAIN objectIdx
  /\ Len(Objects) < MaxObjects
  /\ objectIdx' = Put(objectIdx, key, Len(Objects) - 1)
  /\ Objects' = Append(Objects, [Kind |-> v.Kind, Name |-> v.Name,
                                 SQL |-> v.SQL, PostAlters |-> <<>>])
  /\ UNCHANGED Unknowns
  /\ Succeed

applyCreateObject(v) ==
  LET key == objectKey(v.Kind, v.Name) IN
  \/ /\ key \in DOMAIN objectIdx
     /\ v.OrReplace
     /\ Objects' = [Objects EXCEPT ![objectIdx[key]].SQL = v.SQL,
                                   ![objectIdx[key]].PostAlters = <<>>]
     /\ UNCHANGED <<objectIdx, Unknowns>>
     /\ Succeed
  \/ /\ key \in DOMAIN objectIdx
     /\ ~ v.OrReplace
     /\ RefuseObject
  \/ /\ key \notin DOMAIN objectIdx
     /\ Len(Objects) < MaxObjects
     /\ objectIdx' = Put(objectIdx, key, Len(Objects) + 1)
     /\ Objects' = Append(Objects, [Kind |-> v.Kind, Name |-> v.Name,
                                    SQL |-> v.SQL, PostAlters |-> <<>>])
     /\ UNCHANGED Unknowns
     /\ Succeed

applyDropObject(v) ==
  LET key == objectKey(v.Kind, v.Name) IN
  \/ /\ key \notin DOMAIN objectIdx
     /\ v.IfExists
     /\ UNCHANGED objVars
  \/ /\ key \notin DOMAIN objectIdx
     /\ ~ v.IfExists
     /\ RefuseObject
  \/ /\ key \in DOMAIN objectIdx
     /\ RemoveObject(key)
     /\ UNCHANGED Unknowns
     /\ Succeed

(* Mistake: the renamed object is made anew, without its ALTERs.           *)
applyAlterObjectAnew(v) ==
  LET oldKey == objectKey(v.Kind, v.OldName)
      idx == objectIdx[oldKey] IN
  /\ oldKey \in DOMAIN objectIdx
  /\ Objects' = [Objects EXCEPT ![idx].Name = v.NewName, ![idx].PostAlters = <<>>]
  /\ objectIdx' = Put(Delete(objectIdx, oldKey), objectKey(v.Kind, v.NewName), idx)
  /\ UNCHANGED Unknowns
  /\ Succeed

(* RENAME TO.  The text keeps the old name; whether the new name is taken  *)
(* is not looked at.                                                       *)
applyAlterObject(v) ==
  LET oldKey == objectKey(v.Kind, v.OldName) IN
  \/ /\ oldKey \notin DOMAIN objectIdx
     /\ RefuseObject
  \/ /\ oldKey \in DOMAIN objectIdx
     /\ LET idx == objectIdx[oldKey] IN
        /\ Objects' = [Objects EXCEPT ![idx].Name = v.NewName]
        /\ objectIdx' = Put(Delete(objectIdx, oldKey),
                            objectKey(v.Kind, v.NewName), idx)
     /\ UNCHANGED Unknowns
     /\ Succeed

(* An ALTER stays with the object it alters, to be emitted right behind    *)
(* it; that of an object no file defines is passed through.                *)
applyAlterFunctionOpts(v) ==
  LET key == objectKey(v.Kind, v.Name) IN
  \/ /\ key \notin DOMAIN objectIdx
     /\ PassThrough(v.SQL)
  \/ /\ key \in DOMAIN objectIdx
     /\ Len(Objects[objectIdx[key]].PostAlters) < MaxAlters
     /\ Objects' = [Objects EXCEPT ![objectIdx[key]].PostAlters =
                                      Append(@, v.SQL)]
     /\ UNCHANGED <<objectIdx, Unknowns>>
     /\ Succeed

applyAlterObjectOpts(v) ==
  \/ /\ Untracked(v.Kind, v.SQL.Action)
     /\ UNCHANGED objVars
  \/ /\ ~ Untracked(v.Kind, v.SQL.Action)
     /\ applyAlterFunctionOpts(v)

applyUnknown(v) == PassThrough(v.Raw)

-----------------------------------------------------------------------------
ObjInit ==
  /\ Objects = <<>>
  /\ objectIdx = [k \in {} |-> 0]
  /\ Unknowns = <<>>
  /\ failed = FALSE

ObjTargetFree(v) == objectKey(v.Kind, v.NewName) \notin DOMAIN objectIdx

CreateObject == \E v \in CreateObjectStmt : applyCreateObject(v)
DropObject == \E v \in DropObjectStmt : applyDropObject(v)
RenameObject == \E v \in AlterObjectStmt : applyAlterObject(v)
RenameObjectLegally ==
  \E v \in AlterObjectStmt : ObjTargetFree(v) /\ applyAlterObject(v)
AlterFunctionOpts == \E v \in AlterFunctionOptsStmt : applyAlterFunctionOpts(v)
AlterObjectOpts == \E v \in AlterObjectOptsStmt : applyAlterObjectOpts(v)
Unknown == \E v \in UnknownStmt : applyUnknown(v)

ObjOther == AlterFunctionOpts \/ AlterObjectOpts \/ Unknown

ObjLegalNext ==
  /\ ~ failed
  /\ CreateObject \/ DropObject \/ RenameObjectLegally \/ ObjOther

ObjLegalSpec == ObjInit /\ [][ObjLegalNext]_objVars

-----------------------------------------------------------------------------
(* Type invariant.                                                         *)
ObjTypeOK ==
  /\ Objects \in Seq(GenericObject)
  /\ objectIdx \in [DOMAIN objectIdx -> Nat]
  /\ Unknowns \in Seq(AlterSql)
  /\ failed \in BOOLEAN

(* model.go: "KIND:normname" -> index in Objects.  Every entry of the map  *)
(* leads to the object of that kind and name.                              *)
ObjectIndexSound == Sound(objectIdx, objKeys)

(* ... and every object is found, when no rename took a name in use.       *)
ObjectIndexCoherent == Coherent(objectIdx, objKeys)

(* The ALTERs kept with each object, in the order they will be emitted.    *)
keptAlters == [k \in DOMAIN objectIdx |-> Objects[objectIdx[k]].PostAlters]

AlterKept ==
  \E a \in AlterSql :
    LET k == <<a.Kind, normIdent(a.Name)>> IN
    /\ k \in DOMAIN keptAlters
    /\ keptAlters' = [keptAlters EXCEPT ![k] = Append(@, a)]

AltersReplaced ==
  \E k \in DOMAIN keptAlters :
    /\ k \in DOMAIN objectIdx'
    /\ Objects'[objectIdx'[k]].SQL.OrReplace
    /\ keptAlters' = [keptAlters EXCEPT ![k] = <<>>]

AltersBegun ==
  \E k \in DOMAIN objectIdx' \ DOMAIN objectIdx :
    keptAlters' = Put(keptAlters, k, <<>>)

AltersDropped == \E k \in DOMAIN keptAlters : keptAlters' = Delete(keptAlters, k)

AltersRenamed ==
  \E k \in DOMAIN keptAlters :
    \E l \in DOMAIN objectIdx' \ DOMAIN keptAlters :
      keptAlters' = Put(Delete(keptAlters, k), l, keptAlters[k])

(* The list of ALTERs of an object grows at its end and only by an ALTER   *)
(* about that object; it is emptied only by a CREATE OR REPLACE of that    *)
(* object, goes only with it, and a RENAME TO carries all of it over.  No  *)
(* step touches the lists of two objects, and an object that is created    *)
(* starts without any: the slice the lists are found through shifts with   *)
(* each DROP.                                                              *)
AltersStayPut ==
  [][\/ UNCHANGED keptAlters
     \/ AlterKept \/ AltersReplaced
     \/ AltersBegun \/ AltersDropped \/ AltersRenamed]_objVars

(* The text of an object, which is what is emitted, names it as the        *)
(* schema does, after a RENAME TO too.                                     *)
ObjectTextNamed ==
  \A i \in DOMAIN Objects : normIdent(Objects[i].SQL.Name) = Objects[i].Name

(* The registry as a dictionary from kinds and names to definitions.       *)
objCatalog ==
  [k \in DOMAIN objectIdx |->
     [SQL |-> Objects[objectIdx[k]].SQL,
      PostAlters |-> Objects[objectIdx[k]].PostAlters]]

ObjDictionary == INSTANCE Catalog
  WITH Key <- ObjectKind \X NormalToken,
       Definition <- [SQL : CreateSql, PostAlters : Seq(AlterSql)],
       catalog <- objCatalog, failed <- failed

(* Slice and map behave as one dictionary.                                 *)
ObjImplementsCatalog == ObjDictionary!Spec
=============================================================================
