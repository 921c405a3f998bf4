---------------------------- MODULE TypeRegistry ----------------------------
(***************************************************************************)
(* The types of merger/schema: ENUM types in the slice Types with the map  *)
(* typeIndex, composite and range types among the verbatim objects with    *)
(* kind TYPE.  DROP TYPE and ALTER TYPE ... RENAME TO look in both places, *)
(* under different keys: normIdent of the name in typeIndex, the lowered   *)
(* name with its quotes in objectIdx.                                      *)
(***************************************************************************)
EXTENDS ObjectRegistry, Integers

CONSTANTS
  Label,          \* the labels of ENUM types
  MaxTypes,       \* bound on the length of Types
  MaxLabels       \* bound on the number of labels of a type

VARIABLES
  Types,          \* the slice, in order of creation
  typeIndex       \* normalised name -> position in Types

enumVars == <<Types, typeIndex>>
typeVars == <<Types, typeIndex, Objects, objectIdx, Unknowns, failed>>

(* PostgreSQL refuses an ENUM with a label twice. *)
Labels == {s \in SeqOf(Label, MaxLabels) : s # <<>> /\ Distinct(s)}

EnumType == [Name : Token, Labels : Seq(Label)]

CreateTypeStmt == [TypeName : Token, Labels : Labels]
DropTypeStmt == [TypeName : Token, IfExists : BOOLEAN]

(* BEFORE and AFTER are one field each in the code, at most one of them    *)
(* set.                                                                    *)
AddValueStmt ==
  [TypeName : Token, Value : Label, IfNotExists : BOOLEAN,
   Where : {"BEFORE", "AFTER"}, Neighbour : Label]
    \cup [TypeName : Token, Value : Label, IfNotExists : BOOLEAN,
          Where : {"END"}]
RenameValueStmt == [TypeName : Token, Value : Label, NewValue : Label]
RenameTypeStmt == [TypeName : Token, NewName : Token]

-----------------------------------------------------------------------------
typeKeys == normKeys(Types)

RefuseType == Refused /\ UNCHANGED <<Types, typeIndex, Objects, objectIdx, Unknowns>>

(* Mistake: the position is counted before the element is there.           *)
applyCreateTypeEarly(v) ==
  LET key == normIdent(v.TypeName) IN
  /\ key \notin DOMAIN typeIndex
  /\ Len(Types) < MaxTypes
  /\ typeIndex' = Put(typeIndex, key, Len(Types) - 1)
  /\ Types' = Append(Types, [Name |-> v.TypeName, Labels |-> v.Labels])
  /\ UNCHANGED <<Objects, objectIdx, Unknowns>>
  /\ Succeed

applyCreateType(v) ==
  LET key == normIdent(v.TypeName) IN
  \/ /\ key \in DOMAIN typeIndex
     /\ RefuseType
  \/ /\ key \notin DOMAIN typeIndex
     /\ Len(Types) < MaxTypes
     /\ typeIndex' = Put(typeIndex, key, Len(Types) + 1)
     /\ Types' = Append(Types, [Name |-> v.TypeName, Labels |-> v.Labels])
     /\ UNCHANGED <<Objects, objectIdx, Unknowns>>
     /\ Succeed

applyDropType(v) ==
  LET key == normIdent(v.TypeName)
      objKey == objectKey("TYPE", v.TypeName) IN
  \/ /\ key \in DOMAIN typeIndex
     /\ LET idx == typeIndex[key] IN
        /\ Types' = RemoveAt(Types, idx)
        /\ typeIndex' = Reindex(Delete(typeIndex, key), RemoveAt(typeKeys, idx), idx)
     /\ UNCHANGED <<Objects, objectIdx, Unknowns>>
     /\ Succeed
  \/ /\ key \notin DOMAIN typeIndex
     /\ objKey \in DOMAIN objectIdx
     /\ RemoveObject(objKey)
     /\ UNCHANGED <<Types, typeIndex, Unknowns>>
     /\ Succeed
  \/ /\ key \notin DOMAIN typeIndex
     /\ objKey \notin DOMAIN objectIdx
     /\ v.IfExists
     /\ UNCHANGED typeVars
  \/ /\ key \notin DOMAIN typeIndex
     /\ objKey \notin DOMAIN objectIdx
     /\ ~ v.IfExists
     /\ RefuseType

(* findLabelIdx, with 0 for "not found" *)
findLabelIdx(labels, label) ==
  IF \E i \in DOMAIN labels : labels[i] = label
    THEN Min({i \in DOMAIN labels : labels[i] = label})
    ELSE 0

(* The positions an ADD VALUE may go to: none when the neighbour is not a  *)
(* label of the type.                                                      *)
AddPositions(labels, v) ==
  IF v.Where = "END"
    THEN {Len(labels) + 1}
    ELSE LET pos == findLabelIdx(labels, v.Neighbour) IN
         IF pos = 0 THEN {} ELSE {IF v.Where = "BEFORE" THEN pos ELSE pos + 1}

SetLabels(idx, labels) ==
  /\ Types' = [Types EXCEPT ![idx].Labels = labels]
  /\ UNCHANGED <<typeIndex, Objects, objectIdx, Unknowns>>
  /\ Succeed

(* Mistake: the new label takes the place of its neighbour, which goes to  *)
(* the end.                                                                *)
insertLabelBySwap(labels, pos, label) ==
  IF pos > Len(labels) THEN Append(labels, label)
  ELSE Append([labels EXCEPT ![pos] = label], labels[pos])

insertLabel(labels, pos, label) == InsertAt(labels, pos, label)

(* Mistake: a label that is there already is not looked for.               *)
alterTypeAddValueAgain(v) ==
  LET key == normIdent(v.TypeName)
      idx == typeIndex[key]
      labels == Types[idx].Labels IN
  /\ key \in DOMAIN typeIndex
  /\ Len(labels) < MaxLabels
  /\ \E pos \in AddPositions(labels, v) :
       SetLabels(idx, insertLabel(labels, pos, v.Value))

alterTypeAddValue(v) ==
  LET key == normIdent(v.TypeName)
      idx == typeIndex[key]
      labels == Types[idx].Labels IN
  \/ /\ key \notin DOMAIN typeIndex
     /\ RefuseType
  \/ /\ key \in DOMAIN typeIndex
     /\ v.Value \in Range(labels)
     /\ IF v.IfNotExists THEN UNCHANGED typeVars ELSE RefuseType
  \/ /\ key \in DOMAIN typeIndex
     /\ v.Value \notin Range(labels)
     /\ AddPositions(labels, v) = {}
     /\ RefuseType
  \/ /\ key \in DOMAIN typeIndex
     /\ v.Value \notin Range(labels)
     /\ Len(labels) < MaxLabels
     /\ \E pos \in AddPositions(labels, v) :
          SetLabels(idx, insertLabel(labels, pos, v.Value))

(* Whether the new label is one of the type already is not looked at.      *)
alterTypeRenameValue(v) ==
  LET key == normIdent(v.TypeName)
      idx == typeIndex[key]
      pos == findLabelIdx(Types[idx].Labels, v.Value) IN
  \/ /\ key \notin DOMAIN typeIndex
     /\ RefuseType
  \/ /\ key \in DOMAIN typeIndex
     /\ pos = 0
     /\ RefuseType
  \/ /\ key \in DOMAIN typeIndex
     /\ pos # 0
     /\ SetLabels(idx, [Types[idx].Labels EXCEPT ![pos] = v.NewValue])

(* Mistake: the text keeps the old name.                                   *)
keepTypeNameInSQL(sql, oldName, newName) == sql

(* The name in the text of a composite or range type is replaced, if it is *)
(* the one the statement gave.                                             *)
replaceTypeNameInSQL(sql, oldName, newName) ==
  IF normIdent(sql.Name) = normIdent(oldName)
    THEN [sql EXCEPT !.Name = newName]
    ELSE sql

(* Mistake: the new name gets the position of an ENUM just appended.       *)
alterTypeRenameToEnd(v) ==
  LET key == normIdent(v.TypeName) IN
  /\ key \in DOMAIN typeIndex
  /\ Types' = [Types EXCEPT ![typeIndex[key]].Name = v.NewName]
  /\ typeIndex' = Put(Delete(typeIndex, key), normIdent(v.NewName), Len(Types))
  /\ UNCHANGED <<Objects, objectIdx, Unknowns>>
  /\ Succeed

(* RENAME TO.  The element of a composite type gets the normalised name,   *)
(* the map entry the lowered one.                                          *)
alterTypeRenameTo(v) ==
  LET key == normIdent(v.TypeName)
      objKey == objectKey("TYPE", v.TypeName) IN
  \/ /\ key \in DOMAIN typeIndex
     /\ LET idx == typeIndex[key] IN
        /\ Types' = [Types EXCEPT ![idx].Name = v.NewName]
        /\ typeIndex' = Put(Delete(typeIndex, key), normIdent(v.NewName), idx)
     /\ UNCHANGED <<Objects, objectIdx, Unknowns>>
     /\ Succeed
  \/ /\ key \notin DOMAIN typeIndex
     /\ objKey \in DOMAIN objectIdx
     /\ LET idx == objectIdx[objKey] IN
        /\ Objects' = [Objects EXCEPT
             ![idx].Name = normIdent(v.NewName),
             ![idx].SQL = replaceTypeNameInSQL(@, v.TypeName, v.NewName)]
        /\ objectIdx' = Put(Delete(objectIdx, objKey),
                            objectKey("TYPE", v.NewName), idx)
     /\ UNCHANGED <<Types, typeIndex, Unknowns>>
     /\ Succeed
  \/ /\ key \notin DOMAIN typeIndex
     /\ objKey \notin DOMAIN objectIdx
     /\ RefuseType

-----------------------------------------------------------------------------
TypeInit == ObjInit /\ Types = <<>> /\ typeIndex = [k \in {} |-> 0]

(* The other statements on verbatim objects; CREATE TYPE ... AS (...) and  *)
(* AS RANGE come as one of them.                                           *)
TypeObject == (CreateObject \/ DropObject \/ RenameObject) /\ UNCHANGED enumVars

CreateType == \E v \in CreateTypeStmt : applyCreateType(v)
DropType == \E v \in DropTypeStmt : applyDropType(v)
AddValue == \E v \in AddValueStmt : alterTypeAddValue(v)
RenameValue == \E v \in RenameValueStmt : alterTypeRenameValue(v)
RenameType == \E v \in RenameTypeStmt : alterTypeRenameTo(v)

(* What PostgreSQL requires: a new name that no type has, a new label that *)
(* the type does not have.                                                 *)
TypeNameFree(t) ==
  /\ normIdent(t) \notin DOMAIN typeIndex
  /\ \A i \in DOMAIN Objects :
       Objects[i].Kind = "TYPE" => Objects[i].Name # normIdent(t)

LabelFree(v) ==
  LET key == normIdent(v.TypeName) IN
  key \in DOMAIN typeIndex => v.NewValue \notin Range(Types[typeIndex[key]].Labels)

RenameTypeLegally ==
  \E v \in RenameTypeStmt : TypeNameFree(v.NewName) /\ alterTypeRenameTo(v)
RenameValueLegally ==
  \E v \in RenameValueStmt : LabelFree(v) /\ alterTypeRenameValue(v)
CreateTypeLegally ==
  \E v \in CreateTypeStmt : TypeNameFree(v.TypeName) /\ applyCreateType(v)
CreateCompositeLegally ==
  /\ \E v \in CreateObjectStmt :
       v.Kind = "TYPE" /\ TypeNameFree(v.Name) /\ applyCreateObject(v)
  /\ UNCHANGED enumVars
OtherTypeObject ==
  /\ \/ \E v \in CreateObjectStmt : v.Kind # "TYPE" /\ applyCreateObject(v)
     \/ DropObject
  /\ UNCHANGED enumVars

TypeNext ==
  /\ ~ failed
  /\ \/ TypeObject \/ CreateType \/ DropType
     \/ AddValue \/ RenameValue \/ RenameType

TypeLegalNext ==
  /\ ~ failed
  /\ \/ OtherTypeObject \/ CreateCompositeLegally \/ CreateTypeLegally
     \/ DropType \/ AddValue \/ RenameValueLegally \/ RenameTypeLegally

TypeSpec == TypeInit /\ [][TypeNext]_typeVars
TypeLegalSpec == TypeInit /\ [][TypeLegalNext]_typeVars

-----------------------------------------------------------------------------
(* Type invariant.                                                         *)
TypeTypeOK ==
  /\ ObjTypeOK
  /\ Types \in Seq(EnumType)
  /\ typeIndex \in [DOMAIN typeIndex -> Nat]

(* Whatever statements came, renames onto names in use included, an entry  *)
(* of typeIndex points at an ENUM of that name.                            *)
TypeIndexSound == Sound(typeIndex, typeKeys)

(* When no name in use was taken, every ENUM is found under its name.      *)
TypeIndexCoherent == Coherent(typeIndex, typeKeys)

(* The text of a composite or range type, which is what is emitted, names  *)
(* the type as the schema does, after any number of renames.               *)
CompositeTextNamed ==
  \A i \in DOMAIN Objects :
    Objects[i].Kind = "TYPE" => normIdent(Objects[i].SQL.Name) = Objects[i].Name

(* No ENUM gets a label twice from the additions and renames PostgreSQL    *)
(* accepts: it would refuse the emitted CREATE TYPE.                       *)
LabelsDistinct == \A i \in DOMAIN Types : Distinct(Types[i].Labels)

(* ADD VALUE, BEFORE or AFTER a label or at the end, never changes the     *)
(* order of the labels that were there: it is the sort order of the type.  *)
SameOrder(s, t) ==
  \A i, j \in DOMAIN s : \A m, n \in DOMAIN t :
    s[i] = t[m] /\ s[j] = t[n] /\ i < j => m < n

LabelOrderKept ==
  [][\A k \in DOMAIN typeIndex \cap DOMAIN typeIndex' :
       SameOrder(Types[typeIndex[k]].Labels, Types'[typeIndex'[k]].Labels)]_typeVars

(* The ENUM types as a dictionary from names to label lists.               *)
typeCatalog == [k \in DOMAIN typeIndex |-> Types[typeIndex[k]].Labels]

TypeDictionary == INSTANCE Catalog
  WITH Key <- NormalToken, Definition <- Seq(Label),
       catalog <- typeCatalog, failed <- failed

(* Slice and map behave as one dictionary, next to the one of the objects. *)
TypesImplementCatalog == TypeDictionary!Spec

(* model.go: objectIdx leads from "KIND:normname" to an "index in Objects".*)
(* A position behind the end of the slice makes the next DROP or ALTER of  *)
(* that name index out of range.                                           *)
ObjectIndexInRange == \A k \in DOMAIN objectIdx : objectIdx[k] \in DOMAIN Objects
=============================================================================
