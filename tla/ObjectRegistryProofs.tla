------------------------ MODULE ObjectRegistryProofs ------------------------
(***************************************************************************)
(* Proofs about ObjectRegistry, for every set of tokens, kinds and         *)
(* actions and every bound.  The inductive invariant ObjInv has the types  *)
(* of the slice and the map, ObjectIndexSound and the name in the text of  *)
(* a composite type; for the statements PostgreSQL accepts it is           *)
(* strengthened by Complete.  What is passed through, UnknownsOK, is a     *)
(* matter of its own: no handler looks at it again.                        *)
(* The four ways a handler changes the slice and the map together have a   *)
(* lemma each, which TypeRegistryProofs cites too.  The second part takes  *)
(* each step through FoundAfterCreate, ...Drop, ...Rename and ...Change:   *)
(* which ALTERs stay, and which step of the abstract catalog it is.        *)
(***************************************************************************)
EXTENDS ObjectRegistry, KeyedSlicesProofs

(* The objects the handlers leave: a type has a text that names it as the  *)
(* schema does, and ALTERs are kept for the kinds that Emit prints them of.*)
StoredObject ==
  {e \in GenericObject :
     /\ e.Kind = "TYPE" => normIdent(e.SQL.Name) = e.Name
     /\ e.PostAlters # <<>> => e.Kind \in KeptAlterKinds}

ObjComplete == Complete(objectIdx, objKeys)

ObjInv ==
  /\ Objects \in Seq(StoredObject)
  /\ objectIdx \in [DOMAIN objectIdx -> Nat]
  /\ failed \in BOOLEAN
  /\ ObjectIndexSound

UnknownsOK == Unknowns \in Seq(AlterSql)

-----------------------------------------------------------------------------
(* A normalised name is its own key.                                       *)
LEMMA NormalKeys ==
  ASSUME NEW k, NEW t \in NormalToken
  PROVE  objectKey(k, t) = <<k, t>>
<1>1. PICK u \in Token : t = normIdent(u)
  BY DEF NormalToken
<1>2. t = [letters |-> u.letters, upper |-> FALSE, quoted |-> FALSE]
  BY <1>1 DEF normIdent
<1>3. t \in [letters : {u.letters}, upper : {FALSE}, quoted : {FALSE}]
  BY <1>2
<1>4. [t EXCEPT !.upper = FALSE] = t
  BY <1>3
<1> QED
  BY <1>4 DEF objectKey, ToLower

(* What every step needs to know of the state it starts from.              *)
LEMMA ObjStateFacts ==
  ASSUME ObjInv
  PROVE  /\ Objects \in Seq(StoredObject)
         /\ Len(Objects) \in Nat
         /\ objKeys \in Seq(ObjKeysIn(StoredObject))
         /\ Len(objKeys) = Len(Objects)
         /\ \A k \in DOMAIN objectIdx :
              /\ objectIdx[k] \in 1..Len(Objects)
              /\ objectIdx[k] \in Nat
              /\ objKeys[objectIdx[k]] = k
              /\ Objects[objectIdx[k]] \in StoredObject
              /\ k = <<Objects[objectIdx[k]].Kind, Objects[objectIdx[k]].Name>>
<1>1. Objects \in Seq(StoredObject) /\ Len(Objects) \in Nat
  BY DEF ObjInv
<1>2. objKeys \in Seq(ObjKeysIn(StoredObject)) /\ Len(objKeys) = Len(Objects)
  BY <1>1, ObjKeysFacts DEF objKeys
<1> SUFFICES ASSUME NEW k \in DOMAIN objectIdx
             PROVE  /\ objectIdx[k] \in 1..Len(Objects)
                    /\ objKeys[objectIdx[k]] = k
                    /\ Objects[objectIdx[k]] \in StoredObject
                    /\ k = <<Objects[objectIdx[k]].Kind, Objects[objectIdx[k]].Name>>
  BY <1>1, <1>2
<1> DEFINE p == objectIdx[k]
<1>3. p \in 1..Len(Objects) /\ objKeys[p] = k
  BY <1>2 DEF ObjInv, ObjectIndexSound, Sound
<1>4. Objects[p] \in StoredObject
  BY <1>1, <1>3, ElementOfSeq
<1>5. objKeys[p] = objectKey(Objects[p].Kind, Objects[p].Name)
  BY <1>1, <1>3 DEF objKeys, objectKeys
<1>6. Objects[p].Name \in NormalToken
  BY <1>4 DEF StoredObject, GenericObject
<1> QED
  BY <1>3, <1>4, <1>5, <1>6, NormalKeys

-----------------------------------------------------------------------------
(* An object is appended under its key.                                    *)
LEMMA ObjectAppended ==
  ASSUME ObjInv, NEW e \in StoredObject,
         Objects' = Append(Objects, e),
         objectIdx' = Put(objectIdx, objectKey(e.Kind, e.Name), Len(Objects) + 1),
         UNCHANGED <<Unknowns, failed>>
  PROVE  /\ ObjInv'
         /\ objectKey(e.Kind, e.Name) \notin DOMAIN objectIdx
              => (ObjComplete => ObjComplete')
<1> DEFINE key == objectKey(e.Kind, e.Name)
<1>1. key \in ObjKeysIn(StoredObject)
  BY DEF ObjKeysIn
<1>2. Objects' \in Seq(StoredObject) /\ objKeys' = Append(objKeys, key)
  BY ObjStateFacts, ObjKeysAppend DEF objKeys
<1>3. ObjectIndexSound'
  BY <1>1, <1>2, ObjStateFacts, AppendSound DEF ObjectIndexSound, ObjInv
<1>4. objectIdx' \in [DOMAIN objectIdx' -> Nat]
  BY ObjStateFacts, PutIsFunction
<1>5. ASSUME key \notin DOMAIN objectIdx, ObjComplete PROVE ObjComplete'
  BY <1>1, <1>2, <1>5, ObjStateFacts, AppendComplete DEF ObjComplete
<1> QED
  BY <1>2, <1>3, <1>4, <1>5 DEF ObjInv

(* An object is removed, and those behind it are indexed again.            *)
LEMMA ObjectRemoved ==
  ASSUME ObjInv, NEW key \in DOMAIN objectIdx, RemoveObject(key),
         UNCHANGED <<Unknowns, failed>>
  PROVE  ObjInv' /\ (ObjComplete => ObjComplete')
<1> DEFINE idx == objectIdx[key]
<1>1. idx \in 1..Len(Objects) /\ idx \in Nat
  BY ObjStateFacts
<1>2. /\ Objects' = RemoveAt(Objects, idx)
      /\ objectIdx' = Reindex(Delete(objectIdx, key), RemoveAt(objKeys, idx), idx)
  BY DEF RemoveObject
<1>3. Objects' \in Seq(StoredObject) /\ objKeys' = RemoveAt(objKeys, idx)
  BY <1>1, <1>2, ObjStateFacts, ObjKeysRemove DEF objKeys
<1>4. ObjectIndexSound'
  BY <1>2, <1>3, ObjStateFacts, DropSound DEF ObjectIndexSound, ObjInv
<1>5. Len(objKeys') \in Nat
  BY <1>1, <1>3, ObjStateFacts, RemoveAtFacts
<1>6. objectIdx' \in [DOMAIN objectIdx' -> Nat]
  BY <1>1, <1>2, <1>3, <1>4, <1>5, ReindexIsFunction DEF ObjectIndexSound
<1>7. ASSUME ObjComplete PROVE ObjComplete'
  BY <1>2, <1>3, <1>7, ObjStateFacts, DropComplete
  DEF ObjComplete, ObjectIndexSound, ObjInv
<1> QED
  BY <1>3, <1>4, <1>6, <1>7 DEF ObjInv

(* An object gets another name, and its entry another key.                 *)
LEMMA ObjectRekeyed ==
  ASSUME ObjInv, NEW old \in DOMAIN objectIdx, NEW e \in StoredObject,
         Objects' = [Objects EXCEPT ![objectIdx[old]] = e],
         objectIdx' = Put(Delete(objectIdx, old), objectKey(e.Kind, e.Name), objectIdx[old]),
         UNCHANGED <<Unknowns, failed>>
  PROVE  /\ ObjInv'
         /\ objectKey(e.Kind, e.Name) \notin DOMAIN objectIdx \ {old}
              => (ObjComplete => ObjComplete')
<1> DEFINE new == objectKey(e.Kind, e.Name)
           idx == objectIdx[old]
<1>1. idx \in 1..Len(Objects) /\ idx \in Nat
  BY ObjStateFacts
<1>2. new \in ObjKeysIn(StoredObject)
  BY DEF ObjKeysIn
<1>3. Objects' \in Seq(StoredObject) /\ objKeys' = [objKeys EXCEPT ![idx] = new]
  <2>1. Objects' = Replaced(Objects, idx, e)
    BY DEF Replaced
  <2>2. Objects \in Seq(StoredObject)
    BY ObjStateFacts
  <2> HIDE DEF idx
  <2>3. /\ Replaced(Objects, idx, e) \in Seq(StoredObject)
        /\ objectKeys(Replaced(Objects, idx, e)) = Replaced(objectKeys(Objects), idx, new)
    BY <1>1, <2>2, ObjKeysReplace
  <2> QED
    BY <2>1, <2>3 DEF Replaced, objKeys
<1>4. ObjectIndexSound'
  BY <1>2, <1>3, ObjStateFacts, RekeySound DEF ObjectIndexSound, ObjInv
<1>5. objectIdx' \in [DOMAIN objectIdx' -> Nat]
  <2>1. \A x \in DOMAIN Delete(objectIdx, old) : Delete(objectIdx, old)[x] \in Nat
    BY ObjStateFacts DEF Delete
  <2> QED
    BY <1>1, <2>1, PutIsFunction
<1>6. ASSUME new \notin DOMAIN objectIdx \ {old}, ObjComplete PROVE ObjComplete'
  BY <1>2, <1>3, <1>6, ObjStateFacts, RekeyComplete
  DEF ObjComplete, ObjectIndexSound, ObjInv
<1> QED
  BY <1>3, <1>4, <1>5, <1>6 DEF ObjInv

(* An object keeps kind and name, and its entry.                           *)
LEMMA ObjectChanged ==
  ASSUME ObjInv, NEW key \in DOMAIN objectIdx, NEW e \in StoredObject,
         e.Kind = Objects[objectIdx[key]].Kind,
         e.Name = Objects[objectIdx[key]].Name,
         Objects' = [Objects EXCEPT ![objectIdx[key]] = e],
         UNCHANGED <<objectIdx, Unknowns, failed>>
  PROVE  ObjInv' /\ (ObjComplete => ObjComplete')
<1> DEFINE idx == objectIdx[key]
<1>1. idx \in 1..Len(Objects)
  BY ObjStateFacts
<1>2. Objects' \in Seq(StoredObject) /\ objKeys' = objKeys
  <2>1. Objects' = Replaced(Objects, idx, e)
    BY DEF Replaced
  <2>2. /\ Objects \in Seq(StoredObject)
        /\ e.Kind = Objects[idx].Kind /\ e.Name = Objects[idx].Name
    BY ObjStateFacts
  <2> HIDE DEF idx
  <2>3. /\ Replaced(Objects, idx, e) \in Seq(StoredObject)
        /\ objectKeys(Replaced(Objects, idx, e)) = objectKeys(Objects)
    BY <1>1, <2>2, ObjKeysKeep
  <2> QED
    BY <2>1, <2>3 DEF objKeys
<1> QED
  BY <1>2 DEF ObjInv, ObjectIndexSound, ObjComplete

(* A refused statement changes nothing but the outcome.                    *)
LEMMA ObjectRefused ==
  ASSUME ObjInv, RefuseObject
  PROVE  ObjInv' /\ (ObjComplete => ObjComplete')
BY DEF RefuseObject, Refused, ObjInv, ObjectIndexSound, ObjComplete, objKeys

(* Neither does a step that leaves the objects alone.                      *)
LEMMA ObjectStutter ==
  ASSUME ObjInv, UNCHANGED objVars
  PROVE  ObjInv' /\ (ObjComplete => ObjComplete')
BY DEF objVars, ObjInv, ObjectIndexSound, ObjComplete, objKeys

-----------------------------------------------------------------------------
(* Each handler keeps the invariant.                                       *)
LEMMA CreateObjectStep ==
  ASSUME ObjInv, NEW v \in CreateObjectStmt, applyCreateObject(v)
  PROVE  ObjInv' /\ (ObjComplete => ObjComplete')
<1> DEFINE key == objectKey(v.Kind, v.Name)
           new == [Kind |-> v.Kind, Name |-> v.Name, SQL |-> v.SQL,
                   PostAlters |-> <<>>]
<1>1. new \in StoredObject /\ (v.OrReplace => v.Kind # "TYPE")
  <2>1. /\ v.Kind \in ObjectKind /\ v.SQL \in CreateSql
        /\ v.Name = normIdent(v.SQL.Name) /\ v.SQL.Name \in Token
        /\ v.OrReplace => v.Kind # "TYPE"
    BY DEF CreateObjectStmt, CreateSql, OwnHandlerKinds
  <2>2. <<>> \in Seq(AlterSql)
    OBVIOUS
  <2> QED
    BY <2>1, <2>2 DEF StoredObject, GenericObject, NormalToken
<1>2. CASE /\ key \in DOMAIN objectIdx
           /\ v.OrReplace
           /\ Objects' = [Objects EXCEPT ![objectIdx[key]].SQL = v.SQL,
                                         ![objectIdx[key]].PostAlters = <<>>]
           /\ UNCHANGED <<objectIdx, Unknowns>>
           /\ Succeed
  <2> DEFINE o == Objects[objectIdx[key]]
             e == [o EXCEPT !.SQL = v.SQL, !.PostAlters = <<>>]
  <2>1. o \in StoredObject /\ key = <<o.Kind, o.Name>> /\ objectIdx[key] \in 1..Len(Objects)
    BY <1>2, ObjStateFacts
  <2>2. o.Kind = v.Kind
    BY <2>1 DEF objectKey
  <2>3. e \in StoredObject /\ e.Kind = o.Kind /\ e.Name = o.Name
    <3>1. v.SQL \in CreateSql /\ <<>> \in Seq(AlterSql)
      BY DEF CreateObjectStmt
    <3>2. o \in GenericObject /\ o.Kind # "TYPE"
      BY <1>1, <1>2, <2>1, <2>2 DEF StoredObject
    <3> HIDE DEF o
    <3> QED
      BY <3>1, <3>2 DEF StoredObject, GenericObject
  <2>4. Objects' = [Objects EXCEPT ![objectIdx[key]] = e]
    <3>1. Objects \in Seq(StoredObject)
      BY ObjStateFacts
    <3> HIDE DEF key
    <3> QED
      BY <1>2, <2>1, <3>1
  <2> HIDE DEF e, key
  <2> QED
    BY <1>2, <2>3, <2>4, ObjectChanged DEF Succeed
<1>3. CASE RefuseObject
  BY <1>3, ObjectRefused
<1>4. CASE /\ key \notin DOMAIN objectIdx
           /\ objectIdx' = Put(objectIdx, key, Len(Objects) + 1)
           /\ Objects' = Append(Objects, new)
           /\ UNCHANGED Unknowns
           /\ Succeed
  <2>1. new.Kind = v.Kind /\ new.Name = v.Name
    OBVIOUS
  <2> HIDE DEF new
  <2> QED
    BY <1>1, <1>4, <2>1, ObjectAppended DEF Succeed
<1> QED
  BY <1>2, <1>3, <1>4 DEF applyCreateObject

(* DROP of a view, function, domain, ...                                   *)
LEMMA DropObjectStep ==
  ASSUME ObjInv, NEW v \in DropObjectStmt, applyDropObject(v)
  PROVE  ObjInv' /\ (ObjComplete => ObjComplete')
<1>1. CASE UNCHANGED objVars
  BY <1>1, ObjectStutter
<1>2. CASE RefuseObject
  BY <1>2, ObjectRefused
<1>3. CASE /\ objectKey(v.Kind, v.Name) \in DOMAIN objectIdx
           /\ RemoveObject(objectKey(v.Kind, v.Name))
           /\ UNCHANGED Unknowns
           /\ Succeed
  BY <1>3, ObjectRemoved DEF Succeed
<1> QED
  BY <1>1, <1>2, <1>3 DEF applyDropObject

(* ALTER ... RENAME TO keeps it, also onto a name in use.                  *)
LEMMA RenameObjectStep ==
  ASSUME ObjInv, NEW v \in AlterObjectStmt, applyAlterObject(v)
  PROVE  ObjInv' /\ (ObjComplete /\ ObjTargetFree(v) => ObjComplete')
<1> DEFINE oldKey == objectKey(v.Kind, v.OldName)
           newKey == objectKey(v.Kind, v.NewName)
           idx == objectIdx[oldKey]
<1>1. CASE RefuseObject
  BY <1>1, ObjectRefused
<1>2. CASE /\ oldKey \in DOMAIN objectIdx
           /\ Objects' = [Objects EXCEPT ![idx].Name = v.NewName]
           /\ objectIdx' = Put(Delete(objectIdx, oldKey), newKey, idx)
           /\ UNCHANGED Unknowns
           /\ Succeed
  <2> DEFINE o == Objects[idx]
             e == [o EXCEPT !.Name = v.NewName]
  <2>1. o \in StoredObject /\ oldKey = <<o.Kind, o.Name>> /\ idx \in 1..Len(Objects)
    BY <1>2, ObjStateFacts
  <2>2. o.Kind = v.Kind /\ v.Kind # "TYPE" /\ v.NewName \in NormalToken
    BY <2>1 DEF objectKey, AlterObjectStmt, OwnHandlerKinds
  <2>3. e \in StoredObject /\ e.Kind = v.Kind /\ e.Name = v.NewName
    <3>1. o \in GenericObject /\ (o.PostAlters # <<>> => o.Kind \in KeptAlterKinds)
      BY <2>1 DEF StoredObject
    <3> HIDE DEF o
    <3> QED
      BY <2>2, <3>1 DEF StoredObject, GenericObject
  <2>4. Objects' = [Objects EXCEPT ![idx] = e]
    BY <1>2
  <2> HIDE DEF e
  <2> QED
    BY <1>2, <2>3, <2>4, ObjectRekeyed DEF Succeed, ObjTargetFree
<1> QED
  BY <1>1, <1>2 DEF applyAlterObject

(* A statement that is passed through leaves the objects alone.            *)
LEMMA PassThroughStep ==
  ASSUME ObjInv, NEW sql, PassThrough(sql)
  PROVE  ObjInv' /\ (ObjComplete => ObjComplete')
BY DEF PassThrough, Succeed, ObjInv, ObjectIndexSound, ObjComplete, objKeys

(* An ALTER is kept behind the object it alters.                           *)
LEMMA KeepAlterStep ==
  ASSUME ObjInv, NEW v \in AlterStmtOf(KeptAlterKinds), applyAlterFunctionOpts(v)
  PROVE  ObjInv' /\ (ObjComplete => ObjComplete')
<1> DEFINE key == objectKey(v.Kind, v.Name)
<1>1. v.SQL \in AlterSql
  BY DEF AlterStmtOf
<1>2. CASE PassThrough(v.SQL)
  BY <1>2, PassThroughStep
<1>3. CASE /\ key \in DOMAIN objectIdx
           /\ Objects' = [Objects EXCEPT ![objectIdx[key]].PostAlters = Append(@, v.SQL)]
           /\ UNCHANGED <<objectIdx, Unknowns>>
           /\ Succeed
  <2> DEFINE o == Objects[objectIdx[key]]
             e == [o EXCEPT !.PostAlters = Append(@, v.SQL)]
  <2>1. o \in StoredObject /\ o.Kind \in KeptAlterKinds
    <3>1. o \in StoredObject /\ key = <<o.Kind, o.Name>>
      BY <1>3, ObjStateFacts
    <3>2. o.Kind = v.Kind /\ v.Kind \in KeptAlterKinds
      BY <3>1 DEF objectKey, AlterStmtOf
    <3> QED
      BY <3>1, <3>2
  <2>2. e \in StoredObject /\ e.Kind = o.Kind /\ e.Name = o.Name
    <3> HIDE DEF o
    <3>1. o \in GenericObject /\ o.PostAlters \in Seq(AlterSql)
      BY <2>1 DEF StoredObject, GenericObject
    <3>2. Append(o.PostAlters, v.SQL) \in Seq(AlterSql)
      BY <1>1, <3>1
    <3> QED
      BY <2>1, <3>1, <3>2 DEF StoredObject, GenericObject
  <2>3. Objects' = [Objects EXCEPT ![objectIdx[key]] = e]
    BY <1>3
  <2> HIDE DEF e, key
  <2> QED
    BY <1>3, <2>2, <2>3, ObjectChanged DEF Succeed
<1> QED
  BY <1>2, <1>3 DEF applyAlterFunctionOpts

(* The statements that neither create, drop nor rename.                    *)
LEMMA OtherObjectStep ==
  ASSUME ObjInv, ObjOther
  PROVE  ObjInv' /\ (ObjComplete => ObjComplete')
<1>1. ASSUME NEW v \in AlterFunctionOptsStmt, applyAlterFunctionOpts(v)
      PROVE  ObjInv' /\ (ObjComplete => ObjComplete')
  <2>1. v \in AlterStmtOf(KeptAlterKinds)
    BY DEF AlterFunctionOptsStmt, AlterStmtOf, KeptAlterKinds
  <2> QED
    BY <1>1, <2>1, KeepAlterStep
<1>2. ASSUME NEW v \in AlterObjectOptsStmt, applyAlterObjectOpts(v)
      PROVE  ObjInv' /\ (ObjComplete => ObjComplete')
  <2>1. v \in AlterStmtOf(KeptAlterKinds)
    BY DEF AlterObjectOptsStmt, AlterStmtOf, KeptAlterKinds
  <2> QED
    BY <1>2, <2>1, KeepAlterStep, ObjectStutter DEF applyAlterObjectOpts
<1>3. ASSUME NEW v \in UnknownStmt, applyUnknown(v)
      PROVE  ObjInv' /\ (ObjComplete => ObjComplete')
  BY <1>3, PassThroughStep DEF applyUnknown
<1> QED
  BY <1>1, <1>2, <1>3 DEF ObjOther, AlterFunctionOpts, AlterObjectOpts, Unknown

(* The empty schema satisfies the invariant.                               *)
LEMMA ObjInitFacts ==
  ASSUME ObjInit
  PROVE  ObjInv /\ ObjComplete /\ UnknownsOK
<1>1. Objects = <<>> /\ objectIdx = [k \in {} |-> 0] /\ Unknowns = <<>> /\ failed = FALSE
  BY DEF ObjInit
<1>2. DOMAIN objectIdx = {} /\ objectIdx \in [DOMAIN objectIdx -> Nat]
  BY <1>1
<1>3. Objects \in Seq(StoredObject) /\ UnknownsOK
  BY <1>1 DEF UnknownsOK
<1>4. Len(objKeys) = 0
  BY <1>1 DEF objKeys, objectKeys
<1>5. ObjectIndexSound
  BY <1>2 DEF ObjectIndexSound, Sound
<1>6. ObjComplete
  BY <1>4 DEF ObjComplete, Complete
<1>7. failed \in BOOLEAN
  BY <1>1
<1> QED
  BY <1>2, <1>3, <1>5, <1>6, <1>7 DEF ObjInv

(* The invariant says what the runs check.                                 *)
LEMMA ObjInvMeaning ==
  ASSUME ObjInv
  PROVE  /\ UnknownsOK => ObjTypeOK
         /\ ObjectIndexSound
         /\ ObjComplete => ObjectIndexCoherent
<1>1. Objects \in Seq(GenericObject)
  BY DEF ObjInv, StoredObject
<1> QED
  BY <1>1 DEF ObjInv, UnknownsOK, ObjTypeOK, ObjectIndexCoherent, ObjectIndexSound,
              ObjComplete, Coherent

-----------------------------------------------------------------------------
(* What holds between two statements PostgreSQL accepts is inductive.      *)
LEMMA ObjInvStep ==
  ASSUME ObjInv, ObjComplete, [ObjLegalNext]_objVars
  PROVE  ObjInv' /\ ObjComplete'
<1>1. CASE CreateObject
  BY <1>1, CreateObjectStep DEF CreateObject
<1>2. CASE DropObject
  BY <1>2, DropObjectStep DEF DropObject
<1>3. CASE RenameObjectLegally
  BY <1>3, RenameObjectStep DEF RenameObjectLegally
<1>4. CASE ObjOther
  BY <1>4, OtherObjectStep
<1>5. CASE UNCHANGED objVars
  BY <1>5, ObjectStutter
<1> QED
  BY <1>1, <1>2, <1>3, <1>4, <1>5 DEF ObjLegalNext

(* The handlers pass on whole statements, and only those they know.        *)
LEMMA UnknownsStep ==
  ASSUME UnknownsOK, [ObjLegalNext]_objVars
  PROVE  UnknownsOK'
<1>1. CASE UNCHANGED Unknowns
  BY <1>1 DEF UnknownsOK
<1>2. ASSUME NEW sql \in AlterSql, PassThrough(sql) PROVE UnknownsOK'
  BY <1>2 DEF PassThrough, UnknownsOK
<1>3. CASE CreateObject
  BY <1>1, <1>3 DEF CreateObject, applyCreateObject, RefuseObject, objVars
<1>4. CASE DropObject
  BY <1>1, <1>4 DEF DropObject, applyDropObject, RefuseObject, objVars
<1>5. CASE RenameObjectLegally
  BY <1>1, <1>5 DEF RenameObjectLegally, applyAlterObject, RefuseObject, objVars
<1>6. CASE ObjOther
  <2>1. ASSUME NEW v \in AlterStmtOf(KeptAlterKinds), applyAlterFunctionOpts(v)
        PROVE  UnknownsOK'
    BY <1>1, <1>2, <2>1 DEF applyAlterFunctionOpts, AlterStmtOf
  <2>2. ASSUME NEW v \in UnknownStmt, applyUnknown(v) PROVE UnknownsOK'
    BY <1>2, <2>2 DEF applyUnknown, UnknownStmt
  <2>3. AlterFunctionOptsStmt \cup AlterObjectOptsStmt \subseteq AlterStmtOf(KeptAlterKinds)
    BY DEF AlterFunctionOptsStmt, AlterObjectOptsStmt, AlterStmtOf, KeptAlterKinds
  <2> QED
    BY <1>1, <1>6, <2>1, <2>2, <2>3
    DEF ObjOther, AlterFunctionOpts, AlterObjectOpts, Unknown, applyAlterObjectOpts, objVars
<1>7. CASE UNCHANGED objVars
  BY <1>1, <1>7 DEF objVars
<1> QED
  BY <1>3, <1>4, <1>5, <1>6, <1>7 DEF ObjLegalNext

(* As long as no rename takes a name in use, slice and map describe the    *)
(* same objects: each one that is emitted can be found under its kind and  *)
(* name, and no two share both.  The handlers never index the slice out of *)
(* range.                                                                  *)
THEOREM ObjIndexAlwaysCoherent ==
  ObjLegalSpec => [](ObjTypeOK /\ ObjectIndexCoherent)
<1> DEFINE IInv == ObjInv /\ ObjComplete /\ UnknownsOK
<1>1. ObjInit => IInv
  BY ObjInitFacts
<1>2. IInv /\ [ObjLegalNext]_objVars => IInv'
  BY ObjInvStep, UnknownsStep
<1>3. IInv => ObjTypeOK /\ ObjectIndexCoherent
  BY ObjInvMeaning
<1> QED
  BY <1>1, <1>2, <1>3, PTL DEF ObjLegalSpec

(* ... and all of the state is well typed.                                 *)
THEOREM ObjectsAlwaysTyped == ObjLegalSpec => []ObjTypeOK
BY ObjIndexAlwaysCoherent, PTL

-----------------------------------------------------------------------------
(* The dictionary has a definition for every key the map has an entry for. *)
ObjName == ObjectKind \X NormalToken
ObjDefinition == [SQL : CreateSql, PostAlters : Seq(AlterSql)]

ObjCatalogOK ==
  /\ DOMAIN objCatalog = DOMAIN objectIdx
  /\ DOMAIN objectIdx \subseteq ObjName
  /\ \A k \in DOMAIN objectIdx :
       /\ objCatalog[k] = [SQL |-> Objects[objectIdx[k]].SQL,
                           PostAlters |-> Objects[objectIdx[k]].PostAlters]
       /\ objCatalog[k] \in ObjDefinition

(* ... whatever the statements were.                                       *)
LEMMA ObjCatalogFacts ==
  ASSUME ObjInv
  PROVE  ObjCatalogOK
<1>1. ASSUME NEW k \in DOMAIN objectIdx
      PROVE  /\ k \in ObjName
             /\ [SQL |-> Objects[objectIdx[k]].SQL,
                 PostAlters |-> Objects[objectIdx[k]].PostAlters] \in ObjDefinition
  <2> DEFINE o == Objects[objectIdx[k]]
  <2>1. o \in StoredObject /\ k = <<o.Kind, o.Name>>
    BY ObjStateFacts
  <2> HIDE DEF o
  <2>2. o \in GenericObject
    BY <2>1 DEF StoredObject
  <2>3. k \in ObjName /\ [SQL |-> o.SQL, PostAlters |-> o.PostAlters] \in ObjDefinition
    BY <2>1, <2>2 DEF GenericObject, ObjName, ObjDefinition
  <2> QED
    BY <2>3 DEF o
<1> QED
  BY <1>1 DEF objCatalog, ObjCatalogOK

(* What a step may do to the ALTERs that are kept.                         *)
AltersStep ==
  \/ UNCHANGED keptAlters
  \/ AlterKept \/ AltersReplaced
  \/ AltersBegun \/ AltersDropped \/ AltersRenamed

(* An operation of the dictionary on some keys, as Catalog!Next has it.    *)
ObjOperation ==
  \/ \E k \in ObjName :
       ObjDictionary!Define(k) \/ ObjDictionary!Redefine(k) \/ ObjDictionary!Remove(k)
  \/ \E k, new \in ObjName : ObjDictionary!Rename(k, new)
  \/ ObjDictionary!Refuse

(* What a step has to do: one operation of the dictionary or none of it,   *)
(* and one of the changes the lists of ALTERs may take.                    *)
ObjImplements ==
  AltersStep /\ (ObjOperation \/ (objCatalog' = objCatalog /\ failed' = failed))

(* A key that leads to what it led to keeps its ALTERs and its definition. *)
LEMMA SameObject ==
  ASSUME ObjCatalogOK, ObjCatalogOK',
         NEW k \in DOMAIN objectIdx \cap DOMAIN objectIdx',
         Objects'[objectIdx'[k]] = Objects[objectIdx[k]]
  PROVE  /\ objCatalog'[k] = objCatalog[k]
         /\ keptAlters'[k] = keptAlters[k]
BY DEF ObjCatalogOK, keptAlters

(* A step that leaves the objects alone, refused or not.                   *)
LEMMA UntouchedImplements ==
  ASSUME ObjInv, UNCHANGED <<Objects, objectIdx>>, failed' = TRUE \/ failed' = failed
  PROVE  ObjImplements
<1>1. objCatalog' = objCatalog
  BY DEF objCatalog
<1>2. AltersStep
  BY DEF AltersStep, keptAlters
<1> QED
  BY <1>1, <1>2 DEF ObjImplements, ObjOperation, ObjDictionary!Refuse

(* One object gets another text and loses its ALTERs, or gets one more of  *)
(* the ALTERs about it.                                                    *)
LEMMA ChangedImplements ==
  ASSUME ObjInv, ObjCatalogOK, ObjCatalogOK', NEW key \in DOMAIN objectIdx, NEW x,
         Changed(Objects, objectIdx, key, x, Objects'), UNCHANGED <<objectIdx, failed>>,
         \/ x.SQL.OrReplace /\ x.PostAlters = <<>>
         \/ \E a \in AlterSql :
              /\ key = <<a.Kind, normIdent(a.Name)>>
              /\ x.PostAlters = Append(Objects[objectIdx[key]].PostAlters, a)
  PROVE  ObjImplements
<1>1. /\ IsSlice(Objects) /\ Len(objKeys) = Len(Objects) /\ Sound(objectIdx, objKeys)
      /\ objectIdx' = objectIdx
  BY ObjStateFacts, SeqIsSlice DEF ObjInv, ObjectIndexSound
<1>2. /\ Objects'[objectIdx[key]] = x
      /\ \A k \in DOMAIN objectIdx \ {key} : Objects'[objectIdx[k]] = Objects[objectIdx[k]]
  BY <1>1, FoundAfterChange
<1>3. \A k \in DOMAIN objectIdx \ {key} :
        /\ objCatalog'[k] = objCatalog[k]
        /\ keptAlters'[k] = keptAlters[k]
  BY <1>1, <1>2, SameObject
<1>4. AltersStep
  <2>1. keptAlters' = [keptAlters EXCEPT ![key] = x.PostAlters]
    <3>1. keptAlters'[key] = x.PostAlters
      BY <1>1, <1>2 DEF keptAlters
    <3> QED
      BY <1>1, <1>3, <3>1 DEF keptAlters
  <2>2. key \in DOMAIN keptAlters /\ keptAlters[key] = Objects[objectIdx[key]].PostAlters
    BY DEF keptAlters
  <2>3. CASE x.SQL.OrReplace /\ x.PostAlters = <<>>
    BY <1>1, <1>2, <2>1, <2>2, <2>3 DEF AltersStep, AltersReplaced
  <2>4. ASSUME NEW a \in AlterSql, key = <<a.Kind, normIdent(a.Name)>>,
               x.PostAlters = Append(Objects[objectIdx[key]].PostAlters, a)
        PROVE  AltersStep
    <3>1. keptAlters' = [keptAlters EXCEPT ![key] = Append(@, a)]
      BY <2>1, <2>2, <2>4
    <3> QED
      BY <2>2, <2>4, <3>1 DEF AltersStep, AlterKept
  <2> QED
    BY <2>3, <2>4
<1>5. /\ DOMAIN objCatalog = DOMAIN objectIdx /\ DOMAIN objCatalog' = DOMAIN objectIdx
      /\ key \in ObjName /\ objCatalog'[key] \in ObjDefinition
  BY <1>1 DEF ObjCatalogOK
<1>6. ObjDictionary!Redefine(key)
  BY <1>3, <1>5 DEF ObjDictionary!Redefine, ObjDictionary!Untouched, ObjDefinition
<1> QED
  BY <1>4, <1>5, <1>6 DEF ObjImplements, ObjOperation

(* CREATE defines a key, or replaces the definition behind it.             *)
LEMMA CreateObjectImplements ==
  ASSUME ObjInv, ObjCatalogOK, ObjCatalogOK', NEW v \in CreateObjectStmt,
         applyCreateObject(v)
  PROVE  ObjImplements
<1> DEFINE key == objectKey(v.Kind, v.Name)
           new == [Kind |-> v.Kind, Name |-> v.Name, SQL |-> v.SQL,
                   PostAlters |-> <<>>]
<1>1. CASE /\ key \in DOMAIN objectIdx
           /\ v.OrReplace
           /\ Objects' = [Objects EXCEPT ![objectIdx[key]].SQL = v.SQL,
                                         ![objectIdx[key]].PostAlters = <<>>]
           /\ UNCHANGED <<objectIdx, Unknowns>>
           /\ Succeed
  <2> DEFINE p == objectIdx[key]
             x == [Objects[p] EXCEPT !.SQL = v.SQL, !.PostAlters = <<>>]
  <2>1. Objects[p] \in StoredObject /\ p \in 1..Len(Objects) /\ Objects \in Seq(StoredObject)
    BY <1>1, ObjStateFacts
  <2> HIDE DEF key
  <2>2. Objects' = [Objects EXCEPT ![p] = x]
    <3> HIDE DEF p
    <3> QED
      BY <1>1, <2>1 DEF p
  <2>3. x.SQL.OrReplace /\ x.PostAlters = <<>>
    <3>1. v.SQL.OrReplace
      BY <1>1 DEF CreateObjectStmt
    <3> QED
      BY <2>1, <3>1 DEF StoredObject, GenericObject
  <2>4. Changed(Objects, objectIdx, key, x, Objects')
    BY <1>1, <2>2 DEF Changed, Replaced
  <2> HIDE DEF p, x
  <2> QED
    BY <1>1, <2>3, <2>4, ChangedImplements DEF Succeed
<1>2. CASE RefuseObject
  BY <1>2, UntouchedImplements DEF RefuseObject, Refused
<1>3. CASE /\ key \notin DOMAIN objectIdx
           /\ objectIdx' = Put(objectIdx, key, Len(Objects) + 1)
           /\ Objects' = Append(Objects, new)
           /\ UNCHANGED Unknowns
           /\ Succeed
  <2>1. /\ IsSlice(Objects) /\ Len(objKeys) = Len(Objects) /\ Sound(objectIdx, objKeys)
        /\ Created(Objects, objectIdx, key, new, Objects', objectIdx')
    BY <1>3, ObjStateFacts, SeqIsSlice DEF ObjInv, ObjectIndexSound, Created
  <2>2. DOMAIN objectIdx' = DOMAIN objectIdx \cup {key}
    BY <1>3 DEF Put
  <2> HIDE DEF key, new
  <2>3. \A k \in DOMAIN objectIdx : Objects'[objectIdx'[k]] = Objects[objectIdx[k]]
    BY <2>1, FoundAfterCreate
  <2>4. \A k \in DOMAIN objectIdx :
          /\ objCatalog'[k] = objCatalog[k]
          /\ keptAlters'[k] = keptAlters[k]
    BY <2>2, <2>3, SameObject
  <2>5. /\ DOMAIN objCatalog = DOMAIN objectIdx /\ DOMAIN objCatalog' = DOMAIN objectIdx'
        /\ key \in ObjName /\ objCatalog'[key] \in ObjDefinition
    BY <2>2 DEF ObjCatalogOK
  <2>6. ObjDictionary!Define(key)
    BY <1>3, <2>2, <2>4, <2>5
    DEF ObjDictionary!Define, ObjDictionary!Untouched, Succeed, ObjDefinition
  <2>7. AltersStep
    <3>1. Objects'[objectIdx'[key]] = new
      BY <2>1, FoundAfterCreate
    <3>2. new.PostAlters = <<>>
      BY DEF new
    <3>3. keptAlters' = Put(keptAlters, key, <<>>)
      BY <2>2, <2>4, <3>1, <3>2 DEF keptAlters, Put
    <3> QED
      BY <1>3, <2>2, <3>3 DEF AltersStep, AltersBegun
  <2> QED
    BY <2>5, <2>6, <2>7 DEF ObjImplements, ObjOperation
<1> QED
  BY <1>1, <1>2, <1>3 DEF applyCreateObject

(* Removing an object removes its key, and its ALTERs with it.             *)
LEMMA RemoveImplements ==
  ASSUME ObjInv, ObjComplete, ObjCatalogOK, ObjCatalogOK',
         NEW key \in DOMAIN objectIdx, RemoveObject(key), UNCHANGED failed
  PROVE  ObjImplements
<1>1. /\ IsSlice(Objects) /\ IsSlice(objKeys) /\ Len(objKeys) = Len(Objects)
      /\ Sound(objectIdx, objKeys) /\ Complete(objectIdx, objKeys)
      /\ Dropped(Objects, objectIdx, objKeys, key, Objects', objectIdx')
  BY ObjStateFacts, SeqIsSlice DEF ObjInv, ObjectIndexSound, ObjComplete, Dropped, RemoveObject
<1>2. /\ DOMAIN objectIdx' = DOMAIN objectIdx \ {key}
      /\ \A k \in DOMAIN objectIdx' : Objects'[objectIdx'[k]] = Objects[objectIdx[k]]
      /\ \A k, l \in DOMAIN objectIdx' :
           objectIdx[k] < objectIdx[l] => objectIdx'[k] < objectIdx'[l]
  BY <1>1, FoundAfterDrop
<1>3. \A k \in DOMAIN objectIdx' :
        /\ objCatalog'[k] = objCatalog[k]
        /\ keptAlters'[k] = keptAlters[k]
  BY <1>2, SameObject
<1>4. AltersStep
  <2>1. keptAlters' = Delete(keptAlters, key)
    BY <1>2, <1>3 DEF keptAlters, Delete
  <2> QED
    BY <2>1 DEF AltersStep, AltersDropped, keptAlters
<1>5. /\ DOMAIN objCatalog = DOMAIN objectIdx /\ DOMAIN objCatalog' = DOMAIN objectIdx'
      /\ key \in ObjName
  BY DEF ObjCatalogOK
<1>6. ObjDictionary!Remove(key)
  BY <1>2, <1>3, <1>5 DEF ObjDictionary!Remove, ObjDictionary!Untouched
<1> QED
  BY <1>4, <1>5, <1>6 DEF ObjImplements, ObjOperation

(* DROP removes one key, if there is one to remove.                        *)
LEMMA DropObjectImplements ==
  ASSUME ObjInv, ObjComplete, ObjCatalogOK, ObjCatalogOK', NEW v \in DropObjectStmt,
         applyDropObject(v)
  PROVE  ObjImplements
<1>1. CASE UNCHANGED objVars
  BY <1>1, UntouchedImplements DEF objVars
<1>2. CASE RefuseObject
  BY <1>2, UntouchedImplements DEF RefuseObject, Refused
<1>3. CASE /\ objectKey(v.Kind, v.Name) \in DOMAIN objectIdx
           /\ RemoveObject(objectKey(v.Kind, v.Name))
           /\ Succeed
  BY <1>3, RemoveImplements DEF Succeed
<1> QED
  BY <1>1, <1>2, <1>3 DEF applyDropObject

(* RENAME TO a free name carries text and ALTERs over to it.               *)
LEMMA RenameObjectImplements ==
  ASSUME ObjInv, ObjCatalogOK, ObjCatalogOK', NEW v \in AlterObjectStmt,
         ObjTargetFree(v), applyAlterObject(v)
  PROVE  ObjImplements
<1> DEFINE old == objectKey(v.Kind, v.OldName)
           new == objectKey(v.Kind, v.NewName)
           p == objectIdx[old]
           x == [Objects[p] EXCEPT !.Name = v.NewName]
<1>1. CASE RefuseObject
  BY <1>1, UntouchedImplements DEF RefuseObject, Refused
<1>2. CASE /\ old \in DOMAIN objectIdx
           /\ Objects' = [Objects EXCEPT ![p].Name = v.NewName]
           /\ objectIdx' = Put(Delete(objectIdx, old), new, p)
           /\ UNCHANGED Unknowns
           /\ Succeed
  <2>1. Renamed(Objects, objectIdx, old, new, x, Objects', objectIdx')
    BY <1>2 DEF Renamed, Replaced, ObjTargetFree
  <2>2. /\ IsSlice(Objects) /\ Len(objKeys) = Len(Objects)
        /\ Sound(objectIdx, objKeys) /\ new \notin DOMAIN objectIdx
    BY ObjStateFacts, SeqIsSlice DEF ObjInv, ObjectIndexSound, ObjTargetFree
  <2>3. DOMAIN objectIdx' = (DOMAIN objectIdx \ {old}) \cup {new}
    BY <1>2 DEF Put, Delete
  <2>4. x.SQL = Objects[p].SQL /\ x.PostAlters = Objects[p].PostAlters
    <3>1. Objects[p] \in StoredObject
      BY <1>2, ObjStateFacts
    <3> QED
      BY <3>1 DEF StoredObject, GenericObject
  <2> HIDE DEF old, new, x
  <2>5. /\ Objects'[objectIdx'[new]] = x
        /\ \A k \in DOMAIN objectIdx \ {old} : Objects'[objectIdx'[k]] = Objects[objectIdx[k]]
    BY <2>1, <2>2, FoundAfterRename
  <2>6. \A k \in DOMAIN objectIdx \ {old} :
          /\ objCatalog'[k] = objCatalog[k]
          /\ keptAlters'[k] = keptAlters[k]
    BY <2>3, <2>5, SameObject
  <2>7. /\ DOMAIN objCatalog = DOMAIN objectIdx /\ DOMAIN objCatalog' = DOMAIN objectIdx'
        /\ old \in ObjName /\ new \in ObjName
        /\ objCatalog'[new] = objCatalog[old]
    BY <1>2, <2>3, <2>4, <2>5 DEF ObjCatalogOK
  <2>8. ObjDictionary!Rename(old, new)
    BY <1>2, <2>2, <2>3, <2>6, <2>7
    DEF ObjDictionary!Rename, ObjDictionary!Untouched, Succeed
  <2>9. AltersStep
    <3>1. keptAlters'[new] = keptAlters[old]
      BY <1>2, <2>3, <2>4, <2>5 DEF keptAlters
    <3>2. keptAlters' = Put(Delete(keptAlters, old), new, keptAlters[old])
      BY <2>2, <2>3, <2>6, <3>1 DEF keptAlters, Put, Delete
    <3>3. old \in DOMAIN keptAlters /\ new \in DOMAIN objectIdx' \ DOMAIN keptAlters
      BY <1>2, <2>2, <2>3 DEF keptAlters
    <3> QED
      BY <3>2, <3>3 DEF AltersStep, AltersRenamed
  <2> QED
    BY <2>7, <2>8, <2>9 DEF ObjImplements, ObjOperation
<1> QED
  BY <1>1, <1>2 DEF applyAlterObject

(* An ALTER is put behind those the object has, or passed through.         *)
LEMMA KeepAlterImplements ==
  ASSUME ObjInv, ObjCatalogOK, ObjCatalogOK', NEW v \in AlterStmtOf(KeptAlterKinds),
         applyAlterFunctionOpts(v)
  PROVE  ObjImplements
<1> DEFINE key == objectKey(v.Kind, v.Name)
<1>1. v.SQL \in AlterSql
  BY DEF AlterStmtOf
<1>2. CASE PassThrough(v.SQL)
  BY <1>2, UntouchedImplements DEF PassThrough, Succeed
<1>3. CASE /\ key \in DOMAIN objectIdx
           /\ Objects' = [Objects EXCEPT ![objectIdx[key]].PostAlters = Append(@, v.SQL)]
           /\ UNCHANGED <<objectIdx, Unknowns>>
           /\ Succeed
  <2> DEFINE o == Objects[objectIdx[key]]
             x == [o EXCEPT !.PostAlters = Append(@, v.SQL)]
  <2>1. o \in StoredObject
    BY <1>3, ObjStateFacts
  <2>2. /\ key = <<v.SQL.Kind, normIdent(v.SQL.Name)>>
        /\ x.PostAlters = Append(o.PostAlters, v.SQL)
    <3>1. /\ v.Kind = v.SQL.Kind /\ v.Name = normIdent(v.SQL.Name)
          /\ v.Name \in NormalToken
      BY <1>1 DEF AlterStmtOf, AlterSql, NormalToken
    <3>2. key = <<v.SQL.Kind, normIdent(v.SQL.Name)>>
      BY <3>1, NormalKeys
    <3>3. x.PostAlters = Append(o.PostAlters, v.SQL)
      BY <2>1 DEF StoredObject, GenericObject
    <3> QED
      BY <3>2, <3>3
  <2>3. Changed(Objects, objectIdx, key, x, Objects')
    BY <1>3 DEF Changed, Replaced
  <2>4. \E a \in AlterSql :
          /\ key = <<a.Kind, normIdent(a.Name)>>
          /\ x.PostAlters = Append(Objects[objectIdx[key]].PostAlters, a)
    <3> HIDE DEF x, key
    <3> QED
      BY <1>1, <2>2
  <2> HIDE DEF x, key
  <2> QED
    BY <1>3, <2>3, <2>4, ChangedImplements DEF Succeed
<1> QED
  BY <1>2, <1>3 DEF applyAlterFunctionOpts

(* The statements that neither create, drop nor rename.                    *)
LEMMA OtherImplements ==
  ASSUME ObjInv, ObjCatalogOK, ObjCatalogOK', ObjOther
  PROVE  ObjImplements
<1>1. ASSUME NEW v \in AlterFunctionOptsStmt, applyAlterFunctionOpts(v)
      PROVE  ObjImplements
  <2>1. v \in AlterStmtOf(KeptAlterKinds)
    BY DEF AlterFunctionOptsStmt, AlterStmtOf, KeptAlterKinds
  <2> QED
    BY <1>1, <2>1, KeepAlterImplements
<1>2. ASSUME NEW v \in AlterObjectOptsStmt, applyAlterObjectOpts(v)
      PROVE  ObjImplements
  <2>1. v \in AlterStmtOf(KeptAlterKinds)
    BY DEF AlterObjectOptsStmt, AlterStmtOf, KeptAlterKinds
  <2>2. CASE UNCHANGED objVars
    BY <2>2, UntouchedImplements DEF objVars
  <2> QED
    BY <1>2, <2>1, <2>2, KeepAlterImplements DEF applyAlterObjectOpts
<1>3. ASSUME NEW v \in UnknownStmt, applyUnknown(v)
      PROVE  ObjImplements
  BY <1>3, UntouchedImplements DEF applyUnknown, PassThrough, Succeed
<1> QED
  BY <1>1, <1>2, <1>3 DEF ObjOther, AlterFunctionOpts, AlterObjectOpts, Unknown

(* A step of the registry is a step of the dictionary or changes none of   *)
(* it, and changes the list of one object at most, as it may.              *)
LEMMA ObjStepImplements ==
  ASSUME ObjInv, ObjComplete, ObjCatalogOK, ObjCatalogOK', [ObjLegalNext]_objVars
  PROVE  /\ [AltersStep]_objVars
         /\ [ObjDictionary!Next]_(ObjDictionary!vars)
<1>1. CASE UNCHANGED objVars
  <2>1. objCatalog' = objCatalog
    BY <1>1 DEF objVars, objCatalog
  <2> QED
    BY <1>1, <2>1 DEF objVars, ObjDictionary!vars
<1>2. CASE ObjLegalNext
  <2>1. ASSUME CreateObject PROVE ObjImplements
    BY <2>1, CreateObjectImplements DEF CreateObject
  <2>2. ASSUME DropObject PROVE ObjImplements
    BY <2>2, DropObjectImplements DEF DropObject
  <2>3. ASSUME RenameObjectLegally PROVE ObjImplements
    BY <2>3, RenameObjectImplements DEF RenameObjectLegally
  <2>4. ASSUME ObjOther PROVE ObjImplements
    BY <2>4, OtherImplements
  <2>5. ObjImplements
    BY <1>2, <2>1, <2>2, <2>3, <2>4 DEF ObjLegalNext
  <2>6. ASSUME ObjOperation PROVE ObjDictionary!Next
    BY <1>2, <2>6 DEF ObjLegalNext, ObjOperation, ObjName, ObjDictionary!Next
  <2> QED
    BY <2>5, <2>6 DEF ObjImplements, ObjDictionary!vars
<1> QED
  BY <1>1, <1>2

(* In legal histories the list of ALTERs of an object grows only by the    *)
(* ALTERs about it, is emptied only by a CREATE OR REPLACE of it, goes     *)
(* only with it and follows its renames; the drops, renames and            *)
(* replacements of other objects leave it as it is.                        *)
THEOREM AltersAlwaysStayPut == ObjLegalSpec => AltersStayPut
<1>1. ObjInit => ObjInv /\ ObjComplete
  BY ObjInitFacts
<1>2. ObjInv /\ ObjComplete /\ [ObjLegalNext]_objVars => (ObjInv /\ ObjComplete)'
  BY ObjInvStep
<1>3. ObjInv => ObjCatalogOK
  BY ObjCatalogFacts
<1>4. ObjInv /\ ObjComplete /\ ObjCatalogOK /\ ObjCatalogOK' /\ [ObjLegalNext]_objVars
        => [AltersStep]_objVars
  BY ObjStepImplements
<1>5. ObjLegalSpec => [][AltersStep]_objVars
  BY <1>1, <1>2, <1>3, <1>4, PTL DEF ObjLegalSpec
<1> QED
  BY <1>5 DEF AltersStayPut, AltersStep

(* Slice and map together behave as one dictionary from kinds and names to *)
(* definitions, for the statements PostgreSQL accepts.                     *)
THEOREM ObjectsImplementCatalog == ObjLegalSpec => ObjImplementsCatalog
<1>1. ObjInit => ObjInv /\ ObjComplete
  BY ObjInitFacts
<1>2. ObjInv /\ ObjComplete /\ [ObjLegalNext]_objVars => (ObjInv /\ ObjComplete)'
  BY ObjInvStep
<1>3. ObjInv => ObjCatalogOK
  BY ObjCatalogFacts
<1>4. ObjInv /\ ObjComplete /\ ObjCatalogOK /\ ObjCatalogOK' /\ [ObjLegalNext]_objVars
        => [ObjDictionary!Next]_(ObjDictionary!vars)
  BY ObjStepImplements
<1>5. ObjInit => ObjDictionary!Init
  BY DEF ObjInit, ObjDictionary!Init, objCatalog
<1> QED
  BY <1>1, <1>2, <1>3, <1>4, <1>5, PTL DEF ObjLegalSpec, ObjImplementsCatalog, ObjDictionary!Spec
=============================================================================
