------------------------- MODULE TypeRegistryProofs -------------------------
(***************************************************************************)
(* Proofs about TypeRegistry, for every set of tokens and labels and every *)
(* bound.  The ENUM half (EnumInv) is inductive for any statements; the    *)
(* objects' half is ObjInv of ObjectRegistryProofs, which the handlers of  *)
(* the types keep as long as no name is quoted: with quotes the two maps   *)
(* have different keys, which is what the run type_quoted shows.  For the  *)
(* statements PostgreSQL accepts the ENUMs keep the order of their labels  *)
(* and implement Catalog.                                                  *)
(***************************************************************************)
EXTENDS TypeRegistry, ObjectRegistryProofs

EnumComplete == Complete(typeIndex, typeKeys)

EnumInv ==
  /\ Types \in Seq(EnumType)
  /\ typeIndex \in [DOMAIN typeIndex -> Nat]
  /\ TypeIndexSound

-----------------------------------------------------------------------------
(* What every step needs to know of the state it starts from.              *)
LEMMA EnumStateFacts ==
  ASSUME EnumInv
  PROVE  /\ Types \in Seq(EnumType)
         /\ Len(Types) \in Nat
         /\ typeKeys \in Seq(NormalToken)
         /\ Len(typeKeys) = Len(Types)
         /\ \A k \in DOMAIN typeIndex :
              /\ typeIndex[k] \in 1..Len(Types)
              /\ typeIndex[k] \in Nat
              /\ typeKeys[typeIndex[k]] = k
              /\ Types[typeIndex[k]] \in EnumType
<1>1. Types \in Seq(EnumType) /\ Len(Types) \in Nat
  BY DEF EnumInv
<1>2. \A e \in EnumType : e.Name \in Token
  BY DEF EnumType
<1>3. typeKeys \in Seq(NormalToken) /\ Len(typeKeys) = Len(Types)
  BY <1>1, <1>2, NormKeysFacts DEF typeKeys
<1> SUFFICES ASSUME NEW k \in DOMAIN typeIndex
             PROVE  /\ typeIndex[k] \in 1..Len(Types)
                    /\ typeKeys[typeIndex[k]] = k
                    /\ Types[typeIndex[k]] \in EnumType
  BY <1>1, <1>3
<1>4. typeIndex[k] \in 1..Len(Types) /\ typeKeys[typeIndex[k]] = k
  BY <1>3 DEF EnumInv, TypeIndexSound, Sound
<1> QED
  BY <1>1, <1>4, ElementOfSeq

(* The labels a CREATE TYPE gives are a sequence without repetition.       *)
LEMMA LabelsFacts ==
  ASSUME NEW s \in Labels
  PROVE  s \in Seq(Label) /\ Distinct(s)
<1>1. PICK m \in 0..MaxLabels : s \in [1..m -> Label]
  BY DEF Labels, SeqOf
<1> QED
  BY <1>1 DEF Labels

(* Where ADD VALUE puts a label there is a place for it.                   *)
LEMMA AddPositionsFacts ==
  ASSUME NEW labels \in Seq(Label), NEW v, NEW pos \in AddPositions(labels, v)
  PROVE  pos \in 1..(Len(labels) + 1)
<1>1. CASE v.Where = "END"
  BY <1>1 DEF AddPositions
<1>2. CASE v.Where # "END"
  <2> DEFINE found == {i \in DOMAIN labels : labels[i] = v.Neighbour}
             p == findLabelIdx(labels, v.Neighbour)
  <2>1. p # 0 /\ pos \in {p, p + 1}
    BY <1>2 DEF AddPositions
  <2>2. found # {} /\ p = Min(found)
    BY <2>1 DEF findLabelIdx
  <2>3. found \subseteq 1..Len(labels) /\ found \subseteq Nat
    OBVIOUS
  <2>4. Min(found) \in found
    <3> HIDE DEF found
    <3> QED
      BY <2>2, <2>3, MinPosition
  <2>5. p \in 1..Len(labels)
    BY <2>2, <2>3, <2>4
  <2> HIDE DEF p
  <2> QED
    BY <2>1, <2>5
<1> QED
  BY <1>1, <1>2

(* A label that a list does not have can be put anywhere into it.          *)
LEMMA InsertKeepsDistinct ==
  ASSUME NEW labels \in Seq(Label), Distinct(labels),
         NEW pos \in 1..(Len(labels) + 1),
         NEW new \in Label, new \notin Range(labels)
  PROVE  Distinct(insertLabel(labels, pos, new))
<1> DEFINE grown == insertLabel(labels, pos, new)
           n == Len(labels)
<1>1. /\ grown \in Seq(Label) /\ Len(grown) = n + 1 /\ n \in Nat
      /\ \A j \in 1..(n + 1) :
           grown[j] = IF j < pos THEN labels[j]
                      ELSE IF j = pos THEN new ELSE labels[j - 1]
  BY InsertAtFacts DEF insertLabel
<1>2. \A j \in 1..n : labels[j] # new
  BY DEF Range
<1>3. \A i, j \in 1..n : labels[i] = labels[j] => i = j
  BY DEF Distinct
<1> HIDE DEF grown
<1>4. ASSUME NEW i \in 1..(n + 1), NEW j \in 1..(n + 1), grown[i] = grown[j]
      PROVE  i = j
  <2> DEFINE from(k) == IF k < pos THEN k ELSE k - 1
  <2>1. \A k \in 1..(n + 1) :
          k # pos => from(k) \in 1..n /\ grown[k] = labels[from(k)]
    BY <1>1
  <2>2. grown[pos] = new /\ pos \in 1..(n + 1)
    BY <1>1
  <2>3. CASE i = pos \/ j = pos
    BY <1>2, <1>4, <2>1, <2>2, <2>3
  <2>4. CASE i # pos /\ j # pos
    <3>1. from(i) = from(j)
      BY <1>3, <1>4, <2>1, <2>4
    <3> QED
      BY <1>1, <2>2, <2>4, <3>1
  <2> QED
    BY <2>3, <2>4
<1> QED
  BY <1>1, <1>4 DEF Distinct, grown

-----------------------------------------------------------------------------
(* Each handler keeps the ENUM half of the invariant.                      *)
LEMMA CreateTypeStep ==
  ASSUME EnumInv, NEW v \in CreateTypeStmt, applyCreateType(v)
  PROVE  /\ EnumInv'
         /\ EnumComplete => EnumComplete'
         /\ LabelsDistinct => LabelsDistinct'
<1> DEFINE key == normIdent(v.TypeName)
           e == [Name |-> v.TypeName, Labels |-> v.Labels]
<1>1. CASE RefuseType
  BY <1>1 DEF RefuseType, EnumInv, TypeIndexSound, EnumComplete, typeKeys, LabelsDistinct
<1>2. CASE /\ key \notin DOMAIN typeIndex
           /\ typeIndex' = Put(typeIndex, key, Len(Types) + 1)
           /\ Types' = Append(Types, e)
  <2>1. e \in EnumType /\ key \in NormalToken /\ Distinct(e.Labels)
    BY LabelsFacts DEF CreateTypeStmt, EnumType, NormalToken
  <2>2. Types' \in Seq(EnumType) /\ typeKeys' = Append(typeKeys, key)
    BY <1>2, <2>1, EnumStateFacts, NormKeysAppend DEF typeKeys
  <2>3. TypeIndexSound'
    BY <1>2, <2>1, <2>2, EnumStateFacts, AppendSound DEF TypeIndexSound, EnumInv
  <2>4. typeIndex' \in [DOMAIN typeIndex' -> Nat]
    BY <1>2, EnumStateFacts, PutIsFunction
  <2>5. ASSUME EnumComplete PROVE EnumComplete'
    BY <1>2, <2>1, <2>2, <2>5, EnumStateFacts, AppendComplete DEF EnumComplete
  <2>6. ASSUME LabelsDistinct PROVE LabelsDistinct'
    <3>1. Types \in Seq(EnumType)
      BY EnumStateFacts
    <3> HIDE DEF e
    <3> QED
      BY <1>2, <2>1, <2>6, <3>1 DEF LabelsDistinct
  <2> QED
    BY <2>2, <2>3, <2>4, <2>5, <2>6 DEF EnumInv
<1> QED
  BY <1>1, <1>2 DEF applyCreateType

(* DROP TYPE of an ENUM, of another type, or of none.                      *)
LEMMA DropTypeStep ==
  ASSUME EnumInv, NEW v \in DropTypeStmt, applyDropType(v)
  PROVE  /\ EnumInv'
         /\ EnumComplete => EnumComplete'
         /\ LabelsDistinct => LabelsDistinct'
<1> DEFINE key == normIdent(v.TypeName)
           idx == typeIndex[key]
<1>1. CASE UNCHANGED <<Types, typeIndex>>
  BY <1>1 DEF EnumInv, TypeIndexSound, EnumComplete, typeKeys, LabelsDistinct
<1>2. CASE /\ key \in DOMAIN typeIndex
           /\ Types' = RemoveAt(Types, idx)
           /\ typeIndex' = Reindex(Delete(typeIndex, key), RemoveAt(typeKeys, idx), idx)
  <2>1. idx \in 1..Len(Types) /\ idx \in Nat
    BY <1>2, EnumStateFacts
  <2>2. Types' \in Seq(EnumType) /\ typeKeys' = RemoveAt(typeKeys, idx)
    BY <1>2, <2>1, EnumStateFacts, NormKeysRemove DEF typeKeys
  <2>3. TypeIndexSound'
    BY <1>2, <2>2, EnumStateFacts, DropSound DEF TypeIndexSound, EnumInv
  <2>4. Len(typeKeys') \in Nat
    BY <2>1, <2>2, EnumStateFacts, RemoveAtFacts
  <2>5. typeIndex' \in [DOMAIN typeIndex' -> Nat]
    BY <1>2, <2>1, <2>2, <2>3, <2>4, ReindexIsFunction DEF TypeIndexSound
  <2>6. ASSUME EnumComplete PROVE EnumComplete'
    BY <1>2, <2>2, <2>6, EnumStateFacts, DropComplete DEF EnumComplete, TypeIndexSound, EnumInv
  <2>7. ASSUME LabelsDistinct PROVE LabelsDistinct'
    <3>1. Types \in Seq(EnumType)
      BY EnumStateFacts
    <3> HIDE DEF idx
    <3>2. /\ Len(Types') = Len(Types) - 1 /\ Types' \in Seq(EnumType)
          /\ \A j \in 1..(Len(Types) - 1) :
               Types'[j] = IF j < idx THEN Types[j] ELSE Types[j + 1]
      BY <1>2, <2>1, <3>1, RemoveAtFacts
    <3> QED
      BY <2>7, <3>1, <3>2 DEF LabelsDistinct
  <2> QED
    BY <2>2, <2>3, <2>5, <2>6, <2>7 DEF EnumInv
<1> QED
  BY <1>1, <1>2 DEF applyDropType, typeVars, RefuseType

(* ALTER TYPE ... RENAME TO, also onto a name in use.                      *)
LEMMA RenameTypeStep ==
  ASSUME EnumInv, NEW v \in RenameTypeStmt, alterTypeRenameTo(v)
  PROVE  /\ EnumInv'
         /\ EnumComplete /\ normIdent(v.NewName) \notin DOMAIN typeIndex => EnumComplete'
         /\ LabelsDistinct => LabelsDistinct'
<1> DEFINE key == normIdent(v.TypeName)
           newKey == normIdent(v.NewName)
           idx == typeIndex[key]
           e == [Types[idx] EXCEPT !.Name = v.NewName]
<1>1. CASE UNCHANGED <<Types, typeIndex>>
  BY <1>1 DEF EnumInv, TypeIndexSound, EnumComplete, typeKeys, LabelsDistinct
<1>2. CASE /\ key \in DOMAIN typeIndex
           /\ Types' = [Types EXCEPT ![idx].Name = v.NewName]
           /\ typeIndex' = Put(Delete(typeIndex, key), newKey, idx)
  <2>1. idx \in 1..Len(Types) /\ idx \in Nat
    BY <1>2, EnumStateFacts
  <2>2. /\ e \in EnumType /\ e.Name = v.NewName /\ newKey \in NormalToken
        /\ e.Labels = Types[idx].Labels
    <3>1. Types[idx] \in EnumType
      BY <1>2, EnumStateFacts
    <3> QED
      BY <3>1 DEF EnumType, RenameTypeStmt, NormalToken
  <2>3. Types' = [Types EXCEPT ![idx] = e] /\ Types \in Seq(EnumType)
    BY <1>2, EnumStateFacts
  <2> HIDE DEF e
  <2>4. Types' \in Seq(EnumType) /\ typeKeys' = [typeKeys EXCEPT ![idx] = newKey]
    <3> HIDE DEF idx
    <3>1. /\ Replaced(Types, idx, e) \in Seq(EnumType)
          /\ normKeys(Replaced(Types, idx, e)) =
               Replaced(normKeys(Types), idx, normIdent(e.Name))
      BY <2>1, <2>2, <2>3, NormKeysReplace
    <3> QED
      BY <2>2, <2>3, <3>1 DEF typeKeys, Replaced
  <2>5. TypeIndexSound'
    BY <1>2, <2>2, <2>4, EnumStateFacts, RekeySound DEF TypeIndexSound, EnumInv
  <2>6. typeIndex' \in [DOMAIN typeIndex' -> Nat]
    <3>1. \A x \in DOMAIN Delete(typeIndex, key) : Delete(typeIndex, key)[x] \in Nat
      BY EnumStateFacts DEF Delete
    <3> QED
      BY <1>2, <2>1, <3>1, PutIsFunction
  <2>7. ASSUME EnumComplete, newKey \notin DOMAIN typeIndex PROVE EnumComplete'
    BY <1>2, <2>2, <2>4, <2>7, EnumStateFacts, RekeyComplete
    DEF EnumComplete, TypeIndexSound, EnumInv
  <2>8. ASSUME LabelsDistinct PROVE LabelsDistinct'
    <3> HIDE DEF idx
    <3> QED
      BY <2>1, <2>2, <2>3, <2>8 DEF LabelsDistinct
  <2> QED
    BY <2>4, <2>5, <2>6, <2>7, <2>8 DEF EnumInv
<1> QED
  BY <1>1, <1>2 DEF alterTypeRenameTo, typeVars, RefuseType

(* New labels for one type: its name and all positions stay.               *)
LEMMA SetLabelsStep ==
  ASSUME EnumInv, NEW key \in DOMAIN typeIndex, NEW labels \in Seq(Label),
         SetLabels(typeIndex[key], labels)
  PROVE  /\ EnumInv'
         /\ EnumComplete => EnumComplete'
         /\ LabelsDistinct /\ Distinct(labels) => LabelsDistinct'
<1> DEFINE idx == typeIndex[key]
           e == [Types[idx] EXCEPT !.Labels = labels]
<1>1. idx \in 1..Len(Types) /\ Types[idx] \in EnumType
  BY EnumStateFacts
<1>2. e \in EnumType /\ e.Name = Types[idx].Name /\ e.Labels = labels
  BY <1>1 DEF EnumType
<1>3. Types' = [Types EXCEPT ![idx] = e] /\ Types \in Seq(EnumType) /\ typeIndex' = typeIndex
  BY EnumStateFacts DEF SetLabels
<1> HIDE DEF e, idx
<1>4. Types' \in Seq(EnumType) /\ typeKeys' = typeKeys
  <2>1. /\ Replaced(Types, idx, e) \in Seq(EnumType)
        /\ normKeys(Replaced(Types, idx, e)) = normKeys(Types)
    BY <1>1, <1>2, <1>3, NormKeysKeep
  <2> QED
    BY <1>3, <2>1 DEF typeKeys, Replaced
<1>5. ASSUME LabelsDistinct, Distinct(labels) PROVE LabelsDistinct'
  BY <1>1, <1>2, <1>3, <1>5 DEF LabelsDistinct
<1> QED
  BY <1>3, <1>4, <1>5 DEF EnumInv, TypeIndexSound, EnumComplete

(* ALTER TYPE ... ADD VALUE.                                               *)
LEMMA AddValueStep ==
  ASSUME EnumInv, NEW v \in AddValueStmt, alterTypeAddValue(v)
  PROVE  /\ EnumInv'
         /\ EnumComplete => EnumComplete'
         /\ LabelsDistinct => LabelsDistinct'
<1> DEFINE key == normIdent(v.TypeName)
           idx == typeIndex[key]
           labels == Types[idx].Labels
<1>1. CASE UNCHANGED <<Types, typeIndex>>
  BY <1>1 DEF EnumInv, TypeIndexSound, EnumComplete, typeKeys, LabelsDistinct
<1>2. CASE /\ key \in DOMAIN typeIndex
           /\ v.Value \notin Range(labels)
           /\ \E pos \in AddPositions(labels, v) :
                SetLabels(idx, insertLabel(labels, pos, v.Value))
  <2>1. PICK pos \in AddPositions(labels, v) :
          SetLabels(idx, insertLabel(labels, pos, v.Value))
    BY <1>2
  <2>2. labels \in Seq(Label) /\ v.Value \in Label /\ idx \in 1..Len(Types)
    <3>1. Types[idx] \in EnumType /\ idx \in 1..Len(Types)
      BY <1>2, EnumStateFacts
    <3> QED
      BY <3>1 DEF EnumType, AddValueStmt
  <2>3. pos \in 1..(Len(labels) + 1)
    <3> HIDE DEF labels
    <3> QED
      BY <2>2, AddPositionsFacts
  <2>4. insertLabel(labels, pos, v.Value) \in Seq(Label)
    <3> HIDE DEF labels
    <3> QED
      BY <2>2, <2>3, InsertAtFacts DEF insertLabel
  <2>5. LabelsDistinct => Distinct(insertLabel(labels, pos, v.Value))
    <3>1. LabelsDistinct => Distinct(labels)
      BY <2>2 DEF LabelsDistinct
    <3> HIDE DEF labels
    <3> QED
      BY <1>2, <2>2, <2>3, <3>1, InsertKeepsDistinct
  <2> HIDE DEF labels, key
  <2> QED
    BY <1>2, <2>1, <2>4, <2>5, SetLabelsStep
<1> QED
  BY <1>1, <1>2 DEF alterTypeAddValue, typeVars, RefuseType

(* ALTER TYPE ... RENAME VALUE.                                            *)
LEMMA RenameValueStep ==
  ASSUME EnumInv, NEW v \in RenameValueStmt, alterTypeRenameValue(v)
  PROVE  /\ EnumInv'
         /\ EnumComplete => EnumComplete'
         /\ LabelsDistinct /\ LabelFree(v) => LabelsDistinct'
<1> DEFINE key == normIdent(v.TypeName)
           idx == typeIndex[key]
           labels == Types[idx].Labels
           pos == findLabelIdx(labels, v.Value)
           after == [labels EXCEPT ![pos] = v.NewValue]
<1>1. CASE UNCHANGED <<Types, typeIndex>>
  BY <1>1 DEF EnumInv, TypeIndexSound, EnumComplete, typeKeys, LabelsDistinct
<1>2. CASE key \in DOMAIN typeIndex /\ SetLabels(idx, after)
  <2>1. labels \in Seq(Label) /\ v.NewValue \in Label /\ idx \in 1..Len(Types)
    <3>1. Types[idx] \in EnumType /\ idx \in 1..Len(Types)
      BY <1>2, EnumStateFacts
    <3> QED
      BY <3>1 DEF EnumType, RenameValueStmt
  <2>2. LabelsDistinct => Distinct(labels)
    BY <2>1 DEF LabelsDistinct
  <2>3. LabelFree(v) => v.NewValue \notin Range(labels)
    BY <1>2 DEF LabelFree
  <2> HIDE DEF labels, pos
  <2>4. /\ after \in Seq(Label) /\ Len(after) = Len(labels)
        /\ \A i \in 1..Len(labels) : after[i] = IF i = pos THEN v.NewValue ELSE labels[i]
    BY <2>1, ReplacedFacts DEF Replaced
  <2> HIDE DEF after
  <2>5. LabelsDistinct /\ LabelFree(v) => Distinct(after)
    BY <2>1, <2>2, <2>3, <2>4 DEF Distinct, Range
  <2> HIDE DEF key
  <2> QED
    BY <1>2, <2>4, <2>5, SetLabelsStep
<1> QED
  BY <1>1, <1>2 DEF alterTypeRenameValue, RefuseType

(* The empty schema satisfies the invariant.                               *)
LEMMA EnumInitFacts ==
  ASSUME TypeInit
  PROVE  EnumInv /\ EnumComplete /\ LabelsDistinct
<1>1. Types = <<>> /\ typeIndex = [k \in {} |-> 0]
  BY DEF TypeInit
<1>2. DOMAIN typeIndex = {} /\ typeIndex \in [DOMAIN typeIndex -> Nat]
  BY <1>1
<1>3. Types \in Seq(EnumType)
  BY <1>1
<1>4. Len(typeKeys) = 0
  BY <1>1 DEF typeKeys, normKeys
<1>5. TypeIndexSound
  BY <1>2 DEF TypeIndexSound, Sound
<1>6. EnumComplete
  BY <1>4 DEF EnumComplete, Complete
<1>7. LabelsDistinct
  BY <1>1 DEF LabelsDistinct
<1> QED
  BY <1>2, <1>3, <1>5, <1>6, <1>7 DEF EnumInv

(* A step that leaves the ENUM types alone keeps their half.               *)
LEMMA EnumStutter ==
  ASSUME EnumInv, UNCHANGED enumVars
  PROVE  /\ EnumInv'
         /\ EnumComplete => EnumComplete'
         /\ LabelsDistinct => LabelsDistinct'
BY DEF enumVars, EnumInv, TypeIndexSound, EnumComplete, typeKeys, LabelsDistinct

-----------------------------------------------------------------------------
(* The objects' half, for names without quotes.                            *)
PlainTokens == \A t \in Token : ~ t.quoted

(* Without quotes the two key functions agree.                             *)
LEMMA PlainKeys ==
  ASSUME PlainTokens, NEW t \in Token, NEW k
  PROVE  objectKey(k, t) = <<k, normIdent(t)>>
<1>1. t \in [letters : {t.letters}, upper : BOOLEAN, quoted : {FALSE}]
  BY TokenAssumption DEF PlainTokens
<1> DEFINE lower == [t EXCEPT !.upper = FALSE]
<1>2. lower \in [letters : {t.letters}, upper : {FALSE}, quoted : {FALSE}]
  BY <1>1
<1>3. lower = [letters |-> t.letters, upper |-> FALSE, quoted |-> FALSE]
  <2> HIDE DEF lower
  <2> QED
    BY <1>2
<1> QED
  BY <1>3 DEF objectKey, ToLower, normIdent

(* The statements on ENUM types leave the objects alone.                   *)
LEMMA ObjectsUntouched ==
  ASSUME ObjInv, UNCHANGED <<Objects, objectIdx, Unknowns>>, failed' \in BOOLEAN
  PROVE  ObjInv' /\ (ObjComplete => ObjComplete')
BY DEF ObjInv, ObjectIndexSound, ObjComplete, objKeys

(* DROP TYPE of a composite or range type drops the object of that name.   *)
LEMMA DropTypeObjects ==
  ASSUME ObjInv, NEW v \in DropTypeStmt, applyDropType(v)
  PROVE  ObjInv' /\ (ObjComplete => ObjComplete')
<1>1. CASE UNCHANGED <<Objects, objectIdx, Unknowns>> /\ failed' \in BOOLEAN
  BY <1>1, ObjectsUntouched
<1>2. CASE /\ objectKey("TYPE", v.TypeName) \in DOMAIN objectIdx
           /\ RemoveObject(objectKey("TYPE", v.TypeName))
           /\ UNCHANGED <<Types, typeIndex, Unknowns>>
           /\ Succeed
  BY <1>2, ObjectRemoved DEF Succeed
<1>3. failed \in BOOLEAN
  BY DEF ObjInv
<1> QED
  BY <1>1, <1>2, <1>3 DEF applyDropType, typeVars, RefuseType, Refused, Succeed

(* RENAME TO of a composite or range type renames the object: its name,    *)
(* its key and the name in its text.                                       *)
LEMMA RenameTypeObjects ==
  ASSUME PlainTokens, ObjInv, NEW v \in RenameTypeStmt, alterTypeRenameTo(v)
  PROVE  ObjInv' /\ (ObjComplete /\ TypeNameFree(v.NewName) => ObjComplete')
<1> DEFINE objKey == objectKey("TYPE", v.TypeName)
           idx == objectIdx[objKey]
           o == Objects[idx]
           text == replaceTypeNameInSQL(o.SQL, v.TypeName, v.NewName)
           e == [o EXCEPT !.Name = normIdent(v.NewName), !.SQL = text]
<1>1. CASE UNCHANGED <<Objects, objectIdx, Unknowns>> /\ failed' \in BOOLEAN
  BY <1>1, ObjectsUntouched
<1>2. CASE /\ objKey \in DOMAIN objectIdx
           /\ Objects' = [Objects EXCEPT
                ![idx].Name = normIdent(v.NewName),
                ![idx].SQL = replaceTypeNameInSQL(@, v.TypeName, v.NewName)]
           /\ objectIdx' = Put(Delete(objectIdx, objKey), objectKey("TYPE", v.NewName), idx)
           /\ UNCHANGED <<Types, typeIndex, Unknowns>>
           /\ Succeed
  <2>1. o \in StoredObject /\ objKey = <<o.Kind, o.Name>> /\ idx \in 1..Len(Objects)
    BY <1>2, ObjStateFacts
  <2>2. v.TypeName \in Token /\ v.NewName \in Token
    BY DEF RenameTypeStmt
  <2>3. objKey = <<"TYPE", normIdent(v.TypeName)>>
    BY <2>2, PlainKeys
  <2>4. o.Kind = "TYPE" /\ o.Name = normIdent(v.TypeName)
    BY <2>1, <2>3
  <2>5. /\ o \in GenericObject /\ o.SQL \in CreateSql
        /\ o.PostAlters # <<>> => o.Kind \in KeptAlterKinds
        /\ normIdent(o.SQL.Name) = normIdent(v.TypeName)
    BY <2>1, <2>4 DEF StoredObject, GenericObject
  <2>6. text \in CreateSql /\ text.Name = v.NewName
    <3> HIDE DEF o
    <3> QED
      BY <2>2, <2>5 DEF replaceTypeNameInSQL, CreateSql
  <2>7. e \in StoredObject /\ e.Kind = "TYPE" /\ e.Name = normIdent(v.NewName)
    <3>1. normIdent(v.NewName) \in NormalToken
      BY <2>2 DEF NormalToken
    <3> HIDE DEF o, text
    <3> QED
      BY <2>4, <2>5, <2>6, <3>1 DEF StoredObject, GenericObject
  <2>8. Objects' = [Objects EXCEPT ![idx] = e]
    <3>1. Objects \in Seq(StoredObject)
      BY ObjStateFacts
    <3> HIDE DEF idx
    <3> QED
      BY <1>2, <2>1, <3>1
  <2>9. objectKey("TYPE", v.NewName) = objectKey(e.Kind, e.Name)
    <3>1. normIdent(v.NewName) \in NormalToken
      BY <2>2 DEF NormalToken
    <3>2. objectKey("TYPE", v.NewName) = <<"TYPE", normIdent(v.NewName)>>
      BY <2>2, PlainKeys
    <3> QED
      BY <2>7, <3>1, <3>2, NormalKeys
  <2>10. TypeNameFree(v.NewName) => objectKey("TYPE", v.NewName) \notin DOMAIN objectIdx
    <3> SUFFICES ASSUME TypeNameFree(v.NewName),
                        objectKey("TYPE", v.NewName) \in DOMAIN objectIdx
                 PROVE  FALSE
      OBVIOUS
    <3> DEFINE k == objectKey("TYPE", v.NewName)
               j == objectIdx[k]
    <3>1. k = <<"TYPE", normIdent(v.NewName)>>
      BY <2>2, PlainKeys
    <3>2. j \in DOMAIN Objects /\ k = <<Objects[j].Kind, Objects[j].Name>>
      BY ObjStateFacts
    <3> QED
      BY <3>1, <3>2 DEF TypeNameFree
  <2> HIDE DEF e, objKey
  <2> QED
    BY <1>2, <2>7, <2>8, <2>9, <2>10, ObjectRekeyed DEF Succeed
<1>3. failed \in BOOLEAN
  BY DEF ObjInv
<1> QED
  BY <1>1, <1>2, <1>3 DEF alterTypeRenameTo, RefuseType, Refused, Succeed

(* The other three statements.                                             *)
LEMMA EnumStatementObjects ==
  ASSUME ObjInv, CreateType \/ AddValue \/ RenameValue
  PROVE  ObjInv' /\ (ObjComplete => ObjComplete')
<1>1. failed \in BOOLEAN
  BY DEF ObjInv
<1>2. CASE CreateType
  BY <1>1, <1>2, ObjectsUntouched DEF CreateType, applyCreateType, RefuseType, Refused, Succeed
<1>3. CASE AddValue
  BY <1>1, <1>3, ObjectsUntouched
  DEF AddValue, alterTypeAddValue, SetLabels, typeVars, RefuseType, Refused, Succeed
<1>4. CASE RenameValue
  BY <1>1, <1>4, ObjectsUntouched
  DEF RenameValue, alterTypeRenameValue, SetLabels, RefuseType, Refused, Succeed
<1> QED
  BY <1>2, <1>3, <1>4

(* No statement on a type is passed through.                               *)
LEMMA UnknownsStay ==
  ASSUME [TypeNext]_typeVars
  PROVE  UNCHANGED Unknowns
<1> USE DEF RefuseType, Refused, typeVars, objVars
<1>1. CASE TypeObject
  BY <1>1 DEF TypeObject, CreateObject, applyCreateObject, DropObject, applyDropObject,
              RenameObject, applyAlterObject, RefuseObject
<1>2. CASE CreateType \/ AddValue \/ RenameValue
  BY <1>2 DEF CreateType, applyCreateType, AddValue, alterTypeAddValue, RenameValue,
              alterTypeRenameValue, SetLabels
<1>3. CASE DropType \/ RenameType
  BY <1>3 DEF DropType, applyDropType, RenameType, alterTypeRenameTo
<1>4. CASE UNCHANGED typeVars
  BY <1>4
<1> QED
  BY <1>1, <1>2, <1>3, <1>4 DEF TypeNext

-----------------------------------------------------------------------------
(* For any statements and any names, quoted or not, every entry of         *)
(* typeIndex leads to an ENUM of that name.                                *)
THEOREM TypeIndexAlwaysSound == TypeSpec => []TypeIndexSound
<1>1. TypeInit => EnumInv
  BY EnumInitFacts
<1>2. EnumInv /\ [TypeNext]_typeVars => EnumInv'
  <2> SUFFICES ASSUME EnumInv, [TypeNext]_typeVars PROVE EnumInv'
    OBVIOUS
  <2>1. CASE TypeObject
    BY <2>1, EnumStutter DEF TypeObject
  <2>2. CASE CreateType
    BY <2>2, CreateTypeStep DEF CreateType
  <2>3. CASE DropType
    BY <2>3, DropTypeStep DEF DropType
  <2>4. CASE AddValue
    BY <2>4, AddValueStep DEF AddValue
  <2>5. CASE RenameValue
    BY <2>5, RenameValueStep DEF RenameValue
  <2>6. CASE RenameType
    BY <2>6, RenameTypeStep DEF RenameType
  <2>7. CASE UNCHANGED typeVars
    BY <2>7, EnumStutter DEF typeVars, enumVars
  <2> QED
    BY <2>1, <2>2, <2>3, <2>4, <2>5, <2>6, <2>7 DEF TypeNext
<1>3. EnumInv => TypeIndexSound
  BY DEF EnumInv
<1> QED
  BY <1>1, <1>2, <1>3, PTL DEF TypeSpec

(* For any statements, as long as no name is quoted: the state is well     *)
(* typed, an entry of objectIdx leads to the object of that kind and name, *)
(* and the text of a composite or range type names it as the schema does.  *)
THEOREM TypeObjectsAlwaysNamed ==
  ASSUME PlainTokens
  PROVE  TypeSpec => [](TypeTypeOK /\ ObjectIndexSound /\ CompositeTextNamed)
<1>1. TypeInit => EnumInv /\ ObjInv /\ UnknownsOK
  BY EnumInitFacts, ObjInitFacts DEF TypeInit
<1>2. EnumInv /\ ObjInv /\ [TypeNext]_typeVars => EnumInv' /\ ObjInv'
  <2> SUFFICES ASSUME EnumInv, ObjInv, [TypeNext]_typeVars
               PROVE  EnumInv' /\ ObjInv'
    OBVIOUS
  <2>1. CASE TypeObject
    BY <2>1, EnumStutter, CreateObjectStep, DropObjectStep, RenameObjectStep
    DEF TypeObject, CreateObject, DropObject, RenameObject
  <2>2. CASE CreateType
    BY <2>2, CreateTypeStep, EnumStatementObjects DEF CreateType
  <2>3. CASE DropType
    BY <2>3, DropTypeStep, DropTypeObjects DEF DropType
  <2>4. CASE AddValue
    BY <2>4, AddValueStep, EnumStatementObjects DEF AddValue
  <2>5. CASE RenameValue
    BY <2>5, RenameValueStep, EnumStatementObjects DEF RenameValue
  <2>6. CASE RenameType
    BY <2>6, RenameTypeStep, RenameTypeObjects DEF RenameType
  <2>7. CASE UNCHANGED typeVars
    BY <2>7, EnumStutter, ObjectStutter DEF typeVars, enumVars, objVars
  <2> QED
    BY <2>1, <2>2, <2>3, <2>4, <2>5, <2>6, <2>7 DEF TypeNext
<1>3. UnknownsOK /\ [TypeNext]_typeVars => UnknownsOK'
  BY UnknownsStay DEF UnknownsOK
<1>4. EnumInv /\ ObjInv /\ UnknownsOK => TypeTypeOK /\ ObjectIndexSound /\ CompositeTextNamed
  <2> SUFFICES ASSUME EnumInv, ObjInv, UnknownsOK
               PROVE  TypeTypeOK /\ ObjectIndexSound /\ CompositeTextNamed
    OBVIOUS
  <2>1. CompositeTextNamed
    BY DEF CompositeTextNamed, ObjInv, StoredObject
  <2> QED
    BY <2>1, ObjInvMeaning DEF TypeTypeOK, EnumInv
<1> QED
  BY <1>1, <1>2, <1>3, <1>4, PTL DEF TypeSpec

(* What holds of the ENUM types between two statements PostgreSQL accepts. *)
EnumLegalInv == EnumInv /\ EnumComplete /\ LabelsDistinct

(* EnumLegalInv is inductive for those statements.                         *)
LEMMA EnumLegalStep ==
  ASSUME EnumLegalInv, [TypeLegalNext]_typeVars
  PROVE  EnumLegalInv'
<1> USE DEF EnumLegalInv
<1>1. CASE OtherTypeObject \/ CreateCompositeLegally
  BY <1>1, EnumStutter DEF OtherTypeObject, CreateCompositeLegally
<1>2. CASE CreateTypeLegally
  BY <1>2, CreateTypeStep DEF CreateTypeLegally
<1>3. CASE DropType
  BY <1>3, DropTypeStep DEF DropType
<1>4. CASE AddValue
  BY <1>4, AddValueStep DEF AddValue
<1>5. CASE RenameValueLegally
  BY <1>5, RenameValueStep DEF RenameValueLegally
<1>6. CASE RenameTypeLegally
  BY <1>6, RenameTypeStep DEF RenameTypeLegally, TypeNameFree
<1>7. CASE UNCHANGED typeVars
  BY <1>7, EnumStutter DEF typeVars, enumVars
<1> QED
  BY <1>1, <1>2, <1>3, <1>4, <1>5, <1>6, <1>7 DEF TypeLegalNext

(* When no type takes a name in use and no label becomes one the type has, *)
(* every ENUM that is emitted is found under its name, and none has a      *)
(* label twice: ADD VALUE and RENAME VALUE never break the list.           *)
THEOREM EnumsAlwaysCoherent ==
  TypeLegalSpec => [](TypeIndexCoherent /\ LabelsDistinct)
<1>1. TypeInit => EnumLegalInv
  BY EnumInitFacts DEF EnumLegalInv
<1>2. EnumLegalInv /\ [TypeLegalNext]_typeVars => EnumLegalInv'
  BY EnumLegalStep
<1>3. EnumLegalInv => TypeIndexCoherent /\ LabelsDistinct
  BY DEF EnumLegalInv, EnumInv, EnumComplete, TypeIndexSound, TypeIndexCoherent, Coherent
<1> QED
  BY <1>1, <1>2, <1>3, PTL DEF TypeLegalSpec

(* ... each of them is found,                                              *)
THEOREM EnumsAlwaysFound == TypeLegalSpec => []TypeIndexCoherent
BY EnumsAlwaysCoherent, PTL

(* ... and, as long as no name is quoted, the state is well typed,         *)
THEOREM TypesAlwaysTyped ==
  ASSUME PlainTokens
  PROVE  TypeSpec => []TypeTypeOK
BY TypeObjectsAlwaysNamed, PTL

(* ... and no entry for a composite or range type leads anywhere else.     *)
THEOREM TypeObjectsAlwaysFound ==
  ASSUME PlainTokens
  PROVE  TypeSpec => []ObjectIndexSound
BY TypeObjectsAlwaysNamed, PTL

-----------------------------------------------------------------------------
(* The dictionary has a list of labels for every name the map has.         *)
TypeCatalogOK ==
  /\ DOMAIN typeCatalog = DOMAIN typeIndex
  /\ DOMAIN typeIndex \subseteq NormalToken
  /\ \A k \in DOMAIN typeIndex :
       typeCatalog[k] = Types[typeIndex[k]].Labels /\ typeCatalog[k] \in Seq(Label)

(* ... whatever the statements were.                                       *)
LEMMA TypeCatalogFacts ==
  ASSUME EnumInv
  PROVE  TypeCatalogOK
<1>1. ASSUME NEW k \in DOMAIN typeIndex
      PROVE  k \in NormalToken /\ Types[typeIndex[k]].Labels \in Seq(Label)
  <2>1. /\ typeIndex[k] \in 1..Len(Types) /\ typeKeys[typeIndex[k]] = k
        /\ Types[typeIndex[k]] \in EnumType
    BY EnumStateFacts
  <2>2. k \in NormalToken
    BY <2>1, EnumStateFacts, ElementOfSeq
  <2> QED
    BY <2>1, <2>2 DEF EnumType
<1> QED
  BY <1>1 DEF typeCatalog, TypeCatalogOK

(* The labels of the types that stay.                                      *)
LabelStep ==
  \A k \in DOMAIN typeIndex \cap DOMAIN typeIndex' :
    SameOrder(Types[typeIndex[k]].Labels, Types'[typeIndex'[k]].Labels)

(* An operation of the dictionary on some names, as Catalog!Next has it.   *)
TypeOperation ==
  \/ \E k \in NormalToken :
       TypeDictionary!Define(k) \/ TypeDictionary!Redefine(k) \/ TypeDictionary!Remove(k)
  \/ \E k, new \in NormalToken : TypeDictionary!Rename(k, new)
  \/ TypeDictionary!Refuse

(* What a step has to do: one operation of the dictionary or none of it,   *)
(* with the labels in the order they had.                                  *)
TypeImplements ==
  LabelStep /\ (TypeOperation \/ (typeCatalog' = typeCatalog /\ failed' = failed))

(* A list without repetition is in its own order,                          *)
LEMMA OrderOfItself ==
  ASSUME NEW s, Distinct(s)
  PROVE  SameOrder(s, s)
BY DEF SameOrder, Distinct

(* ... keeps it when a new label is put anywhere into it,                  *)
LEMMA OrderAfterInsert ==
  ASSUME NEW labels \in Seq(Label), Distinct(labels),
         NEW pos \in 1..(Len(labels) + 1),
         NEW new \in Label, new \notin Range(labels)
  PROVE  SameOrder(labels, insertLabel(labels, pos, new))
<1> DEFINE grown == insertLabel(labels, pos, new)
           n == Len(labels)
<1>1. /\ grown \in Seq(Label) /\ Len(grown) = n + 1 /\ n \in Nat
      /\ \A j \in 1..(n + 1) :
           grown[j] = IF j < pos THEN labels[j] ELSE IF j = pos THEN new ELSE labels[j - 1]
  BY InsertAtFacts DEF insertLabel
<1>2. DOMAIN labels = 1..n /\ DOMAIN grown = 1..(n + 1)
  BY <1>1
<1> HIDE DEF grown, n
<1>3. ASSUME NEW i \in 1..n, NEW m \in 1..(n + 1), labels[i] = grown[m]
      PROVE  m = IF i < pos THEN i ELSE i + 1
  <2>1. \A j \in 1..n : labels[j] # new
    BY <1>2 DEF Range
  <2>2. m # pos
    BY <1>1, <1>3, <2>1
  <2>3. CASE m < pos
    <3>1. m \in 1..n /\ labels[i] = labels[m]
      BY <1>1, <1>3, <2>2, <2>3 DEF n
    <3> QED
      BY <1>2, <2>3, <3>1 DEF Distinct
  <2>4. CASE ~ (m < pos)
    <3>1. m - 1 \in 1..n /\ labels[i] = labels[m - 1]
      BY <1>1, <1>3, <2>2, <2>4
    <3>2. i = m - 1
      BY <1>2, <3>1 DEF Distinct
    <3> QED
      BY <2>2, <2>4, <3>2
  <2> QED
    BY <2>3, <2>4
<1>4. ASSUME NEW i \in 1..n, NEW j \in 1..n, NEW m \in 1..(n + 1), NEW l \in 1..(n + 1),
             labels[i] = grown[m], labels[j] = grown[l], i < j
      PROVE  m < l
  <2>1. m = IF i < pos THEN i ELSE i + 1
    BY <1>3, <1>4
  <2>2. l = IF j < pos THEN j ELSE j + 1
    BY <1>3, <1>4
  <2> QED
    BY <1>1, <1>4, <2>1, <2>2
<1> QED
  BY <1>2, <1>4 DEF SameOrder, grown

(* ... and when one label becomes another that the list does not have.     *)
LEMMA OrderAfterRename ==
  ASSUME NEW labels \in Seq(Label), Distinct(labels), NEW pos,
         NEW new \in Label, new \notin Range(labels)
  PROVE  SameOrder(labels, Replaced(labels, pos, new))
<1> DEFINE after == Replaced(labels, pos, new)
           n == Len(labels)
<1>1. /\ after \in Seq(Label) /\ Len(after) = n /\ n \in Nat
      /\ \A i \in 1..n : after[i] = IF i = pos THEN new ELSE labels[i]
  BY ReplacedFacts
<1>2. DOMAIN labels = 1..n /\ DOMAIN after = 1..n
  BY <1>1
<1> HIDE DEF after, n
<1>3. ASSUME NEW i \in 1..n, NEW m \in 1..n, labels[i] = after[m]
      PROVE  m = i
  <2>1. labels[i] # new
    BY <1>2 DEF Range
  <2>2. labels[i] = labels[m]
    BY <1>1, <1>3, <2>1
  <2> QED
    BY <1>2, <2>2 DEF Distinct
<1> QED
  BY <1>2, <1>3 DEF SameOrder, after

(* A name that leads to what it led to keeps its labels and their order.   *)
LEMMA SameEnum ==
  ASSUME EnumLegalInv, TypeCatalogOK, TypeCatalogOK',
         NEW k \in DOMAIN typeIndex \cap DOMAIN typeIndex',
         Types'[typeIndex'[k]] = Types[typeIndex[k]]
  PROVE  /\ typeCatalog'[k] = typeCatalog[k]
         /\ SameOrder(Types[typeIndex[k]].Labels, Types'[typeIndex'[k]].Labels)
<1>1. Distinct(Types[typeIndex[k]].Labels)
  <2>1. typeIndex[k] \in DOMAIN Types
    BY EnumStateFacts DEF EnumLegalInv
  <2> QED
    BY <2>1 DEF EnumLegalInv, LabelsDistinct
<1> QED
  BY <1>1, OrderOfItself DEF TypeCatalogOK

(* A step that leaves the ENUM types alone, refused or not.                *)
LEMMA EnumUntouchedImplements ==
  ASSUME EnumLegalInv, UNCHANGED <<Types, typeIndex>>, failed' = TRUE \/ failed' = failed
  PROVE  TypeImplements
<1>1. typeCatalog' = typeCatalog
  BY DEF typeCatalog
<1>2. LabelStep
  <2>1. ASSUME NEW k \in DOMAIN typeIndex
        PROVE  SameOrder(Types[typeIndex[k]].Labels, Types[typeIndex[k]].Labels)
    <3>1. typeIndex[k] \in DOMAIN Types
      BY EnumStateFacts DEF EnumLegalInv
    <3> QED
      BY <3>1, OrderOfItself DEF EnumLegalInv, LabelsDistinct
  <2> QED
    BY <2>1 DEF LabelStep
<1> QED
  BY <1>1, <1>2 DEF TypeImplements, TypeOperation, TypeDictionary!Refuse

(* New labels for one type: one name is redefined.                         *)
LEMMA SetLabelsImplements ==
  ASSUME EnumLegalInv, TypeCatalogOK, TypeCatalogOK', NEW key \in DOMAIN typeIndex,
         NEW labels, SetLabels(typeIndex[key], labels),
         SameOrder(Types[typeIndex[key]].Labels, labels)
  PROVE  TypeImplements
<1> DEFINE x == [Types[typeIndex[key]] EXCEPT !.Labels = labels]
<1>1. /\ IsSlice(Types) /\ Len(typeKeys) = Len(Types) /\ Sound(typeIndex, typeKeys)
      /\ typeIndex' = typeIndex /\ failed' = failed
      /\ Changed(Types, typeIndex, key, x, Types')
  BY EnumStateFacts, SeqIsSlice
  DEF EnumLegalInv, EnumInv, TypeIndexSound, Changed, Replaced, SetLabels, Succeed
<1>2. x.Labels = labels
  <2>1. Types[typeIndex[key]] \in EnumType
    BY EnumStateFacts DEF EnumLegalInv
  <2> QED
    BY <2>1 DEF EnumType
<1> HIDE DEF x
<1>3. /\ Types'[typeIndex[key]] = x
      /\ \A k \in DOMAIN typeIndex \ {key} : Types'[typeIndex[k]] = Types[typeIndex[k]]
  BY <1>1, FoundAfterChange
<1>4. \A k \in DOMAIN typeIndex \ {key} :
        /\ typeCatalog'[k] = typeCatalog[k]
        /\ SameOrder(Types[typeIndex[k]].Labels, Types'[typeIndex'[k]].Labels)
  BY <1>1, <1>3, SameEnum
<1>5. LabelStep
  BY <1>1, <1>2, <1>3, <1>4 DEF LabelStep
<1>6. /\ DOMAIN typeCatalog = DOMAIN typeIndex /\ DOMAIN typeCatalog' = DOMAIN typeIndex
      /\ key \in NormalToken /\ typeCatalog'[key] \in Seq(Label)
  BY <1>1 DEF TypeCatalogOK
<1>7. TypeDictionary!Redefine(key)
  BY <1>1, <1>4, <1>6 DEF TypeDictionary!Redefine, TypeDictionary!Untouched
<1> QED
  BY <1>5, <1>6, <1>7 DEF TypeImplements, TypeOperation

(* CREATE TYPE ... AS ENUM defines one name.                               *)
LEMMA CreateTypeImplements ==
  ASSUME EnumLegalInv, TypeCatalogOK, TypeCatalogOK', NEW v \in CreateTypeStmt,
         applyCreateType(v)
  PROVE  TypeImplements
<1> DEFINE key == normIdent(v.TypeName)
           new == [Name |-> v.TypeName, Labels |-> v.Labels]
<1>1. CASE RefuseType
  BY <1>1, EnumUntouchedImplements DEF RefuseType, Refused
<1>2. CASE /\ key \notin DOMAIN typeIndex
           /\ typeIndex' = Put(typeIndex, key, Len(Types) + 1)
           /\ Types' = Append(Types, new)
           /\ Succeed
  <2>1. /\ IsSlice(Types) /\ Len(typeKeys) = Len(Types) /\ Sound(typeIndex, typeKeys)
        /\ Created(Types, typeIndex, key, new, Types', typeIndex')
    BY <1>2, EnumStateFacts, SeqIsSlice DEF EnumLegalInv, EnumInv, TypeIndexSound, Created
  <2>2. DOMAIN typeIndex' = DOMAIN typeIndex \cup {key}
    BY <1>2 DEF Put
  <2> HIDE DEF key, new
  <2>3. \A k \in DOMAIN typeIndex : Types'[typeIndex'[k]] = Types[typeIndex[k]]
    BY <2>1, FoundAfterCreate
  <2>4. \A k \in DOMAIN typeIndex :
          /\ typeCatalog'[k] = typeCatalog[k]
          /\ SameOrder(Types[typeIndex[k]].Labels, Types'[typeIndex'[k]].Labels)
    BY <2>2, <2>3, SameEnum
  <2>5. /\ DOMAIN typeCatalog = DOMAIN typeIndex /\ DOMAIN typeCatalog' = DOMAIN typeIndex'
        /\ key \in NormalToken /\ typeCatalog'[key] \in Seq(Label)
    BY <2>2 DEF TypeCatalogOK
  <2>6. TypeDictionary!Define(key)
    BY <1>2, <2>2, <2>4, <2>5 DEF TypeDictionary!Define, TypeDictionary!Untouched, Succeed
  <2>7. LabelStep
    BY <1>2, <2>2, <2>4 DEF LabelStep
  <2> QED
    BY <2>5, <2>6, <2>7 DEF TypeImplements, TypeOperation
<1> QED
  BY <1>1, <1>2 DEF applyCreateType

(* DROP TYPE removes one name, or leaves the ENUM types alone.             *)
LEMMA DropTypeImplements ==
  ASSUME EnumLegalInv, TypeCatalogOK, TypeCatalogOK', NEW v \in DropTypeStmt,
         applyDropType(v)
  PROVE  TypeImplements
<1> DEFINE key == normIdent(v.TypeName)
<1>1. CASE UNCHANGED <<Types, typeIndex>> /\ (failed' = TRUE \/ failed' = failed)
  BY <1>1, EnumUntouchedImplements
<1>2. CASE /\ key \in DOMAIN typeIndex
           /\ Types' = RemoveAt(Types, typeIndex[key])
           /\ typeIndex' = Reindex(Delete(typeIndex, key),
                                   RemoveAt(typeKeys, typeIndex[key]), typeIndex[key])
           /\ Succeed
  <2>1. /\ IsSlice(Types) /\ IsSlice(typeKeys) /\ Len(typeKeys) = Len(Types)
        /\ Sound(typeIndex, typeKeys) /\ Complete(typeIndex, typeKeys)
        /\ Dropped(Types, typeIndex, typeKeys, key, Types', typeIndex')
    BY <1>2, EnumStateFacts, SeqIsSlice
    DEF EnumLegalInv, EnumInv, TypeIndexSound, EnumComplete, Dropped
  <2> HIDE DEF key
  <2>2. /\ DOMAIN typeIndex' = DOMAIN typeIndex \ {key}
        /\ \A k \in DOMAIN typeIndex' : Types'[typeIndex'[k]] = Types[typeIndex[k]]
        /\ \A k, l \in DOMAIN typeIndex' :
             typeIndex[k] < typeIndex[l] => typeIndex'[k] < typeIndex'[l]
    BY <2>1, FoundAfterDrop
  <2>3. \A k \in DOMAIN typeIndex' :
          /\ typeCatalog'[k] = typeCatalog[k]
          /\ SameOrder(Types[typeIndex[k]].Labels, Types'[typeIndex'[k]].Labels)
    BY <2>2, SameEnum
  <2>4. LabelStep
    BY <2>2, <2>3 DEF LabelStep
  <2>5. /\ DOMAIN typeCatalog = DOMAIN typeIndex /\ DOMAIN typeCatalog' = DOMAIN typeIndex'
        /\ key \in NormalToken
    BY <1>2 DEF TypeCatalogOK
  <2>6. TypeDictionary!Remove(key)
    BY <1>2, <2>2, <2>3, <2>5 DEF TypeDictionary!Remove, TypeDictionary!Untouched, Succeed
  <2> QED
    BY <2>4, <2>5, <2>6 DEF TypeImplements, TypeOperation
<1> QED
  BY <1>1, <1>2 DEF applyDropType, typeVars, RefuseType, Refused, Succeed

(* ADD VALUE redefines one name, with its labels in the order they had.    *)
LEMMA AddValueImplements ==
  ASSUME EnumLegalInv, TypeCatalogOK, TypeCatalogOK', NEW v \in AddValueStmt,
         alterTypeAddValue(v)
  PROVE  TypeImplements
<1> DEFINE key == normIdent(v.TypeName)
           labels == Types[typeIndex[key]].Labels
<1>1. CASE UNCHANGED <<Types, typeIndex>> /\ (failed' = TRUE \/ failed' = failed)
  BY <1>1, EnumUntouchedImplements
<1>2. CASE /\ key \in DOMAIN typeIndex
           /\ v.Value \notin Range(labels)
           /\ \E pos \in AddPositions(labels, v) :
                SetLabels(typeIndex[key], insertLabel(labels, pos, v.Value))
  <2>1. PICK pos \in AddPositions(labels, v) :
          SetLabels(typeIndex[key], insertLabel(labels, pos, v.Value))
    BY <1>2
  <2>2. labels \in Seq(Label) /\ v.Value \in Label /\ Distinct(labels)
    <3>1. Types[typeIndex[key]] \in EnumType /\ typeIndex[key] \in DOMAIN Types
      BY <1>2, EnumStateFacts DEF EnumLegalInv
    <3> QED
      BY <3>1 DEF EnumType, AddValueStmt, EnumLegalInv, LabelsDistinct
  <2>3. SameOrder(labels, insertLabel(labels, pos, v.Value))
    <3> HIDE DEF labels
    <3>1. pos \in 1..(Len(labels) + 1)
      BY <2>2, AddPositionsFacts
    <3> QED
      BY <1>2, <2>2, <3>1, OrderAfterInsert
  <2> HIDE DEF key
  <2> QED
    BY <1>2, <2>1, <2>3, SetLabelsImplements
<1> QED
  BY <1>1, <1>2 DEF alterTypeAddValue, typeVars, RefuseType, Refused

(* RENAME VALUE to a new label too.                                        *)
LEMMA RenameValueImplements ==
  ASSUME EnumLegalInv, TypeCatalogOK, TypeCatalogOK', NEW v \in RenameValueStmt,
         LabelFree(v), alterTypeRenameValue(v)
  PROVE  TypeImplements
<1> DEFINE key == normIdent(v.TypeName)
           labels == Types[typeIndex[key]].Labels
           pos == findLabelIdx(labels, v.Value)
<1>1. CASE UNCHANGED <<Types, typeIndex>> /\ (failed' = TRUE \/ failed' = failed)
  BY <1>1, EnumUntouchedImplements
<1>2. CASE /\ key \in DOMAIN typeIndex
           /\ SetLabels(typeIndex[key], [labels EXCEPT ![pos] = v.NewValue])
  <2>1. labels \in Seq(Label) /\ v.NewValue \in Label /\ Distinct(labels)
    <3>1. Types[typeIndex[key]] \in EnumType /\ typeIndex[key] \in DOMAIN Types
      BY <1>2, EnumStateFacts DEF EnumLegalInv
    <3> QED
      BY <3>1 DEF EnumType, RenameValueStmt, EnumLegalInv, LabelsDistinct
  <2>2. v.NewValue \notin Range(labels)
    BY <1>2 DEF LabelFree
  <2> HIDE DEF pos
  <2>3. SameOrder(labels, Replaced(labels, pos, v.NewValue))
    <3> HIDE DEF labels
    <3> QED
      BY <2>1, <2>2, OrderAfterRename
  <2>4. SameOrder(labels, [labels EXCEPT ![pos] = v.NewValue])
    BY <2>3 DEF Replaced
  <2> HIDE DEF key
  <2> QED
    BY <1>2, <2>4, SetLabelsImplements
<1> QED
  BY <1>1, <1>2 DEF alterTypeRenameValue, RefuseType, Refused

(* RENAME TO a free name carries the labels over to it.                    *)
LEMMA RenameTypeImplements ==
  ASSUME EnumLegalInv, TypeCatalogOK, TypeCatalogOK', NEW v \in RenameTypeStmt,
         TypeNameFree(v.NewName), alterTypeRenameTo(v)
  PROVE  TypeImplements
<1> DEFINE old == normIdent(v.TypeName)
           new == normIdent(v.NewName)
           p == typeIndex[old]
           x == [Types[p] EXCEPT !.Name = v.NewName]
<1>1. CASE UNCHANGED <<Types, typeIndex>> /\ (failed' = TRUE \/ failed' = failed)
  BY <1>1, EnumUntouchedImplements
<1>2. CASE /\ old \in DOMAIN typeIndex
           /\ Types' = [Types EXCEPT ![p].Name = v.NewName]
           /\ typeIndex' = Put(Delete(typeIndex, old), new, p)
           /\ Succeed
  <2>1. Renamed(Types, typeIndex, old, new, x, Types', typeIndex')
    BY <1>2 DEF Renamed, Replaced, TypeNameFree
  <2>2. /\ IsSlice(Types) /\ Len(typeKeys) = Len(Types)
        /\ Sound(typeIndex, typeKeys) /\ new \notin DOMAIN typeIndex
    BY EnumStateFacts, SeqIsSlice DEF EnumLegalInv, EnumInv, TypeIndexSound, TypeNameFree
  <2>3. DOMAIN typeIndex' = (DOMAIN typeIndex \ {old}) \cup {new}
    BY <1>2 DEF Put, Delete
  <2>4. x.Labels = Types[p].Labels
    <3>1. Types[p] \in EnumType
      BY <1>2, EnumStateFacts DEF EnumLegalInv
    <3> QED
      BY <3>1 DEF EnumType
  <2> HIDE DEF old, new, x
  <2>5. /\ Types'[typeIndex'[new]] = x
        /\ \A k \in DOMAIN typeIndex \ {old} : Types'[typeIndex'[k]] = Types[typeIndex[k]]
    BY <2>1, <2>2, FoundAfterRename
  <2>6. \A k \in DOMAIN typeIndex \ {old} :
          /\ typeCatalog'[k] = typeCatalog[k]
          /\ SameOrder(Types[typeIndex[k]].Labels, Types'[typeIndex'[k]].Labels)
    BY <2>3, <2>5, SameEnum
  <2>7. /\ DOMAIN typeCatalog = DOMAIN typeIndex /\ DOMAIN typeCatalog' = DOMAIN typeIndex'
        /\ old \in NormalToken /\ new \in NormalToken
        /\ typeCatalog'[new] = typeCatalog[old]
    BY <1>2, <2>3, <2>4, <2>5 DEF TypeCatalogOK
  <2>8. TypeDictionary!Rename(old, new)
    BY <1>2, <2>2, <2>3, <2>6, <2>7
    DEF TypeDictionary!Rename, TypeDictionary!Untouched, Succeed
  <2>9. LabelStep
    BY <2>2, <2>3, <2>6 DEF LabelStep
  <2> QED
    BY <2>7, <2>8, <2>9 DEF TypeImplements, TypeOperation
<1> QED
  BY <1>1, <1>2 DEF alterTypeRenameTo, RefuseType, Refused, Succeed

(* The statements on verbatim objects leave the ENUM types alone.          *)
LEMMA ObjectStatementImplements ==
  ASSUME EnumLegalInv, OtherTypeObject \/ CreateCompositeLegally
  PROVE  TypeImplements
<1>1. UNCHANGED <<Types, typeIndex>>
  BY DEF OtherTypeObject, CreateCompositeLegally, enumVars
<1>2. ASSUME NEW v, applyCreateObject(v)
      PROVE  failed' = TRUE \/ failed' = failed
  BY <1>2 DEF applyCreateObject, RefuseObject, Refused, Succeed
<1>3. ASSUME NEW v, applyDropObject(v)
      PROVE  failed' = TRUE \/ failed' = failed
  BY <1>3 DEF applyDropObject, RefuseObject, Refused, Succeed, objVars
<1>4. failed' = TRUE \/ failed' = failed
  BY <1>2, <1>3 DEF OtherTypeObject, CreateCompositeLegally, DropObject
<1> QED
  BY <1>1, <1>4, EnumUntouchedImplements

(* A step of the registry is a step of the dictionary or changes none of   *)
(* it, and keeps the order of the labels.                                  *)
LEMMA TypeStepImplements ==
  ASSUME EnumLegalInv, TypeCatalogOK, TypeCatalogOK', [TypeLegalNext]_typeVars
  PROVE  /\ [LabelStep]_typeVars
         /\ [TypeDictionary!Next]_(TypeDictionary!vars)
<1>1. CASE UNCHANGED typeVars
  <2>1. typeCatalog' = typeCatalog
    BY <1>1 DEF typeVars, typeCatalog
  <2> QED
    BY <1>1, <2>1 DEF typeVars, TypeDictionary!vars
<1>2. CASE TypeLegalNext
  <2>1. ASSUME OtherTypeObject \/ CreateCompositeLegally PROVE TypeImplements
    BY <2>1, ObjectStatementImplements
  <2>2. ASSUME CreateTypeLegally PROVE TypeImplements
    BY <2>2, CreateTypeImplements DEF CreateTypeLegally
  <2>3. ASSUME DropType PROVE TypeImplements
    BY <2>3, DropTypeImplements DEF DropType
  <2>4. ASSUME AddValue PROVE TypeImplements
    BY <2>4, AddValueImplements DEF AddValue
  <2>5. ASSUME RenameValueLegally PROVE TypeImplements
    BY <2>5, RenameValueImplements DEF RenameValueLegally
  <2>6. ASSUME RenameTypeLegally PROVE TypeImplements
    BY <2>6, RenameTypeImplements DEF RenameTypeLegally
  <2>7. TypeImplements
    BY <1>2, <2>1, <2>2, <2>3, <2>4, <2>5, <2>6 DEF TypeLegalNext
  <2>8. ASSUME TypeOperation PROVE TypeDictionary!Next
    BY <1>2, <2>8 DEF TypeLegalNext, TypeOperation, TypeDictionary!Next
  <2> QED
    BY <2>7, <2>8 DEF TypeImplements, TypeDictionary!vars
<1> QED
  BY <1>1, <1>2

(* No statement PostgreSQL accepts changes the order of the labels a type  *)
(* keeps, wherever it puts or renames one: it is the sort order of the     *)
(* type.                                                                   *)
THEOREM LabelOrderAlwaysKept == TypeLegalSpec => LabelOrderKept
<1>1. TypeInit => EnumLegalInv
  BY EnumInitFacts DEF EnumLegalInv
<1>2. EnumLegalInv /\ [TypeLegalNext]_typeVars => EnumLegalInv'
  BY EnumLegalStep
<1>3. EnumLegalInv => TypeCatalogOK
  BY TypeCatalogFacts DEF EnumLegalInv
<1>4. EnumLegalInv /\ TypeCatalogOK /\ TypeCatalogOK' /\ [TypeLegalNext]_typeVars
        => [LabelStep]_typeVars
  BY TypeStepImplements
<1>5. TypeLegalSpec => [][LabelStep]_typeVars
  BY <1>1, <1>2, <1>3, <1>4, PTL DEF TypeLegalSpec
<1> QED
  BY <1>5 DEF LabelOrderKept, LabelStep

(* Next to the objects, the ENUM types behave as one dictionary from names *)
(* to lists of labels.                                                     *)
THEOREM EnumsImplementCatalog == TypeLegalSpec => TypesImplementCatalog
<1>1. TypeInit => EnumLegalInv
  BY EnumInitFacts DEF EnumLegalInv
<1>2. EnumLegalInv /\ [TypeLegalNext]_typeVars => EnumLegalInv'
  BY EnumLegalStep
<1>3. EnumLegalInv => TypeCatalogOK
  BY TypeCatalogFacts DEF EnumLegalInv
<1>4. EnumLegalInv /\ TypeCatalogOK /\ TypeCatalogOK' /\ [TypeLegalNext]_typeVars
        => [TypeDictionary!Next]_(TypeDictionary!vars)
  BY TypeStepImplements
<1>5. TypeInit => TypeDictionary!Init
  BY DEF TypeInit, ObjInit, TypeDictionary!Init, typeCatalog
<1> QED
  BY <1>1, <1>2, <1>3, <1>4, <1>5, PTL
  DEF TypeLegalSpec, TypesImplementCatalog, TypeDictionary!Spec
=============================================================================
