----------------------- MODULE SequenceRegistryProofs -----------------------
(***************************************************************************)
(* Proofs about SequenceRegistry, for every set of tokens and options and  *)
(* every bound.  The inductive invariant is SeqTypeOK /\ SeqIndexSound for *)
(* any statements, and it is strengthened by Complete for the statements   *)
(* PostgreSQL accepts.  The map updates are those of KeyedSlices, so each  *)
(* step comes down to one lemma of KeyedSlicesProofs and to how the step   *)
(* changes the keys of the slice.  That the emitted order is the order of  *)
(* creation, and that the registry implements Catalog, follow from what    *)
(* can be found before and after the step.                                 *)
(***************************************************************************)
EXTENDS SequenceRegistry, KeyedSlicesProofs

-----------------------------------------------------------------------------
(* Options put into a body leave at most one option of each family.        *)
LEMMA BodyAfterOptions ==
  ASSUME NEW body \in Body, NEW opts \in OptList
  PROVE  applySeqBodyOptions(body, opts) \in Body
<1>1. body \subseteq Option /\ opts \subseteq Option
  BY DEF Body, OptList
<1>2. OnePerFamily(body) /\ OnePerFamily(opts) /\ \A o \in body : Storable(o)
  BY DEF Body, OptList
<1>3. \A o, p : SameFamily(o, p) => SameFamily(p, o)
  BY DEF SameFamily
<1>4. OnePerFamily(applySeqBodyOptions(body, opts))
  BY <1>2, <1>3 DEF applySeqBodyOptions, OnePerFamily
<1>5. /\ applySeqBodyOptions(body, opts) \subseteq Option
      /\ \A o \in applySeqBodyOptions(body, opts) : Storable(o)
  BY <1>1, <1>2 DEF applySeqBodyOptions
<1> QED
  BY <1>4, <1>5 DEF Body

SeqComplete == Complete(seqIndex, seqKeys)

(* What every step needs to know of the state it starts from.              *)
LEMMA SeqStateFacts ==
  ASSUME SeqTypeOK, SeqIndexSound
  PROVE  /\ Sequences \in Seq(SequenceElement)
         /\ Len(Sequences) \in Nat
         /\ seqKeys \in Seq(NormalToken)
         /\ Len(seqKeys) = Len(Sequences)
         /\ \A k \in DOMAIN seqIndex :
              seqIndex[k] \in 1..Len(Sequences) /\ seqKeys[seqIndex[k]] = k
<1>1. Sequences \in Seq(SequenceElement) /\ Len(Sequences) \in Nat
  BY DEF SeqTypeOK
<1>2. \A e \in SequenceElement : e.Name \in Token
  BY DEF SequenceElement
<1>3. seqKeys \in Seq(NormalToken) /\ Len(seqKeys) = Len(Sequences)
  BY <1>1, <1>2, NormKeysFacts DEF seqKeys
<1> QED
  BY <1>1, <1>3 DEF SeqIndexSound, Sound

-----------------------------------------------------------------------------
(* Each handler keeps the invariant.                                       *)
LEMMA CreateStep ==
  ASSUME SeqTypeOK, SeqIndexSound, NEW v \in CreateSequenceStmt,
         applyCreateSequence(v)
  PROVE  SeqTypeOK' /\ SeqIndexSound' /\ (SeqComplete => SeqComplete')
<1> DEFINE key == normIdent(v.SeqName)
           e == [Name |-> v.SeqName, Body |-> v.Body]
<1>1. CASE RefuseSequence
  BY <1>1 DEF RefuseSequence, Refused, SeqTypeOK, SeqIndexSound, SeqComplete, seqKeys
<1>2. CASE /\ key \notin DOMAIN seqIndex
           /\ seqIndex' = Put(seqIndex, key, Len(Sequences) + 1)
           /\ Sequences' = Append(Sequences, e)
           /\ Succeed
  <2>1. e \in SequenceElement /\ key \in NormalToken
    BY DEF CreateSequenceStmt, SequenceElement, NormalToken
  <2>2. /\ Sequences' \in Seq(SequenceElement)
        /\ seqKeys' = Append(seqKeys, key)
    BY <1>2, <2>1, SeqStateFacts, NormKeysAppend DEF seqKeys
  <2>3. SeqIndexSound'
    BY <1>2, <2>1, <2>2, SeqStateFacts, AppendSound DEF SeqIndexSound
  <2>4. seqIndex' \in [DOMAIN seqIndex' -> Nat]
    BY <1>2, SeqStateFacts, PutIsFunction
  <2>5. ASSUME SeqComplete PROVE SeqComplete'
    BY <1>2, <2>1, <2>2, <2>5, SeqStateFacts, AppendComplete DEF SeqComplete
  <2> QED
    BY <1>2, <2>2, <2>3, <2>4, <2>5 DEF SeqTypeOK, Succeed
<1> QED
  BY <1>1, <1>2 DEF applyCreateSequence

(* DROP SEQUENCE keeps the invariant: the positions behind the dropped     *)
(* element move down by one.                                               *)
LEMMA DropStep ==
  ASSUME SeqTypeOK, SeqIndexSound, NEW v \in DropSequenceStmt,
         applyDropSequence(v)
  PROVE  SeqTypeOK' /\ SeqIndexSound' /\ (SeqComplete => SeqComplete')
<1> DEFINE key == normIdent(v.SeqName)
           idx == seqIndex[key]
<1>1. CASE RefuseSequence
  BY <1>1 DEF RefuseSequence, Refused, SeqTypeOK, SeqIndexSound, SeqComplete, seqKeys
<1>2. CASE UNCHANGED seqVars
  BY <1>2 DEF seqVars, SeqTypeOK, SeqIndexSound, SeqComplete, seqKeys
<1>3. CASE /\ key \in DOMAIN seqIndex
           /\ Sequences' = RemoveAt(Sequences, idx)
           /\ seqIndex' = Reindex(Delete(seqIndex, key), RemoveAt(seqKeys, idx), idx)
           /\ Succeed
  <2>1. idx \in 1..Len(Sequences) /\ idx \in Nat
    BY <1>3, SeqStateFacts
  <2>2. /\ Sequences' \in Seq(SequenceElement)
        /\ seqKeys' = RemoveAt(seqKeys, idx)
    BY <1>3, <2>1, SeqStateFacts, NormKeysRemove DEF seqKeys
  <2>3. SeqIndexSound'
    BY <1>3, <2>2, SeqStateFacts, DropSound DEF SeqIndexSound
  <2>4. Len(seqKeys') \in Nat
    BY <2>1, <2>2, SeqStateFacts, RemoveAtFacts
  <2>5. seqIndex' \in [DOMAIN seqIndex' -> Nat]
    BY <1>3, <2>1, <2>2, <2>3, <2>4, ReindexIsFunction DEF SeqIndexSound
  <2>6. ASSUME SeqComplete PROVE SeqComplete'
    BY <1>3, <2>2, <2>6, SeqStateFacts, DropComplete DEF SeqComplete, SeqIndexSound
  <2> QED
    BY <1>3, <2>2, <2>3, <2>5, <2>6 DEF SeqTypeOK, Succeed
<1> QED
  BY <1>1, <1>2, <1>3 DEF applyDropSequence

(* ALTER SEQUENCE ... RENAME TO keeps it, also onto a name in use.         *)
LEMMA RenameStep ==
  ASSUME SeqTypeOK, SeqIndexSound, NEW v \in AlterSequenceStmt,
         applyAlterSequence(v)
  PROVE  SeqTypeOK' /\ SeqIndexSound' /\ (SeqComplete /\ TargetFree(v) => SeqComplete')
<1> DEFINE oldKey == normIdent(v.SeqName)
           newKey == normIdent(v.NewName)
           idx == seqIndex[oldKey]
           e == [Sequences[idx] EXCEPT !.Name = v.NewName]
<1>1. CASE RefuseSequence
  BY <1>1 DEF RefuseSequence, Refused, SeqTypeOK, SeqIndexSound, SeqComplete, seqKeys
<1>2. CASE /\ oldKey \in DOMAIN seqIndex
           /\ Sequences' = [Sequences EXCEPT ![idx].Name = v.NewName]
           /\ seqIndex' = Put(Delete(seqIndex, oldKey), newKey, idx)
           /\ Succeed
  <2>1. idx \in 1..Len(Sequences) /\ idx \in Nat
    BY <1>2, SeqStateFacts
  <2>2. e \in SequenceElement /\ e.Name = v.NewName /\ newKey \in NormalToken
    <3>1. Sequences[idx] \in SequenceElement
      BY <2>1, SeqStateFacts, ElementOfSeq
    <3> QED
      BY <3>1 DEF SequenceElement, AlterSequenceStmt, NormalToken
  <2>3. Sequences' = [Sequences EXCEPT ![idx] = e]
    BY <1>2
  <2>4. /\ Sequences' \in Seq(SequenceElement)
        /\ seqKeys' = [seqKeys EXCEPT ![idx] = newKey]
    <3>1. Sequences \in Seq(SequenceElement)
      BY SeqStateFacts
    <3> HIDE DEF e, idx
    <3>2. /\ Replaced(Sequences, idx, e) \in Seq(SequenceElement)
          /\ normKeys(Replaced(Sequences, idx, e)) =
               Replaced(normKeys(Sequences), idx, normIdent(e.Name))
      BY <2>1, <2>2, <3>1, NormKeysReplace
    <3> QED
      BY <2>2, <2>3, <3>2 DEF seqKeys, Replaced
  <2>5. SeqIndexSound'
    BY <1>2, <2>2, <2>4, SeqStateFacts, RekeySound DEF SeqIndexSound
  <2>6. seqIndex' \in [DOMAIN seqIndex' -> Nat]
    <3>1. \A x \in DOMAIN Delete(seqIndex, oldKey) : Delete(seqIndex, oldKey)[x] \in Nat
      BY SeqStateFacts DEF Delete
    <3> QED
      BY <1>2, <2>1, <3>1, PutIsFunction
  <2>7. ASSUME SeqComplete, TargetFree(v) PROVE SeqComplete'
    BY <1>2, <2>2, <2>4, <2>7, SeqStateFacts, RekeyComplete
    DEF SeqComplete, SeqIndexSound, TargetFree
  <2> QED
    BY <1>2, <2>4, <2>5, <2>6, <2>7 DEF SeqTypeOK, Succeed
<1> QED
  BY <1>1, <1>2 DEF applyAlterSequence

(* ALTER SEQUENCE with options keeps it: the name and the position stay.   *)
LEMMA OptsStep ==
  ASSUME SeqTypeOK, SeqIndexSound, NEW v \in AlterSequenceOptsStmt,
         applyAlterSequenceOpts(v)
  PROVE  SeqTypeOK' /\ SeqIndexSound' /\ (SeqComplete => SeqComplete')
<1> DEFINE key == normIdent(v.SeqName)
           idx == seqIndex[key]
           b == applySeqBodyOptions(Sequences[idx].Body, v.Opts)
           e == [Sequences[idx] EXCEPT !.Body = b]
<1>1. CASE RefuseSequence
  BY <1>1 DEF RefuseSequence, Refused, SeqTypeOK, SeqIndexSound, SeqComplete, seqKeys
<1>2. CASE /\ key \in DOMAIN seqIndex
           /\ Sequences' = [Sequences EXCEPT ![idx].Body = b]
           /\ UNCHANGED seqIndex
           /\ Succeed
  <2>1. idx \in 1..Len(Sequences)
    BY <1>2, SeqStateFacts
  <2>2. Sequences[idx] \in SequenceElement /\ Sequences[idx].Body \in Body
    <3>1. Sequences[idx] \in SequenceElement
      BY <2>1, SeqStateFacts, ElementOfSeq
    <3> QED
      BY <3>1 DEF SequenceElement
  <2>3. b \in Body
    BY <2>2, BodyAfterOptions DEF AlterSequenceOptsStmt
  <2>4. e \in SequenceElement /\ e.Name = Sequences[idx].Name
    <3> HIDE DEF b
    <3> QED
      BY <2>2, <2>3 DEF SequenceElement
  <2>5. Sequences' = [Sequences EXCEPT ![idx] = e]
    BY <1>2
  <2>6. Sequences' \in Seq(SequenceElement) /\ seqKeys' = seqKeys
    <3>1. Sequences \in Seq(SequenceElement)
      BY SeqStateFacts
    <3> HIDE DEF e, idx
    <3>2. /\ Replaced(Sequences, idx, e) \in Seq(SequenceElement)
          /\ normKeys(Replaced(Sequences, idx, e)) = normKeys(Sequences)
      BY <2>1, <2>4, <3>1, NormKeysKeep
    <3> QED
      BY <2>5, <3>2 DEF seqKeys, Replaced
  <2> QED
    BY <1>2, <2>6 DEF SeqTypeOK, SeqIndexSound, SeqComplete, Succeed
<1> QED
  BY <1>1, <1>2 DEF applyAlterSequenceOpts

(* The empty schema satisfies the invariant.                               *)
LEMMA SeqInitFacts ==
  ASSUME SeqInit
  PROVE  SeqTypeOK /\ SeqIndexSound /\ SeqComplete
<1>1. Sequences = <<>> /\ DOMAIN seqIndex = {} /\ seqIndex = [k \in {} |-> 0]
  BY DEF SeqInit
<1>2. SeqTypeOK
  <2>1. seqIndex \in [DOMAIN seqIndex -> Nat]
    BY <1>1
  <2>2. Sequences \in Seq(SequenceElement)
    BY <1>1
  <2>3. failed \in BOOLEAN
    BY DEF SeqInit
  <2> QED
    BY <2>1, <2>2, <2>3 DEF SeqTypeOK
<1>3. DOMAIN seqKeys = {}
  BY <1>1 DEF seqKeys, normKeys
<1>4. Len(seqKeys) = 0
  BY <1>1 DEF seqKeys, normKeys
<1> QED
  BY <1>1, <1>2, <1>4 DEF SeqIndexSound, SeqComplete, Sound, Complete

(* A step that changes nothing keeps it.                                   *)
LEMMA SeqStutter ==
  ASSUME SeqTypeOK, SeqIndexSound, UNCHANGED seqVars
  PROVE  SeqTypeOK' /\ SeqIndexSound' /\ (SeqComplete => SeqComplete')
BY DEF seqVars, SeqTypeOK, SeqIndexSound, SeqComplete, seqKeys

-----------------------------------------------------------------------------
(* For any statements at all, the state of the sequences is well typed and *)
(* every entry of seqIndex leads to a sequence of that name: the handlers  *)
(* never index the slice out of range and never touch another sequence     *)
(* than the one the statement names.                                       *)
THEOREM SeqIndexAlwaysSound == SeqSpec => [](SeqTypeOK /\ SeqIndexSound)
<1>1. SeqInit => SeqTypeOK /\ SeqIndexSound
  BY SeqInitFacts
<1>2. SeqTypeOK /\ SeqIndexSound /\ [SeqNext]_seqVars
        => (SeqTypeOK /\ SeqIndexSound)'
  <2> SUFFICES ASSUME SeqTypeOK, SeqIndexSound, [SeqNext]_seqVars
               PROVE  SeqTypeOK' /\ SeqIndexSound'
    OBVIOUS
  <2>1. CASE CreateSequence
    BY <2>1, CreateStep DEF CreateSequence
  <2>2. CASE DropSequence
    BY <2>2, DropStep DEF DropSequence
  <2>3. CASE RenameSequence
    BY <2>3, RenameStep DEF RenameSequence
  <2>4. CASE AlterSequenceOpts
    BY <2>4, OptsStep DEF AlterSequenceOpts
  <2>5. CASE UNCHANGED seqVars
    BY <2>5, SeqStutter
  <2> QED
    BY <2>1, <2>2, <2>3, <2>4, <2>5 DEF SeqNext
<1> QED
  BY <1>1, <1>2, PTL DEF SeqSpec

(* What holds at every state between two statements PostgreSQL accepts.    *)
SeqInv == SeqTypeOK /\ SeqIndexSound /\ SeqComplete

(* SeqInv is inductive for those statements.                               *)
LEMMA SeqInvStep ==
  ASSUME SeqInv, [SeqLegalNext]_seqVars
  PROVE  SeqInv'
<1> USE DEF SeqInv
<1>1. CASE CreateSequence
  BY <1>1, CreateStep DEF CreateSequence
<1>2. CASE DropSequence
  BY <1>2, DropStep DEF DropSequence
<1>3. CASE RenameSequenceLegally
  BY <1>3, RenameStep DEF RenameSequenceLegally
<1>4. CASE AlterSequenceOpts
  BY <1>4, OptsStep DEF AlterSequenceOpts
<1>5. CASE UNCHANGED seqVars
  BY <1>5, SeqStutter
<1> QED
  BY <1>1, <1>2, <1>3, <1>4, <1>5 DEF SeqLegalNext

(* As long as no statement renames a sequence to a name in use, slice and  *)
(* map describe the same sequences: each one that is emitted can be found, *)
(* and no two have one name.                                               *)
THEOREM SeqIndexAlwaysCoherent == SeqLegalSpec => []SeqIndexCoherent
<1>1. SeqInit => SeqInv
  BY SeqInitFacts DEF SeqInv
<1>2. SeqInv /\ [SeqLegalNext]_seqVars => SeqInv'
  BY SeqInvStep
<1>3. SeqInv => SeqIndexCoherent
  BY DEF SeqInv, SeqIndexCoherent, SeqIndexSound, SeqComplete, Coherent
<1> QED
  BY <1>1, <1>2, <1>3, PTL DEF SeqLegalSpec

(* A sequence never has two options of one family in its body, whatever    *)
(* ALTER SEQUENCE statements were folded into it.                          *)
THEOREM OneOptionPerFamilyAlways == SeqSpec => []OneOptionPerFamily
<1>1. SeqTypeOK => OneOptionPerFamily
  <2> SUFFICES ASSUME SeqTypeOK, NEW i \in DOMAIN Sequences
               PROVE  OnePerFamily(Sequences[i].Body)
    BY DEF OneOptionPerFamily
  <2>1. Sequences[i] \in SequenceElement
    BY DEF SeqTypeOK
  <2> QED
    BY <2>1 DEF SequenceElement, Body
<1> QED
  BY <1>1, SeqIndexAlwaysSound, PTL

(* ... and well typed: what the slice holds are sequences with a body.     *)
THEOREM SequencesAlwaysTyped == SeqSpec => []SeqTypeOK
BY SeqIndexAlwaysSound, PTL

-----------------------------------------------------------------------------
(* The dictionary has a body for every name the map has an entry for.      *)
SeqCatalogOK ==
  /\ DOMAIN seqCatalog = DOMAIN seqIndex
  /\ DOMAIN seqIndex \subseteq NormalToken
  /\ \A k \in DOMAIN seqIndex :
       seqCatalog[k] = Sequences[seqIndex[k]].Body /\ seqCatalog[k] \in Body

(* The sound maps are enough for it.                                       *)
LEMMA SeqCatalogFacts ==
  ASSUME SeqInv
  PROVE  SeqCatalogOK
<1>1. ASSUME NEW k \in DOMAIN seqIndex
      PROVE  k \in NormalToken /\ Sequences[seqIndex[k]].Body \in Body
  <2>1. seqIndex[k] \in 1..Len(Sequences) /\ seqKeys[seqIndex[k]] = k
    BY SeqStateFacts DEF SeqInv
  <2>2. Sequences[seqIndex[k]] \in SequenceElement
    BY <2>1, SeqStateFacts, ElementOfSeq DEF SeqInv
  <2>3. k \in NormalToken
    BY <2>1, SeqStateFacts, ElementOfSeq DEF SeqInv
  <2> QED
    BY <2>2, <2>3 DEF SequenceElement
<1> QED
  BY <1>1 DEF seqCatalog, SeqCatalogOK

(* The positions keep their order.                                         *)
SeqOrderStep ==
  \A k, l \in DOMAIN seqIndex \cap DOMAIN seqIndex' :
    seqIndex[k] < seqIndex[l] => seqIndex'[k] < seqIndex'[l]

(* An operation of the dictionary on some names, as Catalog!Next has it.   *)
SeqOperation ==
  \/ \E k \in NormalToken :
       SeqDictionary!Define(k) \/ SeqDictionary!Redefine(k) \/ SeqDictionary!Remove(k)
  \/ \E k, new \in NormalToken : SeqDictionary!Rename(k, new)
  \/ SeqDictionary!Refuse

(* A refused statement is a refused request.                               *)
LEMMA RefuseSequenceImplements ==
  ASSUME RefuseSequence
  PROVE  SeqOrderStep /\ SeqOperation
<1>1. seqCatalog' = seqCatalog
  BY DEF RefuseSequence, seqCatalog
<1> QED
  BY <1>1 DEF RefuseSequence, Refused, SeqOrderStep, SeqOperation, SeqDictionary!Refuse

(* CREATE SEQUENCE defines one name.                                       *)
LEMMA CreateImplements ==
  ASSUME SeqInv, SeqCatalogOK, SeqCatalogOK', NEW v \in CreateSequenceStmt, applyCreateSequence(v)
  PROVE  SeqOrderStep /\ SeqOperation
<1> DEFINE key == normIdent(v.SeqName)
           x == [Name |-> v.SeqName, Body |-> v.Body]
<1>1. CASE RefuseSequence
  BY <1>1, RefuseSequenceImplements
<1>2. CASE /\ key \notin DOMAIN seqIndex
           /\ seqIndex' = Put(seqIndex, key, Len(Sequences) + 1)
           /\ Sequences' = Append(Sequences, x)
           /\ Succeed
  <2>1. /\ IsSlice(Sequences) /\ Len(seqKeys) = Len(Sequences)
        /\ Sound(seqIndex, seqKeys)
        /\ Created(Sequences, seqIndex, key, x, Sequences', seqIndex')
    BY <1>2, SeqStateFacts, SeqIsSlice DEF SeqInv, SeqIndexSound, Created
  <2>2. DOMAIN seqIndex' = DOMAIN seqIndex \cup {key}
    BY <1>2 DEF Put
  <2> HIDE DEF key, x
  <2>3. \A k \in DOMAIN seqIndex :
          seqIndex'[k] = seqIndex[k] /\ Sequences'[seqIndex'[k]] = Sequences[seqIndex[k]]
    BY <2>1, FoundAfterCreate
  <2>4. /\ DOMAIN seqCatalog = DOMAIN seqIndex /\ DOMAIN seqCatalog' = DOMAIN seqIndex'
        /\ DOMAIN seqIndex' \subseteq NormalToken
        /\ \A k \in DOMAIN seqIndex : seqCatalog'[k] = seqCatalog[k]
        /\ seqCatalog'[key] \in Body
    BY <2>2, <2>3 DEF SeqCatalogOK
  <2>5. key \in NormalToken /\ SeqDictionary!Define(key)
    BY <1>2, <2>2, <2>4 DEF SeqDictionary!Define, SeqDictionary!Untouched, Succeed
  <2>6. SeqOrderStep
    BY <1>2, <2>2, <2>3 DEF SeqOrderStep
  <2> QED
    BY <2>4, <2>5, <2>6 DEF SeqOperation
<1> QED
  BY <1>1, <1>2 DEF applyCreateSequence

(* DROP SEQUENCE removes one name, if there is one to remove.              *)
LEMMA DropImplements ==
  ASSUME SeqInv, SeqCatalogOK, SeqCatalogOK', NEW v \in DropSequenceStmt,
         applyDropSequence(v)
  PROVE  SeqOrderStep /\ (SeqOperation \/ UNCHANGED seqVars)
<1> DEFINE key == normIdent(v.SeqName)
<1>1. CASE RefuseSequence
  BY <1>1, RefuseSequenceImplements
<1>2. CASE UNCHANGED seqVars
  BY <1>2 DEF seqVars, SeqOrderStep
<1>3. CASE /\ key \in DOMAIN seqIndex
           /\ Sequences' = RemoveAt(Sequences, seqIndex[key])
           /\ seqIndex' = Reindex(Delete(seqIndex, key),
                                  RemoveAt(seqKeys, seqIndex[key]), seqIndex[key])
           /\ Succeed
  <2>1. /\ IsSlice(Sequences) /\ IsSlice(seqKeys) /\ Len(seqKeys) = Len(Sequences)
        /\ Sound(seqIndex, seqKeys) /\ Complete(seqIndex, seqKeys)
        /\ Dropped(Sequences, seqIndex, seqKeys, key, Sequences', seqIndex')
    BY <1>3, SeqStateFacts, SeqIsSlice DEF SeqInv, SeqIndexSound, SeqComplete, Dropped
  <2> HIDE DEF key
  <2>2. /\ DOMAIN seqIndex' = DOMAIN seqIndex \ {key}
        /\ \A k \in DOMAIN seqIndex' : Sequences'[seqIndex'[k]] = Sequences[seqIndex[k]]
        /\ \A k, l \in DOMAIN seqIndex' :
             seqIndex[k] < seqIndex[l] => seqIndex'[k] < seqIndex'[l]
    BY <2>1, FoundAfterDrop
  <2>3. /\ DOMAIN seqCatalog = DOMAIN seqIndex /\ DOMAIN seqCatalog' = DOMAIN seqIndex'
        /\ DOMAIN seqIndex \subseteq NormalToken
        /\ \A k \in DOMAIN seqIndex' : seqCatalog'[k] = seqCatalog[k]
    BY <2>2 DEF SeqCatalogOK
  <2>4. key \in NormalToken /\ SeqDictionary!Remove(key)
    BY <1>3, <2>2, <2>3 DEF SeqDictionary!Remove, SeqDictionary!Untouched, Succeed
  <2>5. SeqOrderStep
    BY <2>2 DEF SeqOrderStep
  <2> QED
    BY <2>4, <2>5 DEF SeqOperation
<1> QED
  BY <1>1, <1>2, <1>3 DEF applyDropSequence

(* ALTER SEQUENCE ... RENAME TO a free name carries the body over to it.   *)
LEMMA RenameImplements ==
  ASSUME SeqInv, SeqCatalogOK, SeqCatalogOK', NEW v \in AlterSequenceStmt,
         TargetFree(v), applyAlterSequence(v)
  PROVE  SeqOrderStep /\ SeqOperation
<1> DEFINE old == normIdent(v.SeqName)
           new == normIdent(v.NewName)
           p == seqIndex[old]
           x == [Sequences[p] EXCEPT !.Name = v.NewName]
<1>1. CASE RefuseSequence
  BY <1>1, RefuseSequenceImplements
<1>2. CASE /\ old \in DOMAIN seqIndex
           /\ Sequences' = [Sequences EXCEPT ![p].Name = v.NewName]
           /\ seqIndex' = Put(Delete(seqIndex, old), new, p)
           /\ Succeed
  <2>1. Renamed(Sequences, seqIndex, old, new, x, Sequences', seqIndex')
    BY <1>2 DEF Renamed, Replaced, TargetFree
  <2>2. /\ IsSlice(Sequences) /\ Len(seqKeys) = Len(Sequences)
        /\ Sound(seqIndex, seqKeys) /\ new \notin DOMAIN seqIndex
    BY SeqStateFacts, SeqIsSlice DEF SeqInv, SeqIndexSound, TargetFree
  <2>3. DOMAIN seqIndex' = (DOMAIN seqIndex \ {old}) \cup {new}
    BY <1>2 DEF Put, Delete
  <2>4. x.Body = Sequences[p].Body
    <3>1. Sequences[p] \in SequenceElement
      BY <1>2, SeqStateFacts, ElementOfSeq DEF SeqInv
    <3> QED
      BY <3>1 DEF SequenceElement
  <2> HIDE DEF old, new, x
  <2>5. /\ Sequences'[seqIndex'[new]] = x
        /\ \A k \in DOMAIN seqIndex \ {old} :
             seqIndex'[k] = seqIndex[k] /\ Sequences'[seqIndex'[k]] = Sequences[seqIndex[k]]
    BY <2>1, <2>2, FoundAfterRename
  <2>6. /\ DOMAIN seqCatalog = DOMAIN seqIndex /\ DOMAIN seqCatalog' = DOMAIN seqIndex'
        /\ DOMAIN seqIndex \subseteq NormalToken /\ DOMAIN seqIndex' \subseteq NormalToken
        /\ \A k \in DOMAIN seqIndex \ {old} : seqCatalog'[k] = seqCatalog[k]
        /\ seqCatalog'[new] = seqCatalog[old]
    BY <1>2, <2>3, <2>4, <2>5 DEF SeqCatalogOK
  <2>7. old \in NormalToken /\ new \in NormalToken /\ SeqDictionary!Rename(old, new)
    BY <1>2, <2>2, <2>3, <2>6 DEF SeqDictionary!Rename, SeqDictionary!Untouched, Succeed
  <2>8. SeqOrderStep
    BY <2>2, <2>3, <2>5 DEF SeqOrderStep
  <2> QED
    BY <2>7, <2>8 DEF SeqOperation
<1> QED
  BY <1>1, <1>2 DEF applyAlterSequence

(* ALTER SEQUENCE with options gives one name another body.                *)
LEMMA OptsImplements ==
  ASSUME SeqInv, SeqCatalogOK, SeqCatalogOK', NEW v \in AlterSequenceOptsStmt,
         applyAlterSequenceOpts(v)
  PROVE  SeqOrderStep /\ SeqOperation
<1> DEFINE key == normIdent(v.SeqName)
           p == seqIndex[key]
           x == [Sequences[p] EXCEPT !.Body = applySeqBodyOptions(@, v.Opts)]
<1>1. CASE RefuseSequence
  BY <1>1, RefuseSequenceImplements
<1>2. CASE /\ key \in DOMAIN seqIndex
           /\ Sequences' = [Sequences EXCEPT ![p].Body = applySeqBodyOptions(@, v.Opts)]
           /\ UNCHANGED seqIndex
           /\ Succeed
  <2>1. Changed(Sequences, seqIndex, key, x, Sequences')
    BY <1>2 DEF Changed, Replaced
  <2>2. /\ IsSlice(Sequences) /\ Len(seqKeys) = Len(Sequences)
        /\ Sound(seqIndex, seqKeys)
    BY SeqStateFacts, SeqIsSlice DEF SeqInv, SeqIndexSound
  <2> HIDE DEF key, x, p
  <2>3. \A k \in DOMAIN seqIndex \ {key} : Sequences'[seqIndex[k]] = Sequences[seqIndex[k]]
    BY <2>1, <2>2, FoundAfterChange
  <2>4. /\ DOMAIN seqCatalog = DOMAIN seqIndex /\ DOMAIN seqCatalog' = DOMAIN seqIndex
        /\ DOMAIN seqIndex \subseteq NormalToken
        /\ \A k \in DOMAIN seqIndex \ {key} : seqCatalog'[k] = seqCatalog[k]
        /\ seqCatalog'[key] \in Body
    <3>1. key \in DOMAIN seqIndex /\ seqIndex' = seqIndex
      BY <1>2
    <3> QED
      BY <2>3, <3>1 DEF SeqCatalogOK
  <2>5. key \in NormalToken /\ SeqDictionary!Redefine(key)
    BY <1>2, <2>4 DEF SeqDictionary!Redefine, SeqDictionary!Untouched, Succeed
  <2>6. SeqOrderStep
    BY <1>2 DEF SeqOrderStep
  <2> QED
    BY <2>5, <2>6 DEF SeqOperation
<1> QED
  BY <1>1, <1>2 DEF applyAlterSequenceOpts

(* A step the registry takes is a step of the dictionary, or changes none  *)
(* of it, and keeps the order.                                             *)
LEMMA SeqStepImplements ==
  ASSUME SeqInv, SeqCatalogOK, SeqCatalogOK', [SeqLegalNext]_seqVars
  PROVE  /\ [SeqOrderStep]_seqVars
         /\ [SeqDictionary!Next]_(SeqDictionary!vars)
<1>1. CASE UNCHANGED seqVars
  <2>1. seqCatalog' = seqCatalog
    BY <1>1 DEF seqVars, seqCatalog
  <2> QED
    BY <1>1, <2>1 DEF seqVars, SeqDictionary!vars
<1>2. CASE SeqLegalNext
  <2> DEFINE G == SeqOrderStep /\ (SeqOperation \/ UNCHANGED seqVars)
  <2>1. ASSUME CreateSequence PROVE G
    BY <2>1, CreateImplements DEF CreateSequence
  <2>2. ASSUME DropSequence PROVE G
    BY <2>2, DropImplements DEF DropSequence
  <2>3. ASSUME RenameSequenceLegally PROVE G
    BY <2>3, RenameImplements DEF RenameSequenceLegally
  <2>4. ASSUME AlterSequenceOpts PROVE G
    BY <2>4, OptsImplements DEF AlterSequenceOpts
  <2>5. G
    BY <1>2, <2>1, <2>2, <2>3, <2>4 DEF SeqLegalNext
  <2>6. ASSUME SeqOperation PROVE SeqDictionary!Next
    BY <1>2, <2>6 DEF SeqLegalNext, SeqOperation, SeqDictionary!Next
  <2> QED
    BY <1>1, <2>5, <2>6
<1> QED
  BY <1>1, <1>2

(* Sequences that stay never change places: they are emitted in the order  *)
(* of creation, whatever was dropped or renamed around them.               *)
THEOREM SeqOrderAlwaysKept == SeqLegalSpec => SeqOrderKept
<1>1. SeqInit => SeqInv
  BY SeqInitFacts DEF SeqInv
<1>2. SeqInv /\ [SeqLegalNext]_seqVars => SeqInv'
  BY SeqInvStep
<1>3. SeqInv => SeqCatalogOK
  BY SeqCatalogFacts
<1>4. SeqInv /\ SeqCatalogOK /\ SeqCatalogOK' /\ [SeqLegalNext]_seqVars
        => [SeqOrderStep]_seqVars
  BY SeqStepImplements
<1>5. SeqLegalSpec => [][SeqOrderStep]_seqVars
  BY <1>1, <1>2, <1>3, <1>4, PTL DEF SeqLegalSpec
<1> QED
  BY <1>5 DEF SeqOrderKept, SeqOrderStep

(* Slice and map together behave as one dictionary from names to bodies: a *)
(* statement defines, redefines, removes or renames the one name it gives, *)
(* or is refused, and no other sequence is lost or altered.                *)
THEOREM SequencesImplementCatalog == SeqLegalSpec => SeqImplementsCatalog
<1>1. SeqInit => SeqInv
  BY SeqInitFacts DEF SeqInv
<1>2. SeqInv /\ [SeqLegalNext]_seqVars => SeqInv'
  BY SeqInvStep
<1>3. SeqInv => SeqCatalogOK
  BY SeqCatalogFacts
<1>4. SeqInv /\ SeqCatalogOK /\ SeqCatalogOK' /\ [SeqLegalNext]_seqVars
        => [SeqDictionary!Next]_(SeqDictionary!vars)
  BY SeqStepImplements
<1>5. SeqInit => SeqDictionary!Init
  BY DEF SeqInit, SeqDictionary!Init, seqCatalog
<1> QED
  BY <1>1, <1>2, <1>3, <1>4, <1>5, PTL DEF SeqLegalSpec, SeqImplementsCatalog, SeqDictionary!Spec
=============================================================================
