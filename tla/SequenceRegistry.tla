-------------------------- MODULE SequenceRegistry --------------------------
(***************************************************************************)
(* The sequences of merger/schema: the slice Sequences, the map seqIndex   *)
(* and the handlers of CREATE, DROP, ALTER ... RENAME TO and ALTER with    *)
(* options.  The body of a sequence is the text of its options; it is kept *)
(* as the set of those options, whose order PostgreSQL ignores.            *)
(***************************************************************************)
EXTENDS KeyedSlices, Identifiers, Outcome

CONSTANTS
  Option,         \* options: records of an option kind and a value
  MaxSequences    \* bound on the length of the slice

VARIABLES
  Sequences,      \* the slice, in order of creation
  seqIndex        \* normalised name -> position in Sequences

seqVars == <<Sequences, seqIndex, failed>>

-----------------------------------------------------------------------------
(* The options of one family replace each other in a body.                 *)
seqBodySpecs ==
  [kind \in {"INCREMENT BY", "NO MINVALUE", "MINVALUE", "NO MAXVALUE",
             "MAXVALUE", "START WITH", "CACHE", "NO CYCLE", "CYCLE",
             "OWNED BY", "AS", "SET"} |->
     CASE kind = "NO MINVALUE" -> "MINVALUE"
       [] kind = "NO MAXVALUE" -> "MAXVALUE"
       [] kind = "NO CYCLE"    -> "CYCLE"
       [] OTHER                -> kind]

(* What the code stores in a body: every option of the table.  RESTART is  *)
(* not one of them, as it sets a run-time value; SET LOGGED is, although   *)
(* PostgreSQL takes it in an ALTER SEQUENCE only.                          *)
Storable(o) == o.Kind \in DOMAIN seqBodySpecs

SameFamily(o, p) ==
  Storable(o) /\ Storable(p) /\ seqBodySpecs[o.Kind] = seqBodySpecs[p.Kind]

OnePerFamily(opts) == \A o, p \in opts : SameFamily(o, p) => o = p

ASSUME OptionAssumption ==
  \A o \in Option : o.Kind \in DOMAIN seqBodySpecs \cup {"RESTART"}

(* What a CREATE SEQUENCE states, and what parseSequenceOptions returns    *)
(* for an ALTER: no option family twice.                                   *)
Body == {b \in SUBSET Option : OnePerFamily(b) /\ \A o \in b : Storable(o)}
OptList == {os \in SUBSET Option : os # {} /\ OnePerFamily(os)}

(* One option replaces every variant of its family in the body.            *)
applySeqBodyOption(body, opt) ==
  IF Storable(opt)
    THEN {o \in body : ~ SameFamily(o, opt)} \cup {opt}
    ELSE body

(* Mistakes: the options are appended to the body without looking for      *)
(* others of their family; RESTART is stored like the other options.       *)
appendSeqBodyOptions(body, opts) == body \cup {p \in opts : Storable(p)}
storeSeqBodyOptions(body, opts) ==
  {o \in body : \A p \in opts : ~ SameFamily(o, p)} \cup opts

(* The loop over the options of an ALTER.  They are of different families, *)
(* so the order of the loop does not matter.                               *)
applySeqBodyOptions(body, opts) ==
  {o \in body : \A p \in opts : ~ SameFamily(o, p)}
    \cup {p \in opts : Storable(p)}

-----------------------------------------------------------------------------
CreateSequenceStmt == [SeqName : Token, Body : Body]
DropSequenceStmt == [SeqName : Token, IfExists : BOOLEAN]
AlterSequenceStmt == [SeqName : Token, NewName : Token]
AlterSequenceOptsStmt == [SeqName : Token, Opts : OptList]

SequenceElement == [Name : Token, Body : Body]

seqKeys == normKeys(Sequences)

RefuseSequence == Refused /\ UNCHANGED <<Sequences, seqIndex>>

applyCreateSequence(v) ==
  LET key == normIdent(v.SeqName) IN
  \/ /\ key \in DOMAIN seqIndex
     /\ RefuseSequence
  \/ /\ key \notin DOMAIN seqIndex
     /\ Len(Sequences) < MaxSequences
     /\ seqIndex' = Put(seqIndex, key, Len(Sequences) + 1)
     /\ Sequences' = Append(Sequences, [Name |-> v.SeqName, Body |-> v.Body])
     /\ Succeed

(* Mistake: the last sequence is moved into the gap.                       *)
applyDropSequenceBySwap(v) ==
  LET key == normIdent(v.SeqName)
      last == Sequences[Len(Sequences)]
      idx == seqIndex[key] IN
  /\ key \in DOMAIN seqIndex
  /\ Sequences' = Front([Sequences EXCEPT ![idx] = last])
  /\ seqIndex' = Delete(Put(seqIndex, normIdent(last.Name), idx), key)
  /\ Succeed

applyDropSequence(v) ==
  LET key == normIdent(v.SeqName) IN
  \/ /\ key \notin DOMAIN seqIndex
     /\ v.IfExists
     /\ UNCHANGED seqVars
  \/ /\ key \notin DOMAIN seqIndex
     /\ ~ v.IfExists
     /\ RefuseSequence
  \/ /\ key \in DOMAIN seqIndex
     /\ LET idx == seqIndex[key] IN
        /\ Sequences' = RemoveAt(Sequences, idx)
        /\ seqIndex' = Reindex(Delete(seqIndex, key), RemoveAt(seqKeys, idx), idx)
     /\ Succeed

(* Mistake: the new name gets the position of a sequence just appended.    *)
applyAlterSequenceAtEnd(v) ==
  LET oldKey == normIdent(v.SeqName) IN
  /\ oldKey \in DOMAIN seqIndex
  /\ Sequences' = [Sequences EXCEPT ![seqIndex[oldKey]].Name = v.NewName]
  /\ seqIndex' = Put(Delete(seqIndex, oldKey), normIdent(v.NewName), Len(Sequences))
  /\ Succeed

(* RENAME TO.  The code does not look whether the new name is taken.       *)
applyAlterSequence(v) ==
  LET oldKey == normIdent(v.SeqName) IN
  \/ /\ oldKey \notin DOMAIN seqIndex
     /\ RefuseSequence
  \/ /\ oldKey \in DOMAIN seqIndex
     /\ LET idx == seqIndex[oldKey] IN
        /\ Sequences' = [Sequences EXCEPT ![idx].Name = v.NewName]
        /\ seqIndex' = Put(Delete(seqIndex, oldKey), normIdent(v.NewName), idx)
     /\ Succeed

applyAlterSequenceOpts(v) ==
  LET key == normIdent(v.SeqName) IN
  \/ /\ key \notin DOMAIN seqIndex
     /\ RefuseSequence
  \/ /\ key \in DOMAIN seqIndex
     /\ Sequences' = [Sequences EXCEPT ![seqIndex[key]].Body =
                        applySeqBodyOptions(@, v.Opts)]
     /\ UNCHANGED seqIndex
     /\ Succeed

-----------------------------------------------------------------------------
SeqInit ==
  /\ Sequences = <<>>
  /\ seqIndex = [k \in {} |-> 0]
  /\ failed = FALSE

(* ALTER SEQUENCE ... RENAME TO a name that no sequence has: the only one  *)
(* PostgreSQL accepts.                                                     *)
TargetFree(v) == normIdent(v.NewName) \notin DOMAIN seqIndex

CreateSequence == \E v \in CreateSequenceStmt : applyCreateSequence(v)
DropSequence == \E v \in DropSequenceStmt : applyDropSequence(v)
RenameSequence == \E v \in AlterSequenceStmt : applyAlterSequence(v)
RenameSequenceLegally ==
  \E v \in AlterSequenceStmt : TargetFree(v) /\ applyAlterSequence(v)
AlterSequenceOpts == \E v \in AlterSequenceOptsStmt : applyAlterSequenceOpts(v)

(* Any statement at all, and the statements PostgreSQL would not refuse    *)
(* because of a taken name.                                                *)
SeqNext ==
  /\ ~ failed
  /\ CreateSequence \/ DropSequence \/ RenameSequence \/ AlterSequenceOpts

SeqLegalNext ==
  /\ ~ failed
  /\ CreateSequence \/ DropSequence \/ RenameSequenceLegally \/ AlterSequenceOpts

SeqSpec == SeqInit /\ [][SeqNext]_seqVars
SeqLegalSpec == SeqInit /\ [][SeqLegalNext]_seqVars

-----------------------------------------------------------------------------
(* Type invariant: the slice holds sequences, the map goes from names to   *)
(* positions.                                                              *)
SeqTypeOK ==
  /\ Sequences \in Seq(SequenceElement)
  /\ seqIndex \in [DOMAIN seqIndex -> Nat]
  /\ failed \in BOOLEAN

(* Whatever statements came, legal or not, an entry of seqIndex points at  *)
(* a sequence of that name: s.Sequences[idx] never panics and never        *)
(* changes another sequence.  After a rename onto a name in use two        *)
(* elements share a key and the map has fewer entries than the slice, and  *)
(* still each re-index leaves every entry at an element of its name.       *)
SeqIndexSound == Sound(seqIndex, seqKeys)

(* When no statement took a name that was in use, every sequence that will *)
(* be emitted is also found under its name, so it can still be altered,    *)
(* renamed and dropped, and no two emitted sequences share a name.         *)
SeqIndexCoherent == Coherent(seqIndex, seqKeys)

(* A body never holds two variants of one option (as MINVALUE 1 and        *)
(* NO MINVALUE): PostgreSQL refuses such a CREATE SEQUENCE.                *)
OneOptionPerFamily ==
  \A i \in DOMAIN Sequences : OnePerFamily(Sequences[i].Body)

(* A step never swaps two sequences that it leaves in place: they are      *)
(* emitted in the order of creation, however many others were dropped or   *)
(* renamed around them.                                                    *)
SeqOrderKept ==
  [][\A k, l \in DOMAIN seqIndex \cap DOMAIN seqIndex' :
       seqIndex[k] < seqIndex[l] => seqIndex'[k] < seqIndex'[l]]_seqVars

(* The registry as a dictionary.  Every handler is one operation of it.    *)
seqCatalog == [k \in DOMAIN seqIndex |-> Sequences[seqIndex[k]].Body]

SeqDictionary == INSTANCE Catalog
  WITH Key <- NormalToken, Definition <- Body,
       catalog <- seqCatalog, failed <- failed

(* The slice and the map together behave as one dictionary: dropping or    *)
(* renaming one sequence neither loses nor alters another.                 *)
SeqImplementsCatalog == SeqDictionary!Spec
=============================================================================
