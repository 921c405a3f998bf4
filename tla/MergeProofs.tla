---------------------------- MODULE MergeProofs ----------------------------
(***************************************************************************)
(* The merge for every input directory and every content of its files.     *)
(*                                                                         *)
(* First the order of the input files.  A file's place in the sorted list  *)
(* is the number of files that are less; that every place is taken, and by *)
(* one file only, is a matter of counting: a total order on a finite set   *)
(* gives its elements different ranks.                                     *)
(*                                                                         *)
(* Then the schema, from the lemmas of the registries: what each handler   *)
(* keeps of its own slices and maps, and that the type switch of Apply     *)
(* hands a statement to one handler, which leaves the others alone.  Then  *)
(* that the sections of Emit together print all that is kept verbatim.     *)
(*                                                                         *)
(* Last the order of the output: what makes a schema one whose sections    *)
(* stand in order (UsesPlaced), that Emit keeps that order, and that every *)
(* handler keeps it in the schema, as long as the statements refer to what *)
(* there is.                                                               *)
(***************************************************************************)
EXTENDS Merge, SequenceRegistryProofs, TypeRegistryProofs, TableRegistryProofs,
        FiniteSetTheorems, TLAPS

(* The files of a directory that are merged, and how many come before one. *)
SqlFiles(dir) == {f \in dir : f.IsSql}
Earlier(found, f) == {g \in found : FileLess(g, f)}
Rank(found, f) == Cardinality(Earlier(found, f))

(* FileLess is a strict total order, however the numbers are clamped.      *)
LEMMA FileOrder ==
  ASSUME NEW dir, IsListing(dir)
  PROVE  /\ \A f \in dir : ~ FileLess(f, f)
         /\ \A f, g \in dir : f # g => FileLess(f, g) \/ FileLess(g, f)
         /\ \A f, g, h \in dir : FileLess(f, g) /\ FileLess(g, h) => FileLess(f, h)
<1>1. \A f \in dir : f.Name \in Nat /\ Atoi(f.Digits) \in Nat
  BY MergeAssumption DEF IsListing, Atoi
<1>2. \A f, g \in dir : f # g => f.Name # g.Name
  BY DEF IsListing
<1> QED
  BY <1>1, <1>2 DEF FileLess

(* Fewer files come before the lesser of two files.                        *)
LEMMA RankFollowsOrder ==
  ASSUME NEW dir, IsListing(dir), NEW found, found = SqlFiles(dir),
         NEW f \in found, NEW g \in found, FileLess(f, g)
  PROVE  Rank(found, f) < Rank(found, g)
<1>1. found \subseteq dir /\ IsFiniteSet(found)
  BY FS_Subset DEF SqlFiles, IsListing
<1>2. Earlier(found, f) \subseteq Earlier(found, g)
        /\ f \in Earlier(found, g) /\ f \notin Earlier(found, f)
  BY <1>1, FileOrder DEF Earlier
<1>3. IsFiniteSet(Earlier(found, g))
  BY <1>1, FS_Subset DEF Earlier
<1>4. /\ Rank(found, f) <= Rank(found, g)
      /\ Rank(found, g) = Rank(found, f) => Earlier(found, g) = Earlier(found, f)
      /\ IsFiniteSet(Earlier(found, f))
  BY <1>2, <1>3, FS_Subset DEF Rank
<1>5. Rank(found, f) \in Nat /\ Rank(found, g) \in Nat
  BY <1>3, <1>4, FS_CardinalityType DEF Rank
<1> QED
  BY <1>2, <1>4, <1>5

(* The ranks of n files are the numbers below n.                           *)
LEMMA RanksAreAllTaken ==
  ASSUME NEW dir, IsListing(dir), NEW found, found = SqlFiles(dir)
  PROVE  /\ Cardinality(found) \in Nat
         /\ \A f \in found : Rank(found, f) \in 0..(Cardinality(found) - 1)
         /\ \A i \in 0..(Cardinality(found) - 1) : \E f \in found : Rank(found, f) = i
<1> DEFINE n == Cardinality(found)
           places == 0..(n - 1)
           rank == [f \in found |-> Rank(found, f)]
<1>1. found \subseteq dir /\ IsFiniteSet(found) /\ n \in Nat
  BY FS_Subset, FS_CardinalityType DEF SqlFiles, IsListing
<1> HIDE DEF n
<1>2. ASSUME NEW f \in found PROVE Rank(found, f) \in places
  <2>1. Earlier(found, f) \subseteq found /\ f \in found /\ f \notin Earlier(found, f)
    BY <1>1, FileOrder DEF Earlier
  <2>2. /\ IsFiniteSet(Earlier(found, f))
        /\ Rank(found, f) <= n
        /\ n = Rank(found, f) => found = Earlier(found, f)
    BY <1>1, <2>1, FS_Subset DEF Rank, n
  <2>3. Rank(found, f) \in Nat
    BY <2>2, FS_CardinalityType DEF Rank
  <2> QED
    BY <1>1, <2>1, <2>2, <2>3
<1>3. \A f, g \in found : Rank(found, f) = Rank(found, g) => f = g
  <2> SUFFICES ASSUME NEW f \in found, NEW g \in found, f # g
               PROVE  Rank(found, f) # Rank(found, g)
    OBVIOUS
  <2>1. Rank(found, f) \in Nat /\ Rank(found, g) \in Nat
    BY <1>1, <1>2
  <2>2. CASE FileLess(f, g)
    BY <2>1, <2>2, RankFollowsOrder
  <2>3. CASE FileLess(g, f)
    BY <2>1, <2>3, RankFollowsOrder
  <2> QED
    BY <1>1, <2>2, <2>3, FileOrder
<1>4. rank \in Injection(found, places)
  BY <1>2, <1>3 DEF Injection, IsInjective
<1>5. IsFiniteSet(places) /\ Cardinality(places) = n
  BY <1>1, FS_Interval
<1>6. rank \in Surjection(found, places)
  <2> HIDE DEF rank, places
  <2> QED
    BY <1>4, <1>5, FS_Injection DEF n
<1>7. \A i \in places : \E f \in found : rank[f] = i
  BY <1>6 DEF Surjection
<1> QED
  BY <1>1, <1>2, <1>7 DEF n

-----------------------------------------------------------------------------
(* Of two files of the list the lesser one comes first.                    *)
Sorted(s) == \A i, j \in DOMAIN s : i < j => FileLess(s[i], s[j])

(* The list is sorted, and every SQL file of the directory is in it.       *)
LEMMA SortedListing ==
  ASSUME NEW dir, IsListing(dir), NEW s, s = sortedSQLFiles(dir)
  PROVE  /\ s \in Seq(SqlFiles(dir))
         /\ Sorted(s)
         /\ \A f \in SqlFiles(dir) : \E i \in DOMAIN s : s[i] = f
<1> DEFINE found == SqlFiles(dir)
           n == Cardinality(found)
<1>1. n \in Nat /\ found \subseteq dir
  BY RanksAreAllTaken DEF SqlFiles
<1>2. s = [i \in 1..n |-> CHOOSE f \in found : Rank(found, f) = i - 1]
  BY DEF sortedSQLFiles, SqlFiles, Rank, Earlier
<1> HIDE DEF n
<1>3. ASSUME NEW i \in 1..n
      PROVE  s[i] \in found /\ Rank(found, s[i]) = i - 1
  <2>1. i - 1 \in 0..(n - 1)
    BY <1>1
  <2>2. \E f \in found : Rank(found, f) = i - 1
    BY <2>1, RanksAreAllTaken DEF n
  <2>3. s[i] = CHOOSE f \in found : Rank(found, f) = i - 1
    BY <1>2
  <2> HIDE DEF found
  <2> QED
    BY <2>2, <2>3
<1>4. s \in Seq(found) /\ DOMAIN s = 1..n
  <2>1. s \in [1..n -> found]
    <3> HIDE DEF found
    <3> QED
      BY <1>2, <1>3
  <2> HIDE DEF found
  <2> QED
    BY <1>1, <2>1
<1>5. Sorted(s)
  <2> SUFFICES ASSUME NEW i \in 1..n, NEW j \in 1..n, i < j
               PROVE  FileLess(s[i], s[j])
    BY <1>4 DEF Sorted
  <2>1. Rank(found, s[i]) < Rank(found, s[j])
    BY <1>1, <1>3
  <2>2. s[i] # s[j]
    BY <1>1, <1>3, <2>1
  <2>3. ~ FileLess(s[j], s[i])
    <3> SUFFICES ASSUME FileLess(s[j], s[i]) PROVE FALSE
      OBVIOUS
    <3>1. Rank(found, s[j]) < Rank(found, s[i])
      BY <1>3, RankFollowsOrder
    <3> QED
      BY <1>1, <1>3, <2>1, <3>1
  <2> QED
    BY <1>1, <1>3, <2>2, <2>3, FileOrder
<1>6. ASSUME NEW f \in found PROVE \E i \in 1..n : s[i] = f
  <2>1. Rank(found, f) \in 0..(n - 1)
    BY RanksAreAllTaken DEF n
  <2> DEFINE i == Rank(found, f) + 1
  <2>2. i \in 1..n /\ Rank(found, s[i]) = Rank(found, f) /\ s[i] \in found
    BY <1>1, <1>3, <2>1
  <2> HIDE DEF i
  <2>3. CASE s[i] = f
    BY <2>2, <2>3
  <2>4. CASE s[i] # f
    <3>1. FileLess(s[i], f) \/ FileLess(f, s[i])
      BY <1>1, <2>2, <2>4, FileOrder
    <3>2. Rank(found, s[i]) # Rank(found, f)
      BY <1>1, <2>1, <2>2, <3>1, RankFollowsOrder
    <3> QED
      BY <2>2, <3>2
  <2> QED
    BY <2>3, <2>4
<1> QED
  BY <1>4, <1>5, <1>6

-----------------------------------------------------------------------------
(* The files that are still to be read are files of the directory, sorted, *)
(* and none is left when the output is written.                            *)
RunInv ==
  /\ IsListing(directory)
  /\ files \in Seq(SqlFiles(directory))
  /\ Sorted(files)
  /\ phase = "written" => files = <<>>

(* The directory of the second run holds the output only.                  *)
LEMMA OutputDirectory ==
  IsListing({[Name |-> 1, Digits |-> 1, IsSql |-> TRUE]})
<1> DEFINE f == [Name |-> 1, Digits |-> 1, IsSql |-> TRUE]
<1>1. f.Name \in Nat /\ f.Digits \in Nat /\ f.IsSql \in BOOLEAN
  OBVIOUS
<1> HIDE DEF f
<1>2. IsFiniteSet({f})
  BY FS_Singleton
<1>3. IsListing({f})
  BY <1>1, <1>2 DEF IsListing
<1> QED
  BY <1>3 DEF f

(* The list is empty before the directory is read.                         *)
LEMMA RunInit == MergeInit => RunInv
<1> SUFFICES ASSUME MergeInit PROVE RunInv
  OBVIOUS
<1>1. directory \in Directory /\ files = <<>> /\ phase = "listing"
  BY DEF MergeInit
<1>2. <<>> \in Seq(SqlFiles(directory)) /\ Sorted(<<>>)
  BY DEF Sorted
<1> QED
  BY <1>1, <1>2, MergeAssumption DEF RunInv

(* Only List, ReadFile and Remerge touch the directory and the files.      *)
LEMMA RunStep == RunInv /\ [MergeNext]_mergeVars => RunInv'
<1> SUFFICES ASSUME RunInv, [MergeNext]_mergeVars PROVE RunInv'
  OBVIOUS
<1> DEFINE S == SqlFiles(directory)
<1>1. CASE UNCHANGED <<directory, files>> /\ (phase' = phase \/ files = <<>>)
  BY <1>1 DEF RunInv
<1>2. CASE List
  <2>1. CASE UNCHANGED <<phase, files>>
    BY <1>2, <1>1, <2>1 DEF List
  <2>2. CASE files' = sortedSQLFiles(directory)
    BY <1>2, <2>2, SortedListing DEF List, RunInv
  <2> QED
    BY <1>2, <2>1, <2>2 DEF List
<1>3. CASE ReadFile
  <2>1. /\ directory' = directory /\ phase' = "merging"
        /\ files # <<>> /\ files' = Tail(files)
    BY <1>3 DEF ReadFile
  <2>2. files \in Seq(S)
    BY DEF RunInv
  <2> HIDE DEF S
  <2>3. /\ Tail(files) \in Seq(S)
        /\ DOMAIN Tail(files) = 1..(Len(files) - 1) /\ Len(files) \in Nat
        /\ \A i \in 1..(Len(files) - 1) : Tail(files)[i] = files[i + 1]
    BY <2>1, <2>2
  <2>4. Sorted(Tail(files))
    BY <2>2, <2>3 DEF RunInv, Sorted
  <2> QED
    BY <2>1, <2>3, <2>4 DEF RunInv, S
<1>4. CASE ApplyText
  BY <1>1, <1>4 DEF ApplyText
<1>5. CASE Write
  BY <1>1, <1>5 DEF Write
<1>6. CASE Remerge
  <2>1. files' = <<>> /\ phase' = "listing"
        /\ directory' = {[Name |-> 1, Digits |-> 1, IsSql |-> TRUE]}
    BY <1>6 DEF Remerge, RunInv
  <2>2. <<>> \in Seq(SqlFiles(directory')) /\ Sorted(<<>>)
    BY DEF Sorted
  <2> QED
    BY <2>1, <2>2, OutputDirectory DEF RunInv
<1> QED
  BY <1>1, <1>2, <1>3, <1>4, <1>5, <1>6 DEF MergeNext, Run, mergeVars, runVars

(* The numbers in front of the names are within the range of an int, of 64 *)
(* bits where Go runs today: at most 18 digits.  Behind that strconv.Atoi  *)
(* returns the largest int, and the names decide alone.                    *)
NumbersFit == \A dir \in Directory : \A f \in dir : f.Digits <= MaxInt

FilesFit == \A f \in directory : f.Digits <= MaxInt

(* The directory of the second run has one file, number 1.                 *)
LEMMA FitStep ==
  FilesFit /\ [MergeNext]_mergeVars => FilesFit'
<1> SUFFICES ASSUME FilesFit, [MergeNext]_mergeVars PROVE FilesFit'
  OBVIOUS
<1>1. CASE UNCHANGED directory
  BY <1>1 DEF FilesFit
<1>2. CASE directory' = {[Name |-> 1, Digits |-> 1, IsSql |-> TRUE]}
  BY <1>2, MergeAssumption DEF FilesFit
<1> QED
  BY <1>1, <1>2 DEF MergeNext, Run, mergeVars, runVars, List, ReadFile, ApplyText,
                    Write, Remerge

(* Sorted by FileLess and within range is sorted by the numbers.           *)
LEMMA SortedByNumbers == RunInv /\ FilesFit => NumericOrder
<1> SUFFICES ASSUME RunInv, FilesFit, NEW i \in DOMAIN files, NEW j \in DOMAIN files,
                    i < j
             PROVE  \/ files[i].Digits < files[j].Digits
                    \/ /\ files[i].Digits = files[j].Digits
                       /\ files[i].Name < files[j].Name
  BY DEF NumericOrder
<1>1. files[i] \in directory /\ files[j] \in directory
  BY DEF RunInv, SqlFiles
<1>2. Atoi(files[i].Digits) = files[i].Digits /\ Atoi(files[j].Digits) = files[j].Digits
  BY <1>1, MergeAssumption DEF Atoi, FilesFit, RunInv, IsListing
<1> QED
  BY <1>2 DEF RunInv, Sorted, FileLess

(* The files are read in the ascending order of their numbers, and of two  *)
(* files with one number the name decides, whatever the directory holds    *)
(* besides and in whatever order it is listed.                             *)
THEOREM FilesAlwaysInOrder ==
  ASSUME NumbersFit
  PROVE  MergeSpec => []NumericOrder
<1>1. MergeInit => RunInv /\ FilesFit
  BY RunInit DEF MergeInit, FilesFit, NumbersFit
<1>2. RunInv /\ FilesFit /\ [MergeNext]_mergeVars => RunInv' /\ FilesFit'
  BY RunStep, FitStep
<1>3. RunInv /\ FilesFit => NumericOrder
  BY SortedByNumbers
<1> QED
  BY <1>1, <1>2, <1>3, PTL DEF MergeSpec

(* Whatever the numbers, clamped ones included, the list of a directory    *)
(* holds each of its SQL files once: none is merged twice or left out.     *)
THEOREM EveryFileListedOnce ==
  ASSUME NEW dir, IsListing(dir), NEW f, f \in SqlFiles(dir)
  PROVE  \E i \in DOMAIN sortedSQLFiles(dir) :
           /\ sortedSQLFiles(dir)[i] = f
           /\ \A j \in DOMAIN sortedSQLFiles(dir) : sortedSQLFiles(dir)[j] = f => j = i
<1> DEFINE s == sortedSQLFiles(dir)
<1>1. /\ s \in Seq(SqlFiles(dir)) /\ Sorted(s)
      /\ \E i \in DOMAIN s : s[i] = f
  BY SortedListing
<1>2. ~ FileLess(f, f)
  BY FileOrder DEF SqlFiles
<1> HIDE DEF s
<1>3. PICK i \in DOMAIN s : s[i] = f
  BY <1>1
<1>4. ASSUME NEW j \in DOMAIN s, s[j] = f, j # i PROVE FALSE
  <2>1. i \in Nat /\ j \in Nat
    BY <1>1
  <2>2. i < j \/ j < i
    BY <1>4, <2>1
  <2> QED
    BY <1>1, <1>2, <1>3, <1>4, <2>2 DEF Sorted
<1> QED
  BY <1>3, <1>4 DEF s

-----------------------------------------------------------------------------
(* The schema of the first run.  A handler keeps the invariants of its own *)
(* registry by the lemmas of the registries' modules; here it is that it   *)
(* leaves the others alone, and that they share the outcome.               *)
SchemaInv == SeqTypeOK /\ SeqIndexSound /\ EnumInv /\ TableInv
SchemaFull == SeqComplete /\ EnumComplete /\ TableFull

SchemaKept(s) ==
  /\ SchemaInv'
  /\ SchemaFull /\ RenamesToFreeName(s) => SchemaFull'

(* The sequences do not see a statement on something else.                 *)
LEMMA SequencesKept ==
  ASSUME SeqTypeOK, SeqIndexSound, UNCHANGED seqOnlyVars, failed' \in BOOLEAN
  PROVE  SeqTypeOK' /\ SeqIndexSound' /\ (SeqComplete => SeqComplete')
BY DEF seqOnlyVars, SeqTypeOK, SeqIndexSound, SeqComplete, seqKeys

(* Neither do the tables see one on a type or an object.                   *)
LEMMA TablesBesideObjects ==
  ASSUME TableInv, ObjInv', UNCHANGED <<tableOnlyVars, indexVars, truncVars>>
  PROVE  /\ TableInv'
         /\ TableFull /\ ObjComplete' => TableFull'
<1>1. UNCHANGED tableOnlyVars /\ UNCHANGED indexVars /\ UNCHANGED truncVars
  OBVIOUS
<1> QED
  BY <1>1, TablesKept, IndexesKept, TruncatesKept DEF TableInv, TableFull

(* The four arms of the type switch.                                       *)
LEMMA ApplySequenceStep ==
  ASSUME SchemaInv, NEW s, IsStatement(s), ApplySequence(s)
  PROVE  SchemaKept(s)
<1> DEFINE Goal == /\ SeqTypeOK' /\ SeqIndexSound'
                   /\ SeqComplete /\ RenamesToFreeName(s) => SeqComplete'
<1>0. SeqTypeOK /\ SeqIndexSound /\ EnumInv /\ TableInv
  BY DEF SchemaInv
<1>1. Goal
  <2>1. CASE s.Type = "CreateSequence" /\ applyCreateSequence(s.V)
    <3>1. s.V \in CreateSequenceStmt
      BY <2>1 DEF IsStatement
    <3> QED
      BY <1>0, <2>1, <3>1, CreateStep
  <2>2. CASE s.Type = "DropSequence" /\ applyDropSequence(s.V)
    <3>1. s.V \in DropSequenceStmt
      BY <2>2 DEF IsStatement
    <3> QED
      BY <1>0, <2>2, <3>1, DropStep
  <2>3. CASE s.Type = "AlterSequence" /\ applyAlterSequence(s.V)
    <3>1. s.V \in AlterSequenceStmt
      BY <2>3 DEF IsStatement
    <3> QED
      BY <1>0, <2>3, <3>1, RenameStep DEF RenamesToFreeName
  <2>4. CASE s.Type = "AlterSequenceOpts" /\ applyAlterSequenceOpts(s.V)
    <3>1. s.V \in AlterSequenceOptsStmt
      BY <2>4 DEF IsStatement
    <3> QED
      BY <1>0, <2>4, <3>1, OptsStep
  <2> QED
    BY <2>1, <2>2, <2>3, <2>4 DEF ApplySequence
<1>2. failed' \in BOOLEAN
  BY <1>1 DEF SeqTypeOK
<1>3. /\ UNCHANGED enumVars
      /\ UNCHANGED <<tableOnlyVars, indexVars, truncVars, objOnlyVars>>
  BY DEF ApplySequence
<1>4. EnumInv' /\ (EnumComplete => EnumComplete')
  BY <1>0, <1>3, EnumStutter
<1>5. TableInv' /\ (TableFull => TableFull')
  BY <1>0, <1>2, <1>3, NothingDefined DEF Kept
<1> QED
  BY <1>1, <1>4, <1>5 DEF SchemaKept, SchemaInv, SchemaFull

(* The statements on types change the ENUM types or the objects.           *)
LEMMA ApplyTypeStep ==
  ASSUME PlainTokens, SchemaInv, NEW s, IsStatement(s), ApplyType(s)
  PROVE  SchemaKept(s)
<1> DEFINE Goal == /\ EnumInv' /\ ObjInv'
                   /\ EnumComplete /\ RenamesToFreeName(s) => EnumComplete'
                   /\ ObjComplete /\ RenamesToFreeName(s) => ObjComplete'
<1>0. SeqTypeOK /\ SeqIndexSound /\ EnumInv /\ TableInv /\ ObjInv
  BY DEF SchemaInv, TableInv
<1>1. Goal
  <2>1. CASE s.Type = "CreateType" /\ applyCreateType(s.V)
    <3>1. s.V \in CreateTypeStmt
      BY <2>1 DEF IsStatement
    <3>2. CreateType
      BY <2>1, <3>1 DEF CreateType
    <3> QED
      BY <1>0, <2>1, <3>1, <3>2, CreateTypeStep, EnumStatementObjects
  <2>2. CASE s.Type = "DropType" /\ applyDropType(s.V)
    <3>1. s.V \in DropTypeStmt
      BY <2>2 DEF IsStatement
    <3> QED
      BY <1>0, <2>2, <3>1, DropTypeStep, DropTypeObjects
  <2>3. CASE s.Type = "AlterTypeAddValue" /\ alterTypeAddValue(s.V)
    <3>1. s.V \in AddValueStmt
      BY <2>3 DEF IsStatement
    <3>2. AddValue
      BY <2>3, <3>1 DEF AddValue
    <3> QED
      BY <1>0, <2>3, <3>1, <3>2, AddValueStep, EnumStatementObjects
  <2>4. CASE s.Type = "AlterTypeRenameValue" /\ alterTypeRenameValue(s.V)
    <3>1. s.V \in RenameValueStmt
      BY <2>4 DEF IsStatement
    <3>2. RenameValue
      BY <2>4, <3>1 DEF RenameValue
    <3> QED
      BY <1>0, <2>4, <3>1, <3>2, RenameValueStep, EnumStatementObjects
  <2>5. CASE s.Type = "AlterTypeRenameTo" /\ alterTypeRenameTo(s.V)
    <3>1. s.V \in RenameTypeStmt
      BY <2>5 DEF IsStatement
    <3>2. RenamesToFreeName(s) =>
            TypeNameFree(s.V.NewName) /\ normIdent(s.V.NewName) \notin DOMAIN typeIndex
      BY <2>5 DEF RenamesToFreeName, TypeNameFree
    <3> QED
      BY <1>0, <2>5, <3>1, <3>2, RenameTypeStep, RenameTypeObjects
  <2> QED
    BY <2>1, <2>2, <2>3, <2>4, <2>5 DEF ApplyType
<1>2. failed' \in BOOLEAN
  BY <1>1 DEF ObjInv
<1>3. UNCHANGED seqOnlyVars /\ UNCHANGED <<tableOnlyVars, indexVars, truncVars>>
  BY DEF ApplyType
<1>4. SeqTypeOK' /\ SeqIndexSound' /\ (SeqComplete => SeqComplete')
  BY <1>0, <1>2, <1>3, SequencesKept
<1>5. TableInv' /\ (TableFull /\ ObjComplete' => TableFull')
  BY <1>0, <1>1, <1>3, TablesBesideObjects
<1> QED
  BY <1>1, <1>4, <1>5 DEF SchemaKept, SchemaInv, SchemaFull, TableFull

(* The statements on tables and indexes change the objects too: a          *)
(* partition is one.                                                       *)
LEMMA ApplyTableStep ==
  ASSUME SchemaInv, NEW s, IsStatement(s), ApplyTable(s)
  PROVE  SchemaKept(s)
<1> DEFINE Goal == /\ TableInv'
                   /\ TableFull /\ RenamesToFreeName(s) => TableFull'
<1>0. SeqTypeOK /\ SeqIndexSound /\ EnumInv /\ TableInv
  BY DEF SchemaInv
<1>1. Goal
  <2>1. CASE s.Type = "CreateTable" /\ applyCreateTable(s.V)
    <3>1. s.V \in CreateTableStmt
      BY <2>1 DEF IsStatement
    <3> QED
      BY <1>0, <2>1, <3>1, CreateTableStep DEF Kept
  <2>2. CASE s.Type = "AlterTable" /\ applyAlterTable(s.V)
    <3>1. s.V \in AlterTableStmt
      BY <2>2 DEF IsStatement
    <3> QED
      BY <1>0, <2>2, <3>1, AlterTableStep DEF Kept
  <2>3. CASE s.Type = "AlterTableRenameTo" /\ applyRenameTo(s.V)
    <3>1. s.V \in RenameTableStmt
      BY <2>3 DEF IsStatement
    <3> QED
      BY <1>0, <2>3, <3>1, RenameTableStep DEF RenamesToFreeName
  <2>4. CASE s.Type = "DropTable" /\ applyDropTable(s.V)
    <3>1. s.V \in DropTableStmt
      BY <2>4 DEF IsStatement
    <3> QED
      BY <1>0, <2>4, <3>1, DropTableStep DEF Kept
  <2>5. CASE s.Type = "CreateIndex" /\ applyCreateIndex(s.V)
    <3>1. s.V \in CreateIndexStmt
      BY <2>5 DEF IsStatement
    <3> QED
      BY <1>0, <2>5, <3>1, CreateIndexStep
  <2>6. CASE s.Type = "DropIndex" /\ applyDropIndex(s.V)
    <3>1. s.V \in DropIndexStmt
      BY <2>6 DEF IsStatement
    <3> QED
      BY <1>0, <2>6, <3>1, DropIndexStep DEF Kept
  <2>7. CASE s.Type = "AlterIndex" /\ applyAlterIndex(s.V)
    <3>1. s.V \in AlterIndexStmt
      BY <2>7 DEF IsStatement
    <3> QED
      BY <1>0, <2>7, <3>1, RenameIndexStep DEF RenamesToFreeName
  <2>8. CASE s.Type = "Truncate" /\ applyTruncate(s.V)
    <3>1. s.V \in TruncateStmt
      BY <2>8 DEF IsStatement
    <3> QED
      BY <1>0, <2>8, <3>1, TruncateStep DEF Kept
  <2> QED
    BY <2>1, <2>2, <2>3, <2>4, <2>5, <2>6, <2>7, <2>8 DEF ApplyTable
<1>2. failed' \in BOOLEAN
  BY <1>1 DEF TableInv, ObjInv
<1>3. UNCHANGED seqOnlyVars /\ UNCHANGED enumVars
  BY DEF ApplyTable
<1>4. SeqTypeOK' /\ SeqIndexSound' /\ (SeqComplete => SeqComplete')
  BY <1>0, <1>2, <1>3, SequencesKept
<1>5. EnumInv' /\ (EnumComplete => EnumComplete')
  BY <1>0, <1>3, EnumStutter
<1> QED
  BY <1>1, <1>4, <1>5 DEF SchemaKept, SchemaInv, SchemaFull

(* The statements that are kept verbatim, or passed through.               *)
LEMMA ApplyObjectStep ==
  ASSUME SchemaInv, NEW s, IsStatement(s), ApplyObject(s)
  PROVE  SchemaKept(s)
<1> DEFINE Goal == /\ ObjInv'
                   /\ ObjComplete /\ RenamesToFreeName(s) => ObjComplete'
<1>0. SeqTypeOK /\ SeqIndexSound /\ EnumInv /\ TableInv /\ ObjInv
  BY DEF SchemaInv, TableInv
<1>1. Goal
  <2>1. CASE s.Type = "CreateObject" /\ applyCreateObject(s.V)
    <3>1. s.V \in CreateObjectStmt
      BY <2>1 DEF IsStatement
    <3> QED
      BY <1>0, <2>1, <3>1, CreateObjectStep
  <2>2. CASE s.Type = "DropObject" /\ applyDropObject(s.V)
    <3>1. s.V \in DropObjectStmt
      BY <2>2 DEF IsStatement
    <3> QED
      BY <1>0, <2>2, <3>1, DropObjectStep
  <2>3. CASE s.Type = "AlterObject" /\ applyAlterObject(s.V)
    <3>1. s.V \in AlterObjectStmt
      BY <2>3 DEF IsStatement
    <3> QED
      BY <1>0, <2>3, <3>1, RenameObjectStep DEF RenamesToFreeName
  <2>4. CASE s.Type = "AlterFunctionOpts" /\ applyAlterFunctionOpts(s.V)
    <3>1. s.V \in AlterFunctionOptsStmt
      BY <2>4 DEF IsStatement
    <3> QED
      BY <1>0, <2>4, <3>1, OtherObjectStep DEF ObjOther, AlterFunctionOpts
  <2>5. CASE s.Type = "AlterObjectOpts" /\ applyAlterObjectOpts(s.V)
    <3>1. s.V \in AlterObjectOptsStmt
      BY <2>5 DEF IsStatement
    <3> QED
      BY <1>0, <2>5, <3>1, OtherObjectStep DEF ObjOther, AlterObjectOpts
  <2>6. CASE s.Type = "Unknown" /\ applyUnknown(s.V)
    BY <1>0, <2>6, PassThroughStep DEF applyUnknown
  <2> QED
    BY <2>1, <2>2, <2>3, <2>4, <2>5, <2>6 DEF ApplyObject
<1>2. failed' \in BOOLEAN
  BY <1>1 DEF ObjInv
<1>3. /\ UNCHANGED seqOnlyVars /\ UNCHANGED enumVars
      /\ UNCHANGED <<tableOnlyVars, indexVars, truncVars>>
  BY DEF ApplyObject
<1>4. SeqTypeOK' /\ SeqIndexSound' /\ (SeqComplete => SeqComplete')
  BY <1>0, <1>2, <1>3, SequencesKept
<1>5. EnumInv' /\ (EnumComplete => EnumComplete')
  BY <1>0, <1>3, EnumStutter
<1>6. TableInv' /\ (TableFull /\ ObjComplete' => TableFull')
  BY <1>0, <1>1, <1>3, TablesBesideObjects
<1> QED
  BY <1>1, <1>4, <1>5, <1>6 DEF SchemaKept, SchemaInv, SchemaFull, TableFull

(* One statement, whichever it is.                                         *)
LEMMA ApplyStep ==
  ASSUME PlainTokens, SchemaInv, NEW s, IsStatement(s), Apply(s)
  PROVE  SchemaKept(s)
BY ApplySequenceStep, ApplyTypeStep, ApplyTableStep, ApplyObjectStep DEF Apply

(* A step of the run that applies no statement.                            *)
LEMMA SchemaUntouched ==
  ASSUME SchemaInv, failed' \in BOOLEAN,
         UNCHANGED <<seqOnlyVars, enumVars, tableOnlyVars, indexVars, truncVars,
                     objOnlyVars>>
  PROVE  SchemaInv' /\ (SchemaFull => SchemaFull')
<1>1. /\ UNCHANGED seqOnlyVars /\ UNCHANGED enumVars
      /\ UNCHANGED <<tableOnlyVars, indexVars, truncVars, objOnlyVars>>
  OBVIOUS
<1>2. SeqTypeOK' /\ SeqIndexSound' /\ (SeqComplete => SeqComplete')
  BY <1>1, SequencesKept DEF SchemaInv
<1>3. EnumInv' /\ (EnumComplete => EnumComplete')
  BY <1>1, EnumStutter DEF SchemaInv
<1>4. TableInv' /\ (TableFull => TableFull')
  BY <1>1, NothingDefined DEF SchemaInv, Kept
<1> QED
  BY <1>2, <1>3, <1>4 DEF SchemaInv, SchemaFull

(* What the invariant says of the properties the runs check.               *)
LEMMA SchemaMeaning ==
  ASSUME SchemaInv
  PROVE  SchemaMapsSound /\ (SchemaFull => SchemaCoherent)
<1>1. TableMapsSound /\ (TableFull => TableMapsCoherent)
  BY TableInvMeaning DEF SchemaInv
<1> QED
  BY <1>1 DEF SchemaInv, SchemaFull, SchemaMapsSound, SchemaCoherent, EnumInv,
              SeqIndexCoherent, SeqIndexSound, SeqComplete,
              TypeIndexCoherent, TypeIndexSound, EnumComplete, Coherent

-----------------------------------------------------------------------------
(* The texts of the current file are ones that parse.                      *)
TextsParse == IsContent(texts)

(* The first run of the program, at every point.                           *)
FirstRun == round = 1 => SchemaInv /\ TextsParse

(* ... and, as long as the migrations rename legally, everything is found. *)
FullRun == round = 1 => SchemaFull

(* The directory of the first run is one of the given ones.                *)
FirstDirectory == round = 1 => directory \in Directory

(* Only Remerge changes the directory, and the round with it.              *)
LEMMA FirstDirectoryStep ==
  FirstDirectory /\ [MergeNext]_mergeVars => FirstDirectory'
BY DEF FirstDirectory, MergeNext, Run, mergeVars, runVars, List, ReadFile, ApplyText,
       Write, Remerge

(* Nothing is known of the schema before the first statement.              *)
LEMMA FirstRunInit == MergeInit => FirstRun /\ FullRun /\ FirstDirectory
<1> SUFFICES ASSUME MergeInit
             PROVE  SchemaInv /\ TextsParse /\ SchemaFull /\ directory \in Directory
  BY DEF FirstRun, FullRun, FirstDirectory
<1>1. /\ SeqInit /\ TypeInit /\ TableInit /\ texts = <<>>
      /\ directory \in Directory
  BY DEF MergeInit, SchemaInit
<1>2. SchemaInv /\ SchemaFull
  BY <1>1, SeqInitFacts, EnumInitFacts, TableInitFacts DEF SchemaInv, SchemaFull
<1>3. IsSlice(<<>>) /\ Range(<<>>) = {}
  BY DEF IsSlice, Range
<1> QED
  BY <1>1, <1>2, <1>3 DEF TextsParse, IsContent

(* What is left of a file parses as the file does.                         *)
LEMMA RestParses ==
  ASSUME NEW c, IsContent(c), c # <<>>
  PROVE  /\ IsContent(Tail(c))
         /\ Malformed(Head(c)) \/ IsStatement(Parse(Head(c)))
<1>1. c \in Seq(Range(c))
  BY DEF IsContent, IsSlice
<1>2. /\ Head(c) \in Range(c)
      /\ Tail(c) \in Seq(Range(c))
  BY <1>1
<1>3. /\ DOMAIN Tail(c) = 1..Len(Tail(c))
      /\ \A i \in 1..Len(Tail(c)) : Tail(c)[i] \in Range(c)
  BY <1>2
<1>4. Range(Tail(c)) \subseteq Range(c)
  BY <1>3 DEF Range
<1>5. IsSlice(Tail(c))
  BY <1>2, SeqIsSlice
<1> QED
  BY <1>2, <1>4, <1>5 DEF IsContent

(* A step within the first run.                                            *)
LEMMA FirstRunStep ==
  ASSUME PlainTokens, RunInv, FirstDirectory, FirstRun, [MergeNext]_mergeVars
  PROVE  FirstRun' /\ (FullRun /\ RenamesLegal => FullRun')
<1> SUFFICES ASSUME round' = 1
             PROVE  /\ SchemaInv' /\ TextsParse'
                    /\ FullRun /\ RenamesLegal => SchemaFull'
  BY DEF FirstRun, FullRun
<1> DEFINE Goal == /\ SchemaInv' /\ TextsParse'
                   /\ FullRun /\ RenamesLegal => SchemaFull'
           Untouched == UNCHANGED <<seqOnlyVars, enumVars, tableOnlyVars, indexVars,
                                    truncVars, objOnlyVars>>
<1>1. round = 1
  BY DEF MergeNext, Run, mergeVars, runVars, List, ReadFile, ApplyText, Write, Remerge
<1>2. SchemaInv /\ TextsParse /\ (FullRun => SchemaFull) /\ failed \in BOOLEAN
  BY <1>1 DEF FirstRun, FullRun, SchemaInv, SeqTypeOK
<1>3. ASSUME Untouched, failed' = TRUE \/ failed' = failed, TextsParse'
      PROVE  Goal
  <2>1. failed' \in BOOLEAN
    BY <1>2, <1>3
  <2> QED
    BY <1>2, <1>3, <2>1, SchemaUntouched
<1>4. ASSUME UNCHANGED texts PROVE TextsParse'
  BY <1>2, <1>4 DEF TextsParse
<1>5. CASE List
  BY <1>3, <1>4, <1>5 DEF List, Refused, Succeed
<1>6. CASE ReadFile
  <2>1. files # <<>> /\ files \in Seq(SqlFiles(directory)) /\ directory \in Directory
    BY <1>1, <1>6 DEF ReadFile, RunInv, FirstDirectory
  <2>2. Head(files) \in SqlFiles(directory)
    <3> DEFINE S == SqlFiles(directory)
    <3> HIDE DEF S
    <3>1. files \in Seq(S)
      BY <2>1 DEF S
    <3>2. Head(files) \in S
      BY <2>1, <3>1
    <3> QED
      BY <3>2 DEF S
  <2>3. IsContent(Contents[Head(files).Name])
    BY <2>1, <2>2, MergeAssumption DEF SqlFiles
  <2>4. CASE texts' = contentOf(Head(files)) /\ Succeed
    <3>1. TextsParse'
      BY <1>1, <2>3, <2>4 DEF TextsParse, contentOf
    <3> QED
      BY <1>3, <1>6, <2>4, <3>1 DEF ReadFile, Succeed
  <2>5. CASE UNCHANGED texts /\ Refused
    BY <1>3, <1>4, <1>6, <2>5 DEF ReadFile, Refused
  <2> QED
    BY <1>6, <2>4, <2>5 DEF ReadFile
<1>7. CASE ApplyText
  <2> DEFINE s == Parse(Head(texts))
  <2>1. IsContent(texts) /\ texts # <<>> /\ texts' = Tail(texts) /\ phase = "merging"
    BY <1>2, <1>7 DEF ApplyText, TextsParse
  <2>2. TextsParse' /\ (Malformed(Head(texts)) \/ IsStatement(s))
    BY <2>1, RestParses DEF TextsParse
  <2>3. CASE Malformed(Head(texts))
    BY <1>3, <1>7, <2>2, <2>3 DEF ApplyText, Refused
  <2>4. CASE ~ Malformed(Head(texts))
    <3>1. Apply(s) /\ IsStatement(s)
      BY <1>7, <2>2, <2>4 DEF ApplyText
    <3>2. SchemaKept(s)
      <4> HIDE DEF s
      <4> QED
        BY <1>2, <3>1, ApplyStep
    <3>3. RenamesLegal => RenamesToFreeName(s)
      BY <2>1 DEF RenamesLegal
    <3> QED
      BY <1>2, <2>2, <3>2, <3>3 DEF SchemaKept
  <2> QED
    BY <2>3, <2>4
<1>8. CASE Write
  BY <1>3, <1>4, <1>8 DEF Write, Refused, Succeed
<1>9. CASE UNCHANGED mergeVars
  BY <1>3, <1>4, <1>9 DEF mergeVars, runVars, schemaVars, seqOnlyVars, enumVars,
                          tableOnlyVars, indexVars, truncVars, objOnlyVars
<1>10. CASE Remerge
  BY <1>10 DEF Remerge
<1> QED
  BY <1>5, <1>6, <1>7, <1>8, <1>9, <1>10 DEF MergeNext, Run

(* Whatever files are merged, in whatever order, and whatever their        *)
(* statements do, also half a DROP TABLE: every entry of every map of the  *)
(* schema leads to the definition of that name.  One handler never spoils  *)
(* a map of another.                                                       *)
THEOREM SchemaMapsAlwaysSound ==
  ASSUME PlainTokens
  PROVE  MergeSpec => [](round = 1 => SchemaMapsSound)
<1> DEFINE IInv == RunInv /\ FirstDirectory /\ FirstRun
<1>1. MergeInit => IInv
  BY RunInit, FirstRunInit
<1>2. IInv /\ [MergeNext]_mergeVars => IInv'
  BY RunStep, FirstDirectoryStep, FirstRunStep
<1>3. IInv => (round = 1 => SchemaMapsSound)
  BY SchemaMeaning DEF FirstRun
<1> QED
  BY <1>1, <1>2, <1>3, PTL DEF MergeSpec

(* As long as the migrations take no name in use with a rename, the maps   *)
(* and the slices agree throughout the merge: whatever Emit will print can *)
(* be found under its name by the statements that follow, and nothing is   *)
(* defined twice.                                                          *)
THEOREM SchemaAlwaysCoherent ==
  ASSUME PlainTokens
  PROVE  MergeSpec /\ []RenamesLegal => [](round = 1 => SchemaCoherent)
<1> DEFINE IInv == RunInv /\ FirstDirectory /\ FirstRun /\ FullRun
<1>1. MergeInit => IInv
  BY RunInit, FirstRunInit
<1>2. IInv /\ RenamesLegal /\ [MergeNext]_mergeVars => IInv'
  BY RunStep, FirstDirectoryStep, FirstRunStep
<1>3. IInv => (round = 1 => SchemaCoherent)
  BY SchemaMeaning DEF FirstRun, FullRun
<1> QED
  BY <1>1, <1>2, <1>3, PTL DEF MergeSpec

-----------------------------------------------------------------------------
(* What is printed of each element of a slice is again a slice.            *)
LEMMA EachIsSlice ==
  ASSUME NEW s, IsSlice(s), NEW t, t = [i \in DOMAIN s |-> t[i]]
  PROVE  IsSlice(t)
<1>1. Len(s) \in Nat /\ DOMAIN s = 1..Len(s)
  BY DEF IsSlice
<1>2. t \in [1..Len(s) -> {t[i] : i \in DOMAIN s}]
  BY <1>1
<1>3. t \in Seq({t[i] : i \in DOMAIN s})
  BY <1>1, <1>2
<1> QED
  BY <1>3, SeqIsSlice

(* The section of some kinds has each object of them, and its ALTERs if    *)
(* the section prints any.                                                 *)
LEMMA SectionFacts ==
  ASSUME Objects \in Seq(StoredObject), NEW kinds, NEW withAlters \in BOOLEAN
  PROVE  LET section == Range(emitObjects(kinds, withAlters)) IN
         /\ IsSlice(emitObjects(kinds, withAlters))
         /\ \A i \in DOMAIN Objects : Objects[i].Kind \in kinds =>
              /\ createText(Objects[i].Kind, Objects[i].SQL) \in section
              /\ withAlters => \A j \in DOMAIN Objects[i].PostAlters :
                                 alterText(Objects[i].PostAlters[j]) \in section
<1> DEFINE create(i) == <<createText(Objects[i].Kind, Objects[i].SQL)>>
           alters(i) == IF withAlters THEN Each(Objects[i].PostAlters, alterText)
                                      ELSE <<>>
           part(i) == IF Objects[i].Kind \notin kinds THEN <<>>
                                                      ELSE create(i) \o alters(i)
           parts == [i \in DOMAIN Objects |-> part(i)]
<1>1. emitObjects(kinds, withAlters) = FlattenSeq(parts)
  BY DEF emitObjects
<1>2. IsSlice(Objects) /\ \A i \in DOMAIN Objects : Objects[i].PostAlters \in Seq(AlterSql)
  <2>1. \A i \in DOMAIN Objects : Objects[i] \in StoredObject
    OBVIOUS
  <2> QED
    BY <2>1, SeqIsSlice DEF StoredObject, GenericObject
<1>3. ASSUME NEW i \in DOMAIN Objects
      PROVE  /\ IsSlice(create(i)) /\ IsSlice(alters(i))
             /\ createText(Objects[i].Kind, Objects[i].SQL) \in Range(create(i))
             /\ withAlters => \A j \in DOMAIN Objects[i].PostAlters :
                                alterText(Objects[i].PostAlters[j]) \in Range(alters(i))
  <2>1. IsSlice(create(i))
    <3>1. create(i) \in Seq({createText(Objects[i].Kind, Objects[i].SQL)})
      OBVIOUS
    <3> QED
      BY <3>1, SeqIsSlice
  <2>2. createText(Objects[i].Kind, Objects[i].SQL) \in Range(create(i))
    <3>1. 1 \in DOMAIN create(i) /\ create(i)[1] = createText(Objects[i].Kind, Objects[i].SQL)
      OBVIOUS
    <3> QED
      BY <3>1 DEF Range
  <2>3. CASE withAlters
    <3> DEFINE kept == Objects[i].PostAlters
               printed == Each(kept, alterText)
    <3>1. IsSlice(kept)
      BY <1>2, <1>3, SeqIsSlice
    <3>2. printed = [j \in DOMAIN kept |-> alterText(kept[j])]
      BY DEF Each
    <3>3. \A j \in DOMAIN kept : alterText(kept[j]) \in Range(printed)
      BY <3>2 DEF Range
    <3>4. IsSlice(printed)
      <4>1. printed = [j \in DOMAIN kept |-> printed[j]]
        BY <3>2
      <4> QED
        BY <3>1, <4>1, EachIsSlice
    <3> QED
      BY <2>1, <2>2, <2>3, <3>3, <3>4
  <2>4. CASE ~ withAlters
    <3>1. <<>> \in Seq({})
      OBVIOUS
    <3>2. IsSlice(<<>>)
      BY <3>1, SeqIsSlice
    <3> QED
      BY <2>1, <2>2, <2>4, <3>2
  <2> QED
    BY <2>3, <2>4
<1> HIDE DEF create, alters
<1>4. ASSUME NEW i \in DOMAIN Objects
      PROVE  /\ IsSlice(part(i))
             /\ Objects[i].Kind \in kinds =>
                  Range(create(i)) \cup Range(alters(i)) \subseteq Range(part(i))
  <2>1. CASE Objects[i].Kind \notin kinds
    <3>1. <<>> \in Seq({})
      OBVIOUS
    <3> QED
      BY <2>1, <3>1, SeqIsSlice
  <2>2. CASE Objects[i].Kind \in kinds
    BY <1>3, <2>2, ConcatFacts
  <2> QED
    BY <2>1, <2>2
<1> HIDE DEF part
<1>5. IsSlice(parts) /\ \A i \in DOMAIN parts : IsSlice(parts[i])
  <2>1. parts = [i \in DOMAIN Objects |-> parts[i]]
    OBVIOUS
  <2>2. \A i \in DOMAIN parts : IsSlice(parts[i])
    BY <1>4
  <2> HIDE DEF parts
  <2> QED
    BY <1>2, <2>1, <2>2, EachIsSlice
<1>6. IsSlice(FlattenSeq(parts))
  <2> HIDE DEF parts
  <2> QED
    BY <1>5, FlattenFacts
<1>7. ASSUME NEW i \in DOMAIN Objects
      PROVE  Range(part(i)) \subseteq Range(FlattenSeq(parts))
  <2>1. i \in DOMAIN parts /\ parts[i] = part(i)
    OBVIOUS
  <2> HIDE DEF parts
  <2> QED
    BY <1>5, <2>1, FlattenFacts
<1> HIDE DEF parts
<1>8. ASSUME NEW i \in DOMAIN Objects, Objects[i].Kind \in kinds
      PROVE  Range(create(i)) \cup Range(alters(i)) \subseteq Range(FlattenSeq(parts))
  BY <1>4, <1>7, <1>8
<1> QED
  BY <1>1, <1>3, <1>6, <1>8

(* Emit prints every section and, at the end, what was passed through.     *)
LEMMA EmitFacts ==
  ASSUME SchemaInv, IsSlice(Unknowns)
  PROVE  \A part \in
           {emitObjects({"SCHEMA"}, FALSE), emitObjects({"EXTENSION"}, TRUE),
            emitObjects({"TYPE"}, FALSE), emitObjects({"DOMAIN"}, TRUE),
            emitObjects({"PARTITION"}, FALSE),
            emitObjects({"FUNCTION", "PROCEDURE"}, TRUE),
            emitObjects({"VIEW", "MATERIALIZED VIEW"}, TRUE),
            emitObjects({"TRIGGER"}, FALSE), emitObjects({"POLICY", "RULE"}, TRUE),
            Each(Unknowns, unknownText)} :
           Range(part) \subseteq Range(Emit)
<1> DEFINE schemas == emitObjects({"SCHEMA"}, FALSE)
           extensions == emitObjects({"EXTENSION"}, TRUE)
           sequences == Each(Sequences, emitSequence)
           enums == Each(Types, emitType)
           types == emitObjects({"TYPE"}, FALSE)
           domains == emitObjects({"DOMAIN"}, TRUE)
           tables == Each(Tables, emitTable)
           partitions == emitObjects({"PARTITION"}, FALSE)
           indexes == Each(Indexes, emitIndex)
           functions == emitObjects({"FUNCTION", "PROCEDURE"}, TRUE)
           views == emitObjects({"VIEW", "MATERIALIZED VIEW"}, TRUE)
           triggers == emitObjects({"TRIGGER"}, FALSE)
           policies == emitObjects({"POLICY", "RULE"}, TRUE)
           truncates == Each(Truncates, emitTruncate)
           unknowns == Each(Unknowns, unknownText)
<1>1. /\ IsSlice(Sequences) /\ IsSlice(Types) /\ IsSlice(Tables) /\ IsSlice(Indexes)
      /\ IsSlice(Truncates) /\ Objects \in Seq(StoredObject)
  BY SeqIsSlice DEF SchemaInv, SeqTypeOK, EnumInv, TableInv, TablesOK, IndexesOK,
                    TruncatesOK, ObjInv, Keyed
<1>2. /\ IsSlice(schemas) /\ IsSlice(extensions) /\ IsSlice(types) /\ IsSlice(domains)
      /\ IsSlice(partitions) /\ IsSlice(functions) /\ IsSlice(views)
      /\ IsSlice(triggers) /\ IsSlice(policies)
  BY <1>1, SectionFacts
<1>3. IsSlice(sequences)
  <2>1. sequences = [i \in DOMAIN Sequences |-> sequences[i]]
    BY DEF Each
  <2> HIDE DEF sequences
  <2> QED
    BY <1>1, <2>1, EachIsSlice
<1>4. IsSlice(enums)
  <2>1. enums = [i \in DOMAIN Types |-> enums[i]]
    BY DEF Each
  <2> HIDE DEF enums
  <2> QED
    BY <1>1, <2>1, EachIsSlice
<1>5. IsSlice(tables)
  <2>1. tables = [i \in DOMAIN Tables |-> tables[i]]
    BY DEF Each
  <2> HIDE DEF tables
  <2> QED
    BY <1>1, <2>1, EachIsSlice
<1>6. IsSlice(indexes)
  <2>1. indexes = [i \in DOMAIN Indexes |-> indexes[i]]
    BY DEF Each
  <2> HIDE DEF indexes
  <2> QED
    BY <1>1, <2>1, EachIsSlice
<1>7. IsSlice(truncates)
  <2>1. truncates = [i \in DOMAIN Truncates |-> truncates[i]]
    BY DEF Each
  <2> HIDE DEF truncates
  <2> QED
    BY <1>1, <2>1, EachIsSlice
<1>8. IsSlice(unknowns)
  <2>1. unknowns = [i \in DOMAIN Unknowns |-> unknowns[i]]
    BY DEF Each
  <2> HIDE DEF unknowns
  <2> QED
    BY <2>1, EachIsSlice
<1>9. Emit = schemas \o extensions \o sequences \o enums \o types \o domains
               \o (tables \o partitions) \o indexes \o functions \o views \o triggers
               \o policies \o truncates \o unknowns
  BY DEF Emit, emitTables
<1> HIDE DEF schemas, extensions, sequences, enums, types, domains, tables, partitions,
             indexes, functions, views, triggers, policies, truncates, unknowns
<1> DEFINE to2 == schemas \o extensions
           to3 == to2 \o sequences
           to4 == to3 \o enums
           to5 == to4 \o types
           to6 == to5 \o domains
           all == tables \o partitions
           to7 == to6 \o all
           to8 == to7 \o indexes
           to9 == to8 \o functions
           to10 == to9 \o views
           to11 == to10 \o triggers
           to12 == to11 \o policies
           to13 == to12 \o truncates
           to14 == to13 \o unknowns
<1>10. IsSlice(to2) /\ Range(schemas) \cup Range(extensions) \subseteq Range(to2)
  BY <1>2, ConcatFacts
<1>11. IsSlice(all) /\ Range(partitions) \subseteq Range(all)
  BY <1>2, <1>5, ConcatFacts
<1> HIDE DEF to2, all
<1>12. IsSlice(to3) /\ Range(to2) \subseteq Range(to3)
  BY <1>3, <1>10, ConcatFacts
<1> HIDE DEF to3
<1>13. IsSlice(to4) /\ Range(to3) \subseteq Range(to4)
  BY <1>4, <1>12, ConcatFacts
<1> HIDE DEF to4
<1>14. IsSlice(to5) /\ Range(to4) \cup Range(types) \subseteq Range(to5)
  BY <1>2, <1>13, ConcatFacts
<1> HIDE DEF to5
<1>15. IsSlice(to6) /\ Range(to5) \cup Range(domains) \subseteq Range(to6)
  BY <1>2, <1>14, ConcatFacts
<1> HIDE DEF to6
<1>16. IsSlice(to7) /\ Range(to6) \cup Range(all) \subseteq Range(to7)
  BY <1>11, <1>15, ConcatFacts
<1> HIDE DEF to7
<1>17. IsSlice(to8) /\ Range(to7) \subseteq Range(to8)
  BY <1>6, <1>16, ConcatFacts
<1> HIDE DEF to8
<1>18. IsSlice(to9) /\ Range(to8) \cup Range(functions) \subseteq Range(to9)
  BY <1>2, <1>17, ConcatFacts
<1> HIDE DEF to9
<1>19. IsSlice(to10) /\ Range(to9) \cup Range(views) \subseteq Range(to10)
  BY <1>2, <1>18, ConcatFacts
<1> HIDE DEF to10
<1>20. IsSlice(to11) /\ Range(to10) \cup Range(triggers) \subseteq Range(to11)
  BY <1>2, <1>19, ConcatFacts
<1> HIDE DEF to11
<1>21. IsSlice(to12) /\ Range(to11) \cup Range(policies) \subseteq Range(to12)
  BY <1>2, <1>20, ConcatFacts
<1> HIDE DEF to12
<1>22. IsSlice(to13) /\ Range(to12) \subseteq Range(to13)
  BY <1>7, <1>21, ConcatFacts
<1> HIDE DEF to13
<1>23. Range(to13) \cup Range(unknowns) \subseteq Range(to14)
  BY <1>8, <1>22, ConcatFacts
<1>24. Emit = to14
  BY <1>9 DEF to2, to3, to4, to5, to6, all, to7, to8, to9, to10, to11, to12, to13
<1> HIDE DEF to14
<1>25. /\ Range(schemas) \subseteq Range(Emit)
       /\ Range(extensions) \subseteq Range(Emit)
       /\ Range(types) \subseteq Range(Emit)
       /\ Range(domains) \subseteq Range(Emit)
       /\ Range(partitions) \subseteq Range(Emit)
       /\ Range(functions) \subseteq Range(Emit)
       /\ Range(views) \subseteq Range(Emit)
       /\ Range(triggers) \subseteq Range(Emit)
       /\ Range(policies) \subseteq Range(Emit)
       /\ Range(unknowns) \subseteq Range(Emit)
  BY <1>10, <1>11, <1>12, <1>13, <1>14, <1>15, <1>16, <1>17, <1>18, <1>19, <1>20,
     <1>21, <1>22, <1>23, <1>24
<1> QED
  BY <1>25 DEF schemas, extensions, types, domains, partitions, functions, views,
               triggers, policies, unknowns

(* Nothing the schema holds verbatim is left out of the output.            *)
LEMMA EmitLosesNothing ==
  ASSUME SchemaInv, IsSlice(Unknowns)
  PROVE  NothingLost(Emit)
<1>1. Objects \in Seq(StoredObject)
  BY DEF SchemaInv, TableInv, ObjInv
<1>2. ASSUME NEW kinds, NEW withAlters \in BOOLEAN,
             Range(emitObjects(kinds, withAlters)) \subseteq Range(Emit),
             NEW i \in DOMAIN Objects, Objects[i].Kind \in kinds
      PROVE  /\ createText(Objects[i].Kind, Objects[i].SQL) \in Range(Emit)
             /\ withAlters => \A j \in DOMAIN Objects[i].PostAlters :
                                alterText(Objects[i].PostAlters[j]) \in Range(Emit)
  BY <1>1, <1>2, SectionFacts
<1>3. ASSUME NEW i \in DOMAIN Objects
      PROVE  /\ createText(Objects[i].Kind, Objects[i].SQL) \in Range(Emit)
             /\ \A j \in DOMAIN Objects[i].PostAlters :
                  alterText(Objects[i].PostAlters[j]) \in Range(Emit)
  <2>1. /\ Objects[i].Kind \in ObjectKinds
        /\ Objects[i].PostAlters # <<>> => Objects[i].Kind \in KeptAlterKinds
        /\ Objects[i].PostAlters \in Seq(AlterSql)
    <3>1. Objects[i] \in StoredObject
      BY <1>1
    <3> QED
      BY <3>1, KindAssumption DEF StoredObject, GenericObject
  <2>2. CASE Objects[i].PostAlters = <<>>
    <3>1. DOMAIN Objects[i].PostAlters = {}
      BY <2>2
    <3>2. PICK kinds :
            /\ Objects[i].Kind \in kinds
            /\ \E withAlters \in BOOLEAN :
                 Range(emitObjects(kinds, withAlters)) \subseteq Range(Emit)
      BY <2>1, EmitFacts DEF ObjectKinds
    <3> QED
      BY <1>2, <3>1, <3>2
  <2>3. CASE Objects[i].PostAlters # <<>>
    <3>1. Objects[i].Kind \in {"FUNCTION", "PROCEDURE", "EXTENSION", "DOMAIN", "VIEW", "POLICY"}
      BY <2>1, <2>3 DEF KeptAlterKinds, FunctionKinds, AlterableKinds
    <3>2. PICK kinds :
            /\ Objects[i].Kind \in kinds
            /\ Range(emitObjects(kinds, TRUE)) \subseteq Range(Emit)
      BY <3>1, EmitFacts
    <3> QED
      BY <1>2, <3>2
  <2> QED
    BY <2>2, <2>3
<1>4. ASSUME NEW i \in DOMAIN Unknowns PROVE unknownText(Unknowns[i]) \in Range(Emit)
  <2>1. i \in DOMAIN Each(Unknowns, unknownText)
    BY DEF Each
  <2>2. Each(Unknowns, unknownText)[i] = unknownText(Unknowns[i])
    BY DEF Each
  <2>3. unknownText(Unknowns[i]) \in Range(Each(Unknowns, unknownText))
    BY <2>1, <2>2 DEF Range
  <2> QED
    BY <2>3, EmitFacts
<1> QED
  BY <1>3, <1>4 DEF NothingLost

(* A handler passes a statement on, or leaves the others as they are.      *)
LEMMA UnknownsGrow ==
  ASSUME NEW s, Apply(s), IsSlice(Unknowns)
  PROVE  IsSlice(Unknowns')
<1>1. CASE UNCHANGED Unknowns
  BY <1>1
<1>2. ASSUME NEW sql, Unknowns' = Append(Unknowns, sql) PROVE IsSlice(Unknowns')
  <2>1. Unknowns \in Seq(Range(Unknowns) \cup {sql})
    <3> DEFINE R == Range(Unknowns)
    <3>1. Unknowns \in Seq(R)
      BY DEF IsSlice
    <3> HIDE DEF R
    <3>2. Unknowns \in Seq(R \cup {sql})
      BY <3>1
    <3> QED
      BY <3>2 DEF R
  <2> DEFINE R == Range(Unknowns) \cup {sql}
  <2>2. sql \in R
    OBVIOUS
  <2> HIDE DEF R
  <2>3. Unknowns' \in Seq(R)
    BY <1>2, <2>1, <2>2 DEF R
  <2> QED
    BY <2>3, SeqIsSlice
<1>3. CASE ApplySequence(s)
  BY <1>1, <1>3 DEF ApplySequence, objOnlyVars
<1>4. CASE ApplyType(s)
  BY <1>1, <1>4
  DEF ApplyType, applyCreateType, applyDropType, alterTypeAddValue, alterTypeRenameValue,
      alterTypeRenameTo, SetLabels, RefuseType, typeVars
<1>5. CASE ApplyTable(s)
  <2> USE DEF RefuseTable, RefuseIndex, tableVars, objOnlyVars
  <2>1. applyCreateTable(s.V) => UNCHANGED Unknowns
    BY DEF applyCreateTable
  <2>2. applyAlterTable(s.V) => UNCHANGED Unknowns
    BY Zenon DEF applyAlterTable
  <2>3. applyRenameTo(s.V) => UNCHANGED Unknowns
    BY DEF applyRenameTo
  <2>4. applyDropTable(s.V) => UNCHANGED Unknowns
    BY DEF applyDropTable
  <2>5. applyCreateIndex(s.V) => UNCHANGED Unknowns
    BY DEF applyCreateIndex
  <2>6. applyDropIndex(s.V) => UNCHANGED Unknowns
    BY DEF applyDropIndex
  <2>7. applyAlterIndex(s.V) => UNCHANGED Unknowns
    BY DEF applyAlterIndex
  <2>8. applyTruncate(s.V) => UNCHANGED Unknowns
    BY DEF applyTruncate
  <2> QED
    BY <1>1, <1>5, <2>1, <2>2, <2>3, <2>4, <2>5, <2>6, <2>7, <2>8 DEF ApplyTable
<1>6. CASE ApplyObject(s)
  <2> USE DEF RefuseObject, objVars
  <2>1. CASE applyCreateObject(s.V) \/ applyDropObject(s.V) \/ applyAlterObject(s.V)
    BY <1>1, <2>1 DEF applyCreateObject, applyDropObject, applyAlterObject
  <2>2. ASSUME applyAlterFunctionOpts(s.V) PROVE IsSlice(Unknowns')
    BY <1>1, <1>2, <2>2 DEF applyAlterFunctionOpts, PassThrough
  <2>3. CASE applyAlterObjectOpts(s.V)
    BY <1>1, <2>2, <2>3 DEF applyAlterObjectOpts
  <2>4. CASE applyUnknown(s.V)
    BY <1>2, <2>4 DEF applyUnknown, PassThrough
  <2> QED
    BY <1>6, <2>1, <2>2, <2>3, <2>4 DEF ApplyObject
<1> QED
  BY <1>3, <1>4, <1>5, <1>6 DEF Apply

(* The first run up to its end: what is passed through is a list, and the  *)
(* file, once it is written, has everything.                               *)
FirstOutput ==
  round = 1 => /\ IsSlice(Unknowns)
               /\ phase = "written" => NothingLost(output)

(* Only Write makes an output, and nothing is changed behind it.           *)
LEMMA FirstOutputStep ==
  ASSUME FirstRun, FirstOutput, [MergeNext]_mergeVars
  PROVE  FirstOutput'
<1> SUFFICES ASSUME round' = 1
             PROVE  /\ IsSlice(Unknowns')
                    /\ phase' = "written" => NothingLost(output)'
  BY DEF FirstOutput
<1>1. round = 1
  BY DEF MergeNext, Run, mergeVars, runVars, List, ReadFile, ApplyText, Write, Remerge
<1>2. SchemaInv /\ IsSlice(Unknowns) /\ (phase = "written" => NothingLost(output))
  BY <1>1 DEF FirstRun, FirstOutput
<1>3. CASE /\ UNCHANGED Unknowns
           /\ phase' # "written"
  BY <1>2, <1>3
<1>4. CASE List
  BY <1>3, <1>4 DEF List, objOnlyVars
<1>5. CASE ReadFile
  BY <1>3, <1>5 DEF ReadFile, objOnlyVars
<1>6. CASE ApplyText
  <2>1. phase' # "written"
    BY <1>6 DEF ApplyText
  <2>2. CASE Malformed(Head(texts))
    BY <1>3, <1>6, <2>1, <2>2 DEF ApplyText, objOnlyVars
  <2>3. CASE ~ Malformed(Head(texts))
    <3>1. Apply(Parse(Head(texts)))
      BY <1>6, <2>3 DEF ApplyText
    <3> QED
      BY <1>2, <2>1, <3>1, UnknownsGrow
  <2> QED
    BY <2>2, <2>3
<1>7. CASE Write
  <2>1. UNCHANGED <<Objects, Unknowns>>
    BY <1>7 DEF Write, objOnlyVars
  <2>2. CASE output' = Emit
    <3>1. NothingLost(Emit)
      BY <1>2, EmitLosesNothing
    <3> QED
      BY <1>2, <2>1, <2>2, <3>1 DEF NothingLost
  <2>3. CASE phase' = phase
    BY <1>2, <1>3, <1>7, <2>1, <2>3 DEF Write
  <2> QED
    BY <1>7, <2>2, <2>3 DEF Write
<1>8. CASE UNCHANGED mergeVars
  <2>1. UNCHANGED <<Objects, Unknowns, output, phase>>
    BY <1>8 DEF mergeVars, runVars, schemaVars, objOnlyVars
  <2> QED
    BY <1>2, <2>1 DEF NothingLost
<1>9. CASE Remerge
  BY <1>9 DEF Remerge
<1> QED
  BY <1>4, <1>5, <1>6, <1>7, <1>8, <1>9 DEF MergeNext, Run

(* Before the first file there is nothing to lose.                         *)
LEMMA FirstOutputInit == MergeInit => FirstOutput
<1> SUFFICES ASSUME MergeInit PROVE FirstOutput
  OBVIOUS
<1>1. Unknowns = <<>> /\ phase = "listing"
  BY DEF MergeInit, SchemaInit, TypeInit, TableInit, ObjInit
<1>2. <<>> \in Seq({})
  OBVIOUS
<1> QED
  BY <1>1, <1>2, SeqIsSlice DEF FirstOutput

(* Whatever the files contain: when the output is written, each verbatim   *)
(* object, each ALTER kept with one and each statement passed through is   *)
(* in it.  Some section prints every kind of object there is, and those of *)
(* the kinds whose ALTERs applyAlter... keeps print the ALTERs.            *)
THEOREM NothingEverLostOnWrite ==
  ASSUME PlainTokens
  PROVE  MergeSpec => [](round = 1 => NothingLostOnWrite)
<1> DEFINE IInv == RunInv /\ FirstDirectory /\ FirstRun /\ FirstOutput
<1>1. MergeInit => IInv
  BY RunInit, FirstRunInit, FirstOutputInit
<1>2. IInv /\ [MergeNext]_mergeVars => IInv'
  BY RunStep, FirstDirectoryStep, FirstRunStep, FirstOutputStep
<1>3. IInv => (round = 1 => NothingLostOnWrite)
  BY DEF FirstOutput, NothingLostOnWrite
<1> QED
  BY <1>1, <1>2, <1>3, PTL DEF MergeSpec

-----------------------------------------------------------------------------
(* The order of the output.  A part of it that stands behind the texts A.  *)
Behind(A, part) ==
  \A i \in 1..Len(part) :
    Dependent(part[i]) =>
      \E e \in A \cup {part[j] : j \in 1..(i - 1)} : IsNeededBy(e, part[i])

(* More texts in front do no harm.                                         *)
LEMMA BehindMore ==
  ASSUME NEW A, NEW B, A \subseteq B, NEW part, Behind(A, part)
  PROVE  Behind(B, part)
BY DEF Behind

(* Two parts, the second one behind the first.                             *)
LEMMA BehindConcat ==
  ASSUME NEW A, NEW a, IsSlice(a), Behind(A, a),
         NEW b, IsSlice(b), Behind(A \cup Range(a), b)
  PROVE  Behind(A, a \o b)
<1> DEFINE U == Range(a) \cup Range(b)
           s == a \o b
<1>1. a \in Seq(U) /\ b \in Seq(U)
  <2>1. a \in Seq(Range(a)) /\ b \in Seq(Range(b))
    BY DEF IsSlice
  <2>2. Range(a) \subseteq U /\ Range(b) \subseteq U
    OBVIOUS
  <2> HIDE DEF U
  <2> QED
    BY <2>1, <2>2
<1> HIDE DEF U
<1>2. /\ Len(a) \in Nat /\ Len(b) \in Nat /\ Len(s) = Len(a) + Len(b)
      /\ \A i \in 1..Len(a) : s[i] = a[i]
      /\ \A i \in 1..Len(b) : s[Len(a) + i] = b[i]
      /\ DOMAIN a = 1..Len(a)
  BY <1>1
<1> HIDE DEF s
<1> SUFFICES ASSUME NEW i \in 1..Len(s), Dependent(s[i])
             PROVE  \E e \in A \cup {s[j] : j \in 1..(i - 1)} : IsNeededBy(e, s[i])
  BY DEF Behind, s
<1>3. CASE i <= Len(a)
  <2>1. i \in 1..Len(a) /\ s[i] = a[i]
    BY <1>2, <1>3
  <2>2. PICK e \in A \cup {a[j] : j \in 1..(i - 1)} : IsNeededBy(e, a[i])
    BY <2>1 DEF Behind
  <2>3. \A j \in 1..(i - 1) : s[j] = a[j]
    BY <1>2, <2>1
  <2>4. e \in A \cup {s[j] : j \in 1..(i - 1)}
    BY <2>2, <2>3
  <2> QED
    BY <2>1, <2>2, <2>4
<1>4. CASE i > Len(a)
  <2> DEFINE k == i - Len(a)
  <2>1. k \in 1..Len(b) /\ i = Len(a) + k
    BY <1>2, <1>4
  <2> HIDE DEF k
  <2>2. s[i] = b[k]
    BY <1>2, <2>1
  <2>3. PICK e \in (A \cup Range(a)) \cup {b[j] : j \in 1..(k - 1)} : IsNeededBy(e, b[k])
    BY <2>1, <2>2 DEF Behind
  <2>4. CASE e \in A
    BY <2>2, <2>3, <2>4
  <2>5. CASE e \in Range(a)
    <3>1. PICK j \in 1..Len(a) : e = a[j]
      BY <1>2, <2>5 DEF Range
    <3>2. j \in 1..(i - 1) /\ s[j] = e
      BY <1>2, <2>1, <3>1
    <3> QED
      BY <2>2, <2>3, <3>2
  <2>6. ASSUME NEW j \in 1..(k - 1), e = b[j] PROVE e \in {s[m] : m \in 1..(i - 1)}
    <3>1. j \in 1..Len(b) /\ Len(a) + j \in 1..(i - 1)
      BY <1>2, <2>1
    <3>2. s[Len(a) + j] = e
      BY <1>2, <2>6, <3>1
    <3> QED
      BY <3>1, <3>2
  <2> QED
    BY <2>2, <2>3, <2>4, <2>5, <2>6
<1> QED
  BY <1>2, <1>3, <1>4

(* A section whose parts each stand behind the ones before.                *)
LEMMA BehindFlatten ==
  ASSUME NEW A, NEW parts, IsSlice(parts),
         \A i \in 1..Len(parts) :
           /\ IsSlice(parts[i])
           /\ Behind(A \cup UNION {Range(parts[j]) : j \in 1..(i - 1)}, parts[i])
  PROVE  Behind(A, FlattenSeq(parts))
<1> DEFINE n == Len(parts)
<1>1. n \in Nat /\ DOMAIN parts = 1..n
  BY DEF IsSlice
<1>2. CASE n = 0
  <2>1. FlattenSeq(parts) = parts
    BY <1>2 DEF FlattenSeq
  <2> QED
    BY <1>2, <2>1 DEF Behind
<1>3. CASE n # 0
  <2>1. PICK joined :
          /\ FlattenSeq(parts) = joined[n]
          /\ joined[1] = parts[1]
          /\ \A i \in 2..n : joined[i] = joined[i - 1] \o parts[i]
    <3>1. Len(parts) > 0
      BY <1>1, <1>3
    <3> QED
      BY <3>1, FlattenSteps, Zenon
  <2> DEFINE earlier(k) == UNION {Range(parts[j]) : j \in 1..k}
             Joined(k) == /\ IsSlice(joined[k])
                          /\ earlier(k) \subseteq Range(joined[k])
                          /\ Behind(A, joined[k])
             good == {k \in 0..n : k = 0 \/ Joined(k)}
  <2> HIDE DEF n
  <2>2. 0 \in good
    BY <1>1
  <2>3. ASSUME NEW k \in 1..n, k - 1 \in good PROVE k \in good
    <3>0. IsSlice(parts[k]) /\ Behind(A \cup earlier(k - 1), parts[k])
      BY DEF n
    <3>1. CASE k = 1
      <4>1. earlier(k - 1) = {} /\ earlier(k) = Range(parts[k])
        <5>1. 1..(k - 1) = {} /\ 1..k = {k}
          BY <3>1
        <5> QED
          BY <5>1
      <4>2. Behind(A, parts[k])
        <5>1. A \cup earlier(k - 1) = A
          BY <4>1
        <5> HIDE DEF earlier
        <5> QED
          BY <3>0, <5>1
      <4>3. joined[k] = parts[k]
        BY <2>1, <3>1
      <4>4. Joined(k)
        <5> HIDE DEF earlier
        <5> QED
          BY <3>0, <4>1, <4>2, <4>3
      <4> QED
        BY <4>4
    <3>2. CASE k # 1
      <4>1. k \in 2..n /\ k - 1 # 0 /\ 1..k = (1..(k - 1)) \cup {k}
        BY <1>1, <3>2
      <4>2. joined[k] = joined[k - 1] \o parts[k] /\ Joined(k - 1)
        BY <2>1, <2>3, <4>1
      <4>3. earlier(k) = earlier(k - 1) \cup Range(parts[k])
        BY <4>1
      <4> HIDE DEF earlier
      <4>4. /\ IsSlice(joined[k])
            /\ Range(joined[k - 1]) \cup Range(parts[k]) \subseteq Range(joined[k])
        BY <3>0, <4>2, ConcatFacts
      <4>5. Behind(A \cup Range(joined[k - 1]), parts[k])
        <5>1. A \cup earlier(k - 1) \subseteq A \cup Range(joined[k - 1])
          BY <4>2
        <5> QED
          BY <3>0, <5>1, BehindMore
      <4>6. Behind(A, joined[k])
        BY <3>0, <4>2, <4>5, BehindConcat
      <4>7. earlier(k) \subseteq Range(joined[k])
        BY <4>2, <4>3, <4>4
      <4>8. Joined(k)
        BY <4>4, <4>6, <4>7
      <4> QED
        BY <4>8
    <3> QED
      BY <3>1, <3>2
  <2>4. n \in good
    <3> HIDE DEF good
    <3>1. \A i \in 0..n : i \in good
      BY <1>1, <2>2, <2>3, AlongList
    <3> QED
      BY <1>1, <3>1
  <2> QED
    BY <1>1, <1>3, <2>1, <2>4 DEF n
<1> QED
  BY <1>2, <1>3

-----------------------------------------------------------------------------
(* A table of that name, or a partition among the first n objects.         *)
Provides(keys, objects, n, key) ==
  \/ key \in keys
  \/ \E j \in 1..n : objects[j].Kind = "PARTITION" /\ objects[j].Name = key

(* A partition bears the name of its text, and the ALTERs kept with an     *)
(* object are about the name of its text.                                  *)
NamedAsWritten(e) ==
  /\ e.Kind = "PARTITION" => e.Name = normIdent(e.SQL.Name)
  /\ \A m \in DOMAIN e.PostAlters :
       /\ e.PostAlters[m].Kind = e.Kind
       /\ normIdent(e.PostAlters[m].Name) = normIdent(e.SQL.Name)

(* A partition has its table, or the partition that it is a part of stands *)
(* before it.                                                              *)
PartitionsPlaced(keys, objects) ==
  \A i \in 1..Len(objects) :
    objects[i].Kind = "PARTITION" =>
      Provides(keys, objects, i - 1, normIdent(objects[i].SQL.Body))

IndexesPlaced(keys, objects, indexes) ==
  \A i \in 1..Len(indexes) :
    Provides(keys, objects, Len(objects), normIdent(indexes[i].TableName))

(* What makes the output of a schema one in order.                         *)
Placed(keys, objects, indexes) ==
  /\ \A i \in 1..Len(objects) : NamedAsWritten(objects[i])
  /\ PartitionsPlaced(keys, objects)
  /\ IndexesPlaced(keys, objects, indexes)

UsesPlaced ==
  /\ Placed(DOMAIN tableIndex, Objects, Indexes)
  /\ \A u \in Range(Unknowns) : PassedThrough(u)

(* The CREATE of an object needs nothing in front, but for a partition.    *)
LEMMA CreateNeedsNothing ==
  ASSUME NEW kind, kind # "PARTITION", NEW sql
  PROVE  ~ Dependent(createText(kind, sql))
BY DEF Dependent, createText, Stmt

(* An ALTER needs the CREATE of its object.                                *)
LEMMA AlterNeedsCreate ==
  ASSUME NEW created, NEW altered, normIdent(altered.Name) = normIdent(created.Name),
         Dependent(alterText(altered))
  PROVE  IsNeededBy(createText(altered.Kind, created), alterText(altered))
<1> DEFINE text == alterText(altered)
<1>1. /\ text.Type \in {"AlterFunctionOpts", "AlterObjectOpts"}
      /\ altered.Kind \in KeptAlterKinds
  BY DEF Dependent, alterText, Stmt, KeptAlterKinds
<1>2. text.V = [Kind |-> altered.Kind, Name |-> normIdent(altered.Name), SQL |-> altered]
  BY <1>1 DEF alterText, Stmt
<1>3. LET e == createText(altered.Kind, created) IN
      /\ e.Type = "CreateObject" /\ e.V.Kind = altered.Kind
      /\ e.V.Name = normIdent(altered.Name)
  BY DEF createText, Stmt
<1> DEFINE e == createText(altered.Kind, created)
<1> HIDE DEF text, e
<1>4. IsNeededBy(e, text) <=> DefinesObject(e, text.V.Kind, text.V.Name)
  BY <1>1 DEF IsNeededBy
<1>5. DefinesObject(e, text.V.Kind, text.V.Name)
  BY <1>2, <1>3 DEF DefinesObject, e
<1> QED
  BY <1>4, <1>5 DEF text, e

(* A section without partitions has each ALTER behind its object.          *)
LEMMA SectionOrdered ==
  ASSUME Objects \in Seq(StoredObject), \A i \in 1..Len(Objects) : NamedAsWritten(Objects[i]),
         NEW kinds, "PARTITION" \notin kinds, NEW withAlters \in BOOLEAN
  PROVE  Behind({}, emitObjects(kinds, withAlters))
<1> DEFINE create(i) == createText(Objects[i].Kind, Objects[i].SQL)
           alters(i) == IF withAlters THEN Each(Objects[i].PostAlters, alterText)
                                      ELSE <<>>
           part(i) == IF Objects[i].Kind \notin kinds THEN <<>>
                                                      ELSE <<create(i)>> \o alters(i)
           parts == [i \in DOMAIN Objects |-> part(i)]
<1>1. emitObjects(kinds, withAlters) = FlattenSeq(parts)
  BY DEF emitObjects
<1>2. Len(Objects) \in Nat /\ DOMAIN Objects = 1..Len(Objects)
  OBVIOUS
<1>3. IsSlice(<<>>)
  <2>1. <<>> \in Seq({})
    OBVIOUS
  <2> QED
    BY <2>1, SeqIsSlice
<1>4. ASSUME NEW i \in DOMAIN Objects, Objects[i].Kind \in kinds
      PROVE  /\ IsSlice(alters(i))
             /\ Behind({create(i)}, alters(i))
  <2>1. CASE ~ withAlters
    BY <1>3, <2>1 DEF Behind
  <2>2. CASE withAlters
    <3> DEFINE kept == Objects[i].PostAlters
               printed == Each(kept, alterText)
    <3>1. kept \in Seq(AlterSql)
      <4>1. Objects[i] \in StoredObject
        OBVIOUS
      <4> QED
        BY <4>1 DEF StoredObject, GenericObject
    <3>2. printed = [j \in DOMAIN kept |-> alterText(kept[j])]
      BY DEF Each
    <3>3. IsSlice(printed)
      <4>1. IsSlice(kept) /\ printed = [j \in DOMAIN kept |-> printed[j]]
        BY <3>1, <3>2, SeqIsSlice
      <4> QED
        BY <4>1, EachIsSlice
    <3>4. DOMAIN kept = 1..Len(kept) /\ Len(kept) \in Nat /\ Len(printed) = Len(kept)
      BY <3>1, <3>2
    <3>5. NamedAsWritten(Objects[i])
      BY <1>2
    <3>6. ASSUME NEW j \in 1..Len(printed), Dependent(printed[j])
          PROVE  IsNeededBy(create(i), printed[j])
      <4>1. printed[j] = alterText(kept[j]) /\ j \in DOMAIN kept
        BY <3>2, <3>4
      <4>2. /\ kept[j].Kind = Objects[i].Kind
            /\ normIdent(kept[j].Name) = normIdent(Objects[i].SQL.Name)
        BY <3>5, <4>1 DEF NamedAsWritten
      <4> HIDE DEF kept, printed
      <4>3. IsNeededBy(createText(kept[j].Kind, Objects[i].SQL), alterText(kept[j]))
        BY <3>6, <4>1, <4>2, AlterNeedsCreate
      <4> QED
        BY <4>1, <4>2, <4>3
    <3> HIDE DEF create, printed
    <3>7. Behind({create(i)}, printed)
      BY <3>6 DEF Behind
    <3> QED
      BY <2>2, <3>3, <3>7 DEF printed
  <2> QED
    BY <2>1, <2>2
<1>5. ASSUME NEW i \in DOMAIN Objects PROVE IsSlice(part(i)) /\ Behind({}, part(i))
  <2>1. CASE Objects[i].Kind \notin kinds
    BY <1>3, <2>1 DEF Behind
  <2>2. CASE Objects[i].Kind \in kinds
    <3> HIDE DEF alters
    <3>1. ~ Dependent(create(i))
      BY <2>2, CreateNeedsNothing
    <3> HIDE DEF create
    <3> DEFINE first == <<create(i)>>
    <3>2. first \in Seq({create(i)}) /\ Len(first) = 1 /\ first[1] = create(i)
      OBVIOUS
    <3>3. IsSlice(first) /\ Range(first) = {create(i)}
      <4>1. DOMAIN first = {1} /\ Range(first) = {first[m] : m \in DOMAIN first}
        BY <3>2 DEF Range
      <4> HIDE DEF first
      <4> QED
        BY <3>2, <4>1, SeqIsSlice
    <3>4. Behind({}, first)
      BY <3>1, <3>2 DEF Behind
    <3> HIDE DEF first
    <3>5. {} \cup Range(first) = {create(i)}
      BY <3>3
    <3>6. IsSlice(first \o alters(i)) /\ Behind({}, first \o alters(i))
      BY <1>4, <2>2, <3>3, <3>4, <3>5, ConcatFacts, BehindConcat
    <3> QED
      BY <2>2, <3>6 DEF first
  <2> QED
    BY <2>1, <2>2
<1> HIDE DEF part
<1>6. DOMAIN parts = 1..Len(Objects) /\ Len(parts) = Len(Objects)
  BY <1>2
<1>7. IsSlice(parts)
  <2>1. parts = [i \in DOMAIN Objects |-> parts[i]] /\ IsSlice(Objects)
    BY SeqIsSlice
  <2> HIDE DEF parts
  <2> QED
    BY <2>1, EachIsSlice
<1>8. ASSUME NEW i \in 1..Len(parts)
      PROVE  /\ IsSlice(parts[i])
             /\ Behind({} \cup UNION {Range(parts[j]) : j \in 1..(i - 1)}, parts[i])
  <2>1. parts[i] = part(i) /\ i \in DOMAIN Objects
    BY <1>2, <1>6
  <2> HIDE DEF parts
  <2>2. IsSlice(parts[i]) /\ Behind({}, parts[i])
    BY <1>5, <2>1
  <2> QED
    BY <2>2, BehindMore
<1> HIDE DEF parts
<1> QED
  BY <1>1, <1>7, <1>8, BehindFlatten

(* The texts that provide a table: of the tables, and of the partitions    *)
(* among the first n objects.                                              *)
TableTexts == Range(Each(Tables, emitTable))
PartitionTexts(n) ==
  {createText(Objects[j].Kind, Objects[j].SQL) :
     j \in {m \in 1..n : Objects[m].Kind = "PARTITION"}}

(* What the schema provides is defined by one of those texts.              *)
LEMMA ProvidedIsDefined ==
  ASSUME TablesOK, \A i \in 1..Len(Objects) : NamedAsWritten(Objects[i]),
         NEW n \in 0..Len(Objects), NEW name,
         Provides(DOMAIN tableIndex, Objects, n, normIdent(name))
  PROVE  \E e \in TableTexts \cup PartitionTexts(n) : DefinesTable(e, name)
<1> DEFINE key == normIdent(name)
<1>1. CASE key \in DOMAIN tableIndex
  <2> DEFINE i == tableIndex[key]
             t == Tables[i]
             e == emitTable(t)
  <2>1. IsSlice(Tables) /\ Sound(tableIndex, normKeys(Tables))
    BY DEF TablesOK, Keyed
  <2>2. i \in 1..Len(Tables) /\ normKeys(Tables)[i] = key
    BY <1>1, <2>1, KeyedDrop DEF Sound
  <2>3. DOMAIN Tables = 1..Len(Tables)
    BY <2>1, SliceWithin
  <2>4. normIdent(t.Name) = key
    BY <2>2, <2>3 DEF normKeys
  <2>5. e.Type = "CreateTable" /\ e.V.Name = t.Name
    <3>1. t = [Name |-> t.Name, Columns |-> t.Columns, Constraints |-> t.Constraints]
      BY <2>2 DEF TablesOK, IsTableDef
    <3> HIDE DEF t
    <3> QED
      BY <3>1 DEF emitTable, Stmt
  <2>6. e \in TableTexts
    <3>1. i \in DOMAIN Each(Tables, emitTable) /\ Each(Tables, emitTable)[i] = e
      BY <2>2, <2>3 DEF Each
    <3> QED
      BY <3>1 DEF TableTexts, Range
  <2>7. DefinesTable(e, name)
    BY <2>4, <2>5 DEF DefinesTable
  <2> QED
    BY <2>6, <2>7
<1>2. CASE key \notin DOMAIN tableIndex
  <2>1. PICK j \in 1..n : Objects[j].Kind = "PARTITION" /\ Objects[j].Name = key
    BY <1>2 DEF Provides
  <2> DEFINE e == createText(Objects[j].Kind, Objects[j].SQL)
  <2>2. j \in 1..Len(Objects)
    <3>1. n <= Len(Objects) /\ n \in Int /\ j <= n
      OBVIOUS
    <3> QED
      BY <3>1
  <2>3. normIdent(Objects[j].SQL.Name) = key
    BY <2>1, <2>2 DEF NamedAsWritten
  <2>4. e.Type = "CreateObject" /\ e.V.Kind = "PARTITION" /\ e.V.Name = key
    BY <2>1, <2>3 DEF createText, Stmt
  <2>5. e \in PartitionTexts(n)
    BY <2>1 DEF PartitionTexts
  <2>6. DefinesTable(e, name)
    BY <2>4 DEF DefinesTable
  <2> QED
    BY <2>5, <2>6
<1> QED
  BY <1>1, <1>2

(* The partitions behind the tables, each behind what it is a part of.     *)
LEMMA PartitionsOrdered ==
  ASSUME Objects \in Seq(StoredObject), TablesOK,
         \A i \in 1..Len(Objects) : NamedAsWritten(Objects[i]),
         PartitionsPlaced(DOMAIN tableIndex, Objects)
  PROVE  /\ Behind(TableTexts, emitObjects({"PARTITION"}, FALSE))
         /\ PartitionTexts(Len(Objects)) \subseteq Range(emitObjects({"PARTITION"}, FALSE))
<1> DEFINE create(i) == createText(Objects[i].Kind, Objects[i].SQL)
           part(i) == IF Objects[i].Kind \notin {"PARTITION"} THEN <<>>
                                                               ELSE <<create(i)>> \o <<>>
           parts == [i \in DOMAIN Objects |-> part(i)]
<1>1. emitObjects({"PARTITION"}, FALSE) = FlattenSeq(parts)
  BY DEF emitObjects
<1>2. Len(Objects) \in Nat /\ DOMAIN Objects = 1..Len(Objects)
  OBVIOUS
<1>3. ASSUME NEW i \in DOMAIN Objects
      PROVE  /\ part(i) \in Seq({create(i)})
             /\ Objects[i].Kind # "PARTITION" => Len(part(i)) = 0
             /\ Objects[i].Kind = "PARTITION" => Len(part(i)) = 1 /\ part(i)[1] = create(i)
  <2> DEFINE c == create(i)
  <2> HIDE DEF c
  <2>1. /\ <<>> \in Seq({c}) /\ Len(<<>>) = 0
        /\ <<c>> \o <<>> \in Seq({c}) /\ Len(<<c>> \o <<>>) = 1 /\ (<<c>> \o <<>>)[1] = c
    OBVIOUS
  <2> QED
    BY <2>1 DEF c
<1> HIDE DEF part
<1>4. /\ DOMAIN parts = 1..Len(Objects) /\ Len(parts) = Len(Objects)
      /\ \A i \in 1..Len(Objects) : parts[i] = part(i)
  BY <1>2
<1>5. IsSlice(parts)
  <2>1. parts = [i \in DOMAIN Objects |-> parts[i]] /\ IsSlice(Objects)
    BY SeqIsSlice
  <2> HIDE DEF parts
  <2> QED
    BY <2>1, EachIsSlice
<1> HIDE DEF parts
<1>6. ASSUME NEW j \in 1..Len(Objects), Objects[j].Kind = "PARTITION"
      PROVE  create(j) \in Range(parts[j])
  <2>1. parts[j] \in Seq({create(j)}) /\ Len(parts[j]) = 1 /\ parts[j][1] = create(j)
    BY <1>2, <1>3, <1>4, <1>6
  <2> HIDE DEF create
  <2>2. 1 \in DOMAIN parts[j]
    BY <2>1
  <2> QED
    BY <2>1, <2>2 DEF Range
<1>7. ASSUME NEW i \in 1..Len(parts)
      PROVE  /\ IsSlice(parts[i])
             /\ Behind(TableTexts \cup UNION {Range(parts[j]) : j \in 1..(i - 1)}, parts[i])
  <2> DEFINE before == TableTexts \cup UNION {Range(parts[j]) : j \in 1..(i - 1)}
  <2>1. /\ parts[i] \in Seq({create(i)})
        /\ Objects[i].Kind # "PARTITION" => Len(parts[i]) = 0
        /\ Objects[i].Kind = "PARTITION" => Len(parts[i]) = 1 /\ parts[i][1] = create(i)
    BY <1>2, <1>3, <1>4
  <2>2. CASE Objects[i].Kind # "PARTITION"
    BY <2>1, <2>2, SeqIsSlice DEF Behind
  <2>3. CASE Objects[i].Kind = "PARTITION"
    <3> DEFINE body == Objects[i].SQL.Body
    <3>1. i \in 1..Len(Objects) /\ i - 1 \in 0..Len(Objects)
      BY <1>2, <1>4
    <3>2. Provides(DOMAIN tableIndex, Objects, i - 1, normIdent(body))
      BY <2>3, <3>1 DEF PartitionsPlaced
    <3>3. PICK e \in TableTexts \cup PartitionTexts(i - 1) : DefinesTable(e, body)
      BY <3>1, <3>2, ProvidedIsDefined
    <3>4. PartitionTexts(i - 1) \subseteq before
      <4>1. ASSUME NEW j \in 1..(i - 1), Objects[j].Kind = "PARTITION"
            PROVE  create(j) \in before
        <5>1. j \in 1..Len(Objects)
          BY <1>2, <3>1
        <5> QED
          BY <1>6, <4>1, <5>1
      <4> QED
        BY <4>1 DEF PartitionTexts
    <3>5. IsNeededBy(e, create(i))
      <4>1. /\ create(i).Type = "CreateObject" /\ create(i).V.Kind = "PARTITION"
            /\ create(i).V.SQL.Body = body
        BY <2>3 DEF createText, Stmt
      <4> QED
        BY <3>3, <4>1 DEF IsNeededBy
    <3>6. e \in before
      BY <3>3, <3>4
    <3> HIDE DEF create, before
    <3>7. Behind(before, parts[i])
      BY <2>1, <2>3, <3>5, <3>6 DEF Behind
    <3> QED
      BY <2>1, <3>7, SeqIsSlice DEF before
  <2> QED
    BY <2>2, <2>3
<1>8. Behind(TableTexts, FlattenSeq(parts))
  BY <1>5, <1>7, BehindFlatten
<1>9. PartitionTexts(Len(Objects)) \subseteq Range(FlattenSeq(parts))
  <2>1. ASSUME NEW j \in 1..Len(Objects), Objects[j].Kind = "PARTITION"
        PROVE  create(j) \in Range(FlattenSeq(parts))
    <3>1. \A i \in DOMAIN parts : IsSlice(parts[i])
      BY <1>4, <1>7
    <3>2. Range(parts[j]) \subseteq Range(FlattenSeq(parts))
      BY <1>4, <1>5, <3>1, FlattenFacts
    <3> QED
      BY <1>6, <2>1, <3>2
  <2> QED
    BY <2>1 DEF PartitionTexts
<1> QED
  BY <1>1, <1>8, <1>9

(* What Emit makes of a slice element by element, if no text of it refers  *)
(* to anything.                                                            *)
LEMMA EachOrdered ==
  ASSUME NEW s, IsSlice(s), NEW texts_, texts_ = [i \in DOMAIN s |-> texts_[i]],
         \A i \in DOMAIN s : ~ Dependent(texts_[i])
  PROVE  IsSlice(texts_) /\ Behind({}, texts_)
<1>1. DOMAIN texts_ = DOMAIN s /\ IsSlice(texts_)
  BY EachIsSlice
<1>2. DOMAIN texts_ = 1..Len(texts_)
  BY <1>1, SliceWithin
<1> QED
  BY <1>1, <1>2 DEF Behind

(* The sections that refer to nothing in front of them.                    *)
LEMMA SectionsStandAlone ==
  ASSUME SchemaInv, IsSlice(Unknowns), UsesPlaced
  PROVE  \A part \in
           {emitObjects({"SCHEMA"}, FALSE), emitObjects({"EXTENSION"}, TRUE),
            Each(Sequences, emitSequence), Each(Types, emitType),
            emitObjects({"TYPE"}, FALSE), emitObjects({"DOMAIN"}, TRUE),
            Each(Tables, emitTable),
            emitObjects({"FUNCTION", "PROCEDURE"}, TRUE),
            emitObjects({"VIEW", "MATERIALIZED VIEW"}, TRUE),
            emitObjects({"TRIGGER"}, FALSE), emitObjects({"POLICY", "RULE"}, TRUE),
            Each(Truncates, emitTruncate), Each(Unknowns, unknownText)} :
           IsSlice(part) /\ Behind({}, part)
<1>1. /\ IsSlice(Sequences) /\ IsSlice(Types) /\ IsSlice(Tables)
      /\ IsSlice(Truncates) /\ Objects \in Seq(StoredObject)
  BY SeqIsSlice DEF SchemaInv, SeqTypeOK, EnumInv, TableInv, TablesOK,
                    TruncatesOK, ObjInv, Keyed
<1>2. ASSUME NEW kinds, "PARTITION" \notin kinds, NEW withAlters \in BOOLEAN
      PROVE  /\ IsSlice(emitObjects(kinds, withAlters))
             /\ Behind({}, emitObjects(kinds, withAlters))
  BY <1>1, <1>2, SectionFacts, SectionOrdered DEF UsesPlaced, Placed
<1>3. IsSlice(Each(Sequences, emitSequence)) /\ Behind({}, Each(Sequences, emitSequence))
  <2> DEFINE made == Each(Sequences, emitSequence)
  <2>1. made = [i \in DOMAIN Sequences |-> emitSequence(Sequences[i])]
    BY DEF Each
  <2>2. made = [i \in DOMAIN Sequences |-> made[i]]
    BY <2>1
  <2>3. \A i \in DOMAIN Sequences : made[i] = emitSequence(Sequences[i])
    BY <2>1
  <2> HIDE DEF made
  <2>4. \A i \in DOMAIN Sequences : ~ Dependent(made[i])
    <3>1. ASSUME NEW t PROVE emitSequence(t).Type = "CreateSequence"
      BY DEF emitSequence, Stmt
    <3>2. \A i \in DOMAIN Sequences : made[i].Type = "CreateSequence"
      BY <2>3, <3>1
    <3> QED
      BY <3>2 DEF Dependent
  <2>5. IsSlice(made) /\ Behind({}, made)
    BY <1>1, <2>2, <2>4, EachOrdered
  <2> QED
    BY <2>5 DEF made
<1>4. IsSlice(Each(Types, emitType)) /\ Behind({}, Each(Types, emitType))
  <2> DEFINE made == Each(Types, emitType)
  <2>1. made = [i \in DOMAIN Types |-> emitType(Types[i])]
    BY DEF Each
  <2>2. made = [i \in DOMAIN Types |-> made[i]]
    BY <2>1
  <2>3. \A i \in DOMAIN Types : made[i] = emitType(Types[i])
    BY <2>1
  <2> HIDE DEF made
  <2>4. \A i \in DOMAIN Types : ~ Dependent(made[i])
    <3>1. ASSUME NEW t PROVE emitType(t).Type = "CreateTypeLines"
      BY DEF emitType, Stmt
    <3>2. \A i \in DOMAIN Types : made[i].Type = "CreateTypeLines"
      BY <2>3, <3>1
    <3> QED
      BY <3>2 DEF Dependent
  <2>5. IsSlice(made) /\ Behind({}, made)
    BY <1>1, <2>2, <2>4, EachOrdered
  <2> QED
    BY <2>5 DEF made
<1>5. IsSlice(Each(Tables, emitTable)) /\ Behind({}, Each(Tables, emitTable))
  <2> DEFINE made == Each(Tables, emitTable)
  <2>1. made = [i \in DOMAIN Tables |-> emitTable(Tables[i])]
    BY DEF Each
  <2>2. made = [i \in DOMAIN Tables |-> made[i]]
    BY <2>1
  <2>3. \A i \in DOMAIN Tables : made[i] = emitTable(Tables[i])
    BY <2>1
  <2> HIDE DEF made
  <2>4. \A i \in DOMAIN Tables : ~ Dependent(made[i])
    <3>1. ASSUME NEW t PROVE emitTable(t).Type = "CreateTable"
      BY DEF emitTable, Stmt
    <3>2. \A i \in DOMAIN Tables : made[i].Type = "CreateTable"
      BY <2>3, <3>1
    <3> QED
      BY <3>2 DEF Dependent
  <2>5. IsSlice(made) /\ Behind({}, made)
    BY <1>1, <2>2, <2>4, EachOrdered
  <2> QED
    BY <2>5 DEF made
<1>6. IsSlice(Each(Truncates, emitTruncate)) /\ Behind({}, Each(Truncates, emitTruncate))
  <2> DEFINE made == Each(Truncates, emitTruncate)
  <2>1. made = [i \in DOMAIN Truncates |-> emitTruncate(Truncates[i])]
    BY DEF Each
  <2>2. made = [i \in DOMAIN Truncates |-> made[i]]
    BY <2>1
  <2>3. \A i \in DOMAIN Truncates : made[i] = emitTruncate(Truncates[i])
    BY <2>1
  <2> HIDE DEF made
  <2>4. \A i \in DOMAIN Truncates : ~ Dependent(made[i])
    <3>1. ASSUME NEW t PROVE emitTruncate(t).Type = "Truncate"
      BY DEF emitTruncate, Stmt
    <3>2. \A i \in DOMAIN Truncates : made[i].Type = "Truncate"
      BY <2>3, <3>1
    <3> QED
      BY <3>2 DEF Dependent
  <2>5. IsSlice(made) /\ Behind({}, made)
    BY <1>1, <2>2, <2>4, EachOrdered
  <2> QED
    BY <2>5 DEF made
<1>7. IsSlice(Each(Unknowns, unknownText)) /\ Behind({}, Each(Unknowns, unknownText))
  <2> DEFINE made == Each(Unknowns, unknownText)
  <2>1. made = [i \in DOMAIN Unknowns |-> unknownText(Unknowns[i])]
    BY DEF Each
  <2>2. made = [i \in DOMAIN Unknowns |-> made[i]]
    BY <2>1
  <2>3. \A i \in DOMAIN Unknowns : made[i] = unknownText(Unknowns[i])
    BY <2>1
  <2> HIDE DEF made
  <2>4. \A i \in DOMAIN Unknowns : PassedThrough(Unknowns[i])
    BY DEF UsesPlaced, Placed, Range
  <2>5. ASSUME NEW u, PassedThrough(u) PROVE ~ Dependent(unknownText(u))
    BY <2>5 DEF PassedThrough, unknownText, alterText, Dependent, Stmt, KeptAlterKinds
  <2>6. \A i \in DOMAIN Unknowns : ~ Dependent(made[i])
    BY <2>3, <2>4, <2>5
  <2>7. IsSlice(made) /\ Behind({}, made)
    BY <2>2, <2>6, EachOrdered
  <2> QED
    BY <2>7 DEF made
<1> QED
  BY <1>2, <1>3, <1>4, <1>5, <1>6, <1>7

(* The tables and partitions, then the indexes on them.                    *)
LEMMA TablesOrdered ==
  ASSUME SchemaInv, IsSlice(Unknowns), UsesPlaced
  PROVE  /\ IsSlice(emitTables) /\ Behind({}, emitTables)
         /\ IsSlice(Each(Indexes, emitIndex))
         /\ Behind(Range(emitTables), Each(Indexes, emitIndex))
<1> DEFINE tables == Each(Tables, emitTable)
           partitions == emitObjects({"PARTITION"}, FALSE)
           indexes == Each(Indexes, emitIndex)
           n == Len(Objects)
<1>1. /\ Objects \in Seq(StoredObject) /\ TablesOK /\ n \in Nat
      /\ IsSlice(Indexes)
  BY DEF SchemaInv, TableInv, ObjInv, IndexesOK, Keyed
<1>2. IsSlice(tables) /\ Behind({}, tables)
  BY SectionsStandAlone
<1>3. /\ IsSlice(partitions) /\ Behind(TableTexts, partitions)
      /\ PartitionTexts(n) \subseteq Range(partitions)
  BY <1>1, SectionFacts, PartitionsOrdered DEF UsesPlaced, Placed
<1>4. emitTables = tables \o partitions /\ TableTexts = Range(tables)
  BY DEF emitTables, TableTexts
<1> HIDE DEF tables, partitions
<1>5. {} \cup Range(tables) = TableTexts
  BY <1>4
<1>6. Behind({} \cup Range(tables), partitions)
  BY <1>3, <1>5
<1>7. IsSlice(emitTables) /\ Behind({}, emitTables)
  BY <1>2, <1>3, <1>4, <1>6, ConcatFacts, BehindConcat
<1>8. TableTexts \cup PartitionTexts(n) \subseteq Range(emitTables)
  BY <1>2, <1>3, <1>4, ConcatFacts
<1>9. indexes = [i \in DOMAIN Indexes |-> emitIndex(Indexes[i])]
  BY DEF Each
<1>10. IsSlice(indexes) /\ DOMAIN Indexes = 1..Len(Indexes) /\ Len(indexes) = Len(Indexes)
  <2>1. indexes = [i \in DOMAIN Indexes |-> indexes[i]] /\ DOMAIN indexes = DOMAIN Indexes
    BY <1>9
  <2> HIDE DEF indexes
  <2>2. IsSlice(indexes)
    BY <1>1, <2>1, EachIsSlice
  <2>3. DOMAIN Indexes = 1..Len(Indexes) /\ Len(Indexes) \in Nat
    BY <1>1, SliceWithin
  <2>4. DOMAIN indexes = 1..Len(indexes) /\ Len(indexes) \in Nat
    BY <2>2, SliceWithin
  <2> QED
    BY <2>1, <2>2, <2>3, <2>4
<1>11. ASSUME NEW i \in 1..Len(indexes)
       PROVE  \E e \in Range(emitTables) : IsNeededBy(e, indexes[i])
  <2> DEFINE table == Indexes[i].TableName
  <2>1. i \in 1..Len(Indexes) /\ indexes[i] = emitIndex(Indexes[i])
    BY <1>9, <1>10
  <2>2. Provides(DOMAIN tableIndex, Objects, n, normIdent(table))
    BY <2>1 DEF UsesPlaced, Placed, IndexesPlaced
  <2>3. n \in 0..Len(Objects)
    BY <1>1
  <2>4. PICK e \in TableTexts \cup PartitionTexts(n) : DefinesTable(e, table)
    BY <1>1, <2>2, <2>3, ProvidedIsDefined DEF UsesPlaced, Placed
  <2>5. indexes[i].Type = "CreateIndex" /\ indexes[i].V.TableName = table
    <3>1. indexes[i] = [Type |-> "CreateIndex", V |-> Indexes[i]]
      BY <2>1 DEF emitIndex, Stmt
    <3> HIDE DEF indexes
    <3> QED
      BY <3>1
  <2>6. IsNeededBy(e, indexes[i])
    BY <2>4, <2>5 DEF IsNeededBy
  <2> QED
    BY <1>8, <2>4, <2>6
<1> HIDE DEF indexes
<1>12. Behind(Range(emitTables), indexes)
  BY <1>11 DEF Behind
<1> QED
  BY <1>7, <1>10, <1>12 DEF indexes

(* The whole output, section behind section.                               *)
LEMMA EmitOrdered ==
  ASSUME SchemaInv, IsSlice(Unknowns), UsesPlaced
  PROVE  UsesFollowDefinitions(Emit)
<1> DEFINE Alone(part) == IsSlice(part) /\ Behind({}, part)
           schemas == emitObjects({"SCHEMA"}, FALSE)
           extensions == emitObjects({"EXTENSION"}, TRUE)
           sequences == Each(Sequences, emitSequence)
           enums == Each(Types, emitType)
           types == emitObjects({"TYPE"}, FALSE)
           domains == emitObjects({"DOMAIN"}, TRUE)
           all == emitTables
           indexes == Each(Indexes, emitIndex)
           functions == emitObjects({"FUNCTION", "PROCEDURE"}, TRUE)
           views == emitObjects({"VIEW", "MATERIALIZED VIEW"}, TRUE)
           triggers == emitObjects({"TRIGGER"}, FALSE)
           policies == emitObjects({"POLICY", "RULE"}, TRUE)
           truncates == Each(Truncates, emitTruncate)
           unknowns == Each(Unknowns, unknownText)
<1>1. /\ Alone(schemas) /\ Alone(extensions) /\ Alone(sequences) /\ Alone(enums)
      /\ Alone(types) /\ Alone(domains) /\ Alone(functions) /\ Alone(views)
      /\ Alone(triggers) /\ Alone(policies) /\ Alone(truncates) /\ Alone(unknowns)
  BY SectionsStandAlone
<1>2. Alone(all) /\ IsSlice(indexes) /\ Behind(Range(all), indexes)
  BY TablesOrdered
<1>3. Emit = schemas \o extensions \o sequences \o enums \o types \o domains
               \o all \o indexes \o functions \o views \o triggers
               \o policies \o truncates \o unknowns
  BY DEF Emit
<1> HIDE DEF schemas, extensions, sequences, enums, types, domains, all, indexes,
             functions, views, triggers, policies, truncates, unknowns
<1>4. ASSUME NEW a, Alone(a), NEW b, Alone(b)
      PROVE  Alone(a \o b) /\ Range(b) \subseteq Range(a \o b)
  <2>1. Behind({} \cup Range(a), b)
    BY <1>4, BehindMore
  <2> QED
    BY <1>4, <2>1, ConcatFacts, BehindConcat
<1> DEFINE to2 == schemas \o extensions
           to3 == to2 \o sequences
           to4 == to3 \o enums
           to5 == to4 \o types
           to6 == to5 \o domains
           to7 == to6 \o all
           to8 == to7 \o indexes
           to9 == to8 \o functions
           to10 == to9 \o views
           to11 == to10 \o triggers
           to12 == to11 \o policies
           to13 == to12 \o truncates
           to14 == to13 \o unknowns
<1>5. Emit = to14
  BY <1>3
<1> HIDE DEF Alone
<1>6. Alone(to2)
  BY <1>1, <1>4
<1> HIDE DEF to2
<1>7. Alone(to3)
  BY <1>1, <1>6, <1>4
<1> HIDE DEF to3
<1>8. Alone(to4)
  BY <1>1, <1>7, <1>4
<1> HIDE DEF to4
<1>9. Alone(to5)
  BY <1>1, <1>8, <1>4
<1> HIDE DEF to5
<1>10. Alone(to6)
  BY <1>1, <1>9, <1>4
<1> HIDE DEF to6
<1>11. Alone(to7) /\ Range(all) \subseteq Range(to7)
  BY <1>2, <1>10, <1>4
<1> HIDE DEF to7
<1>12. Alone(to8)
  <2>1. Range(all) \subseteq {} \cup Range(to7)
    BY <1>11
  <2> HIDE DEF to7
  <2>2. Behind({} \cup Range(to7), indexes)
    BY <1>2, <2>1, BehindMore
  <2>3. IsSlice(to7) /\ Behind({}, to7)
    BY <1>11 DEF Alone
  <2>4. IsSlice(to7 \o indexes) /\ Behind({}, to7 \o indexes)
    BY <1>2, <2>2, <2>3, ConcatFacts, BehindConcat
  <2> QED
    BY <2>4 DEF Alone
<1> HIDE DEF to8
<1>13. Alone(to9)
  BY <1>1, <1>12, <1>4
<1> HIDE DEF to9
<1>14. Alone(to10)
  BY <1>1, <1>13, <1>4
<1> HIDE DEF to10
<1>15. Alone(to11)
  BY <1>1, <1>14, <1>4
<1> HIDE DEF to11
<1>16. Alone(to12)
  BY <1>1, <1>15, <1>4
<1> HIDE DEF to12
<1>17. Alone(to13)
  BY <1>1, <1>16, <1>4
<1> HIDE DEF to13
<1>18. Alone(to14)
  BY <1>1, <1>17, <1>4
<1> HIDE DEF to14
<1> QED
  <2>1. Behind({}, Emit)
    BY <1>5, <1>18 DEF to2, to3, to4, to5, to6, to7, to8, to9, to10, to11, to12, to13, Alone
  <2>2. IsSlice(Emit)
    BY <1>5, <1>18 DEF to2, to3, to4, to5, to6, to7, to8, to9, to10, to11, to12, to13, Alone
  <2>3. DOMAIN Emit = 1..Len(Emit)
    BY <2>2, SliceWithin
  <2> QED
    BY <2>1, <2>3 DEF UsesFollowDefinitions, Before, Behind

-----------------------------------------------------------------------------
(* More tables do no harm.                                                 *)
LEMMA PlacedMore ==
  ASSUME NEW keys, NEW more, keys \subseteq more, NEW objects, NEW indexes,
         Placed(keys, objects, indexes)
  PROVE  Placed(more, objects, indexes)
BY DEF Placed, PartitionsPlaced, IndexesPlaced, Provides

(* No object is a partition of the table of this key, and an index that    *)
(* was on it is on a table that is left.                                   *)
NoPartitionOf(objects, key) ==
  \A i \in 1..Len(objects) :
    objects[i].Kind = "PARTITION" => normIdent(objects[i].SQL.Body) # key

CarriedOver(indexes, key, left, rest) ==
  \A i \in 1..Len(rest) :
    \/ normIdent(rest[i].TableName) \in left
    \/ \E j \in 1..Len(indexes) :
         /\ normIdent(indexes[j].TableName) # key
         /\ rest[i].TableName = indexes[j].TableName

(* Then the table can go, or get another name.                             *)
LEMMA PlacedWithout ==
  ASSUME NEW keys, NEW objects, NEW indexes, Placed(keys, objects, indexes),
         NEW gone, NoPartitionOf(objects, gone),
         NEW left, keys \ {gone} \subseteq left,
         NEW rest, CarriedOver(indexes, gone, left, rest)
  PROVE  Placed(left, objects, rest)
<1>1. ASSUME NEW n, NEW key, key # gone, Provides(keys, objects, n, key)
      PROVE  Provides(left, objects, n, key)
  BY <1>1 DEF Provides
<1>2. PartitionsPlaced(left, objects)
  BY <1>1 DEF Placed, PartitionsPlaced, NoPartitionOf
<1>3. IndexesPlaced(left, objects, rest)
  <2> SUFFICES ASSUME NEW i \in 1..Len(rest)
               PROVE  Provides(left, objects, Len(objects), normIdent(rest[i].TableName))
    BY DEF IndexesPlaced
  <2>1. CASE normIdent(rest[i].TableName) \in left
    BY <2>1 DEF Provides
  <2>2. ASSUME NEW j \in 1..Len(indexes), normIdent(indexes[j].TableName) # gone,
               rest[i].TableName = indexes[j].TableName
        PROVE  Provides(left, objects, Len(objects), normIdent(rest[i].TableName))
    <3>1. Provides(keys, objects, Len(objects), normIdent(indexes[j].TableName))
      BY DEF Placed, IndexesPlaced
    <3> QED
      BY <1>1, <2>2, <3>1
  <2> QED
    BY <2>1, <2>2 DEF CarriedOver
<1> QED
  BY <1>2, <1>3 DEF Placed

(* Any indexes can come that have their tables.                            *)
LEMMA PlacedIndexes ==
  ASSUME NEW keys, NEW objects, NEW indexes, Placed(keys, objects, indexes),
         NEW rest,
         \A i \in 1..Len(rest) :
           \/ Provides(keys, objects, Len(objects), normIdent(rest[i].TableName))
           \/ \E j \in 1..Len(indexes) : rest[i].TableName = indexes[j].TableName
  PROVE  Placed(keys, objects, rest)
BY DEF Placed, IndexesPlaced

(* An object is appended: a partition behind the one it is a part of.      *)
LEMMA PlacedAppended ==
  ASSUME NEW keys, NEW E, NEW objects \in Seq(E), NEW indexes,
         Placed(keys, objects, indexes), NEW e, NamedAsWritten(e),
         e.Kind = "PARTITION" =>
           Provides(keys, objects, Len(objects), normIdent(e.SQL.Body))
  PROVE  Placed(keys, Append(objects, e), indexes)
<1> DEFINE after == Append(objects, e)
           n == Len(objects)
<1>1. /\ n \in Nat /\ Len(after) = n + 1
      /\ \A i \in 1..n : after[i] = objects[i]
      /\ after[n + 1] = e
  <2> DEFINE U == E \cup {e}
  <2>1. E \subseteq U /\ e \in U
    OBVIOUS
  <2> HIDE DEF U
  <2> QED
    BY <2>1
<1> HIDE DEF after, n
<1>2. ASSUME NEW m \in Nat, m <= n, NEW key, Provides(keys, objects, m, key)
      PROVE  Provides(keys, after, m, key)
  BY <1>1, <1>2 DEF Provides
<1>3. ASSUME NEW m \in Nat, m <= n, NEW key, Provides(keys, after, m, key)
      PROVE  Provides(keys, after, m + 1, key)
  BY <1>1, <1>3 DEF Provides
<1>4. \A i \in 1..Len(after) : NamedAsWritten(after[i])
  BY <1>1 DEF Placed, n
<1>5. PartitionsPlaced(keys, after)
  <2> SUFFICES ASSUME NEW i \in 1..Len(after), after[i].Kind = "PARTITION"
               PROVE  Provides(keys, after, i - 1, normIdent(after[i].SQL.Body))
    BY DEF PartitionsPlaced
  <2>1. i - 1 \in Nat /\ i - 1 <= n
    BY <1>1
  <2>2. Provides(keys, objects, i - 1, normIdent(after[i].SQL.Body))
    <3>1. CASE i = n + 1
      BY <1>1, <3>1 DEF n
    <3>2. CASE i # n + 1
      <4>1. i \in 1..n /\ after[i] = objects[i]
        BY <1>1, <3>2
      <4> QED
        BY <4>1 DEF Placed, PartitionsPlaced, n
    <3> QED
      BY <3>1, <3>2
  <2> QED
    BY <1>2, <2>1, <2>2
<1>6. IndexesPlaced(keys, after, indexes)
  <2> SUFFICES ASSUME NEW i \in 1..Len(indexes)
               PROVE  Provides(keys, after, Len(after), normIdent(indexes[i].TableName))
    BY DEF IndexesPlaced
  <2>1. Provides(keys, objects, n, normIdent(indexes[i].TableName))
    BY DEF Placed, IndexesPlaced, n
  <2> QED
    BY <1>1, <1>2, <1>3, <2>1
<1> QED
  BY <1>4, <1>5, <1>6 DEF Placed, after

(* An object that is no partition changes, and does not become one.        *)
LEMMA PlacedReplaced ==
  ASSUME NEW keys, NEW E, NEW objects \in Seq(E), NEW indexes,
         Placed(keys, objects, indexes), NEW p \in 1..Len(objects), NEW e,
         objects[p].Kind # "PARTITION", e.Kind # "PARTITION", NamedAsWritten(e)
  PROVE  Placed(keys, [objects EXCEPT ![p] = e], indexes)
<1> DEFINE after == [objects EXCEPT ![p] = e]
<1>1. /\ Len(after) = Len(objects) /\ Len(objects) \in Nat
      /\ \A i \in 1..Len(objects) : after[i] = IF i = p THEN e ELSE objects[i]
  <2> DEFINE U == E \cup {e}
  <2>1. E \subseteq U /\ e \in U
    OBVIOUS
  <2> HIDE DEF U
  <2> QED
    BY <2>1
<1> HIDE DEF after
<1>2. ASSUME NEW n \in 0..Len(objects), NEW key, Provides(keys, objects, n, key)
      PROVE  Provides(keys, after, n, key)
  <2>1. CASE key \in keys
    BY <2>1 DEF Provides
  <2>2. CASE key \notin keys
    <3>1. PICK j \in 1..n : objects[j].Kind = "PARTITION" /\ objects[j].Name = key
      BY <1>2, <2>2 DEF Provides
    <3>2. j \in 1..Len(objects) /\ j # p
      BY <1>1, <3>1
    <3> QED
      BY <1>1, <3>1, <3>2 DEF Provides
  <2> QED
    BY <2>1, <2>2
<1>3. \A i \in 1..Len(after) : NamedAsWritten(after[i])
  BY <1>1 DEF Placed
<1>4. PartitionsPlaced(keys, after)
  <2> SUFFICES ASSUME NEW i \in 1..Len(after), after[i].Kind = "PARTITION"
               PROVE  Provides(keys, after, i - 1, normIdent(after[i].SQL.Body))
    BY DEF PartitionsPlaced
  <2>1. i \in 1..Len(objects) /\ after[i] = objects[i] /\ i - 1 \in 0..Len(objects)
    BY <1>1
  <2>2. Provides(keys, objects, i - 1, normIdent(after[i].SQL.Body))
    BY <2>1 DEF Placed, PartitionsPlaced
  <2> QED
    BY <1>2, <2>1, <2>2
<1>5. IndexesPlaced(keys, after, indexes)
  <2>1. Len(objects) \in 0..Len(objects)
    BY <1>1
  <2> QED
    BY <1>1, <1>2, <2>1 DEF Placed, IndexesPlaced
<1> QED
  BY <1>3, <1>4, <1>5 DEF Placed, after

(* An object goes: a partition only when it has no partitions and indexes. *)
LEMMA PlacedRemoved ==
  ASSUME NEW keys, NEW E, NEW objects \in Seq(E), NEW indexes,
         Placed(keys, objects, indexes), NEW p \in 1..Len(objects),
         objects[p].Kind = "PARTITION" =>
           /\ \A i \in 1..Len(objects) :
                objects[i].Kind = "PARTITION" =>
                  normIdent(objects[i].SQL.Body) # objects[p].Name
           /\ \A i \in 1..Len(indexes) :
                normIdent(indexes[i].TableName) = objects[p].Name =>
                  objects[p].Name \in keys
  PROVE  Placed(keys, RemoveAt(objects, p), indexes)
<1> DEFINE after == RemoveAt(objects, p)
           n == Len(objects)
<1>1. /\ Len(after) = n - 1 /\ n \in Nat /\ p \in 1..n
      /\ \A i \in 1..(n - 1) : after[i] = IF i < p THEN objects[i] ELSE objects[i + 1]
  <2>1. /\ Len(RemoveAt(objects, p)) = Len(objects) - 1
        /\ \A i \in 1..(Len(objects) - 1) :
             RemoveAt(objects, p)[i] = IF i < p THEN objects[i] ELSE objects[i + 1]
    BY RemoveAtFacts
  <2>2. Len(objects) \in Nat
    OBVIOUS
  <2> QED
    BY <2>1, <2>2
<1> HIDE DEF after, n
<1>2. ASSUME NEW m \in 0..n, NEW key, Provides(keys, objects, m, key),
             objects[p].Kind = "PARTITION" /\ objects[p].Name = key => key \in keys
      PROVE  Provides(keys, after, IF p <= m THEN m - 1 ELSE m, key)
  <2>1. CASE key \in keys
    BY <2>1 DEF Provides
  <2>2. CASE key \notin keys
    <3>1. PICK j \in 1..m : objects[j].Kind = "PARTITION" /\ objects[j].Name = key
      BY <1>2, <2>2 DEF Provides
    <3>2. j # p
      BY <1>2, <2>2, <3>1
    <3>3. CASE j < p
      <4>1. j \in 1..(n - 1) /\ after[j] = objects[j]
        BY <1>1, <3>3
      <4>2. j \in 1..(IF p <= m THEN m - 1 ELSE m)
        BY <1>1, <3>3
      <4> QED
        BY <3>1, <4>1, <4>2 DEF Provides
    <3>4. CASE j > p
      <4>1. j - 1 \in 1..(n - 1) /\ after[j - 1] = objects[j]
        BY <1>1, <3>4
      <4>2. j - 1 \in 1..(IF p <= m THEN m - 1 ELSE m)
        BY <1>1, <3>4
      <4> QED
        BY <3>1, <4>1, <4>2 DEF Provides
    <3> QED
      BY <1>1, <3>2, <3>3, <3>4
  <2> QED
    BY <2>1, <2>2
<1>3. ASSUME NEW i \in 1..Len(after)
      PROVE  LET q == IF i < p THEN i ELSE i + 1 IN
             /\ q \in 1..n /\ after[i] = objects[q]
             /\ (IF p <= q - 1 THEN q - 2 ELSE q - 1) = i - 1
  BY <1>1
<1>4. \A i \in 1..Len(after) : NamedAsWritten(after[i])
  BY <1>3 DEF Placed, n
<1>5. PartitionsPlaced(keys, after)
  <2> SUFFICES ASSUME NEW i \in 1..Len(after), after[i].Kind = "PARTITION"
               PROVE  Provides(keys, after, i - 1, normIdent(after[i].SQL.Body))
    BY DEF PartitionsPlaced
  <2> DEFINE q == IF i < p THEN i ELSE i + 1
  <2>1. /\ q \in 1..n /\ after[i] = objects[q]
        /\ (IF p <= q - 1 THEN q - 2 ELSE q - 1) = i - 1
    BY <1>3
  <2> HIDE DEF q
  <2>2. Provides(keys, objects, q - 1, normIdent(objects[q].SQL.Body))
    BY <2>1 DEF Placed, PartitionsPlaced, n
  <2>3. objects[p].Kind = "PARTITION" => normIdent(objects[q].SQL.Body) # objects[p].Name
    BY <2>1 DEF n
  <2>4. q - 1 \in 0..n /\ (q - 1) - 1 = q - 2
    BY <1>1, <2>1
  <2>5. Provides(keys, after, IF p <= q - 1 THEN q - 2 ELSE q - 1,
                 normIdent(objects[q].SQL.Body))
    BY <1>2, <2>2, <2>3, <2>4
  <2> QED
    BY <2>1, <2>5
<1>6. IndexesPlaced(keys, after, indexes)
  <2> SUFFICES ASSUME NEW i \in 1..Len(indexes)
               PROVE  Provides(keys, after, Len(after), normIdent(indexes[i].TableName))
    BY DEF IndexesPlaced
  <2>1. Provides(keys, objects, n, normIdent(indexes[i].TableName))
    BY DEF Placed, IndexesPlaced, n
  <2>2. n \in 0..n /\ p <= n
    BY <1>1
  <2>3. Provides(keys, after, n - 1, normIdent(indexes[i].TableName))
    BY <1>2, <2>1, <2>2
  <2> QED
    BY <1>1, <2>3
<1> QED
  BY <1>4, <1>5, <1>6 DEF Placed, after

(* The tables of a DROP TABLE, at any point of its list: nothing that stays *)
(* refers to one of them, but for the indexes that go with a table.        *)
DropPlaced(s, gone) ==
  /\ Placed(DOMAIN s.tableIndex, s.Objects, s.Indexes)
  /\ \A i \in 1..Len(s.Objects) :
       s.Objects[i].Kind = "PARTITION" => normIdent(s.Objects[i].SQL.Body) \notin gone
  /\ \A i \in 1..Len(s.Indexes) :
       LET key == normIdent(s.Indexes[i].TableName) IN
       key \in gone => key \in DOMAIN s.tableIndex

(* One name of the list.                                                   *)
LEMMA DropOneTablePlaced ==
  ASSUME PlainTokens, NEW s, DropOK(s), NEW gone, DropPlaced(s, gone),
         NEW name \in Token, normIdent(name) \in gone, NEW ifExists, NEW t,
         t = dropOneTable(s, name, ifExists)
  PROVE  DropPlaced(t, gone)
<1> DEFINE key == normIdent(name)
           partKey == objectKey("PARTITION", name)
<1>1. /\ IsDropState(s) /\ IsSlice(s.Indexes) /\ s.Objects \in Seq(StoredObject)
      /\ Sound(s.objectIdx, objectKeys(s.Objects))
  BY DEF DropOK, Keyed
<1>2. /\ Placed(DOMAIN s.tableIndex, s.Objects, s.Indexes)
      /\ \A i \in 1..Len(s.Objects) :
           s.Objects[i].Kind = "PARTITION" => normIdent(s.Objects[i].SQL.Body) \notin gone
      /\ \A i \in 1..Len(s.Indexes) :
           normIdent(s.Indexes[i].TableName) \in gone
             => normIdent(s.Indexes[i].TableName) \in DOMAIN s.tableIndex
  BY DEF DropPlaced
<1>3. CASE DropsNothing(s, t)
  BY <1>3 DEF DropsNothing, DropPlaced
<1>4. CASE DropsTable(s, t, key)
  <2>1. /\ t.Indexes = indexesWithout(s.Indexes, key) /\ t.Objects = s.Objects
        /\ t.tableIndex = Reindex(Delete(s.tableIndex, key), normKeys(t.Tables),
                                  s.tableIndex[key])
    BY <1>4 DEF DropsTable
  <2>2. DOMAIN s.tableIndex \ {key} \subseteq DOMAIN t.tableIndex
    BY <2>1 DEF Reindex, Delete
  <2>3. \A i \in 1..Len(t.Indexes) : \E j \in 1..Len(s.Indexes) :
          t.Indexes[i] = s.Indexes[j] /\ normIdent(s.Indexes[j].TableName) # key
    BY <1>1, <2>1, IndexesWithoutFacts
  <2>4. CarriedOver(s.Indexes, key, DOMAIN t.tableIndex, t.Indexes)
    BY <2>3 DEF CarriedOver
  <2>5. NoPartitionOf(s.Objects, key)
    BY <1>2 DEF NoPartitionOf
  <2> HIDE DEF key
  <2>6. Placed(DOMAIN t.tableIndex, s.Objects, t.Indexes)
    BY <1>2, <2>2, <2>4, <2>5, PlacedWithout
  <2>7. \A i \in 1..Len(t.Indexes) :
          normIdent(t.Indexes[i].TableName) \in gone
            => normIdent(t.Indexes[i].TableName) \in DOMAIN t.tableIndex
    BY <1>2, <2>2, <2>3
  <2> QED
    BY <1>2, <2>1, <2>6, <2>7 DEF DropPlaced
<1>5. CASE partKey \in DOMAIN s.objectIdx /\ DropsPartition(s, t, partKey)
  <2> DEFINE p == s.objectIdx[partKey]
             o == s.Objects[p]
  <2>1. /\ t.Indexes = s.Indexes /\ t.tableIndex = s.tableIndex
        /\ t.Objects = RemoveAt(s.Objects, p)
    BY <1>5 DEF DropsPartition
  <2>2. p \in 1..Len(s.Objects) /\ objectKeys(s.Objects)[p] = partKey
    BY <1>1, <1>5, ObjKeysFacts DEF Sound
  <2>3. o.Name = key
    <3>1. o \in StoredObject
      BY <1>1, <2>2, ElementOfSeq
    <3>2. o.Name \in NormalToken
      BY <3>1 DEF StoredObject, GenericObject
    <3>3. objectKeys(s.Objects)[p] = objectKey(o.Kind, o.Name)
      BY <1>1, <2>2 DEF objectKeys
    <3>4. partKey = <<"PARTITION", key>>
      BY PlainKeys
    <3>5. <<o.Kind, o.Name>> = <<"PARTITION", key>>
      BY <2>2, <3>2, <3>3, <3>4, NormalKeys
    <3> HIDE DEF o, key
    <3> QED
      BY <3>5
  <2>4. /\ \A i \in 1..Len(s.Objects) :
             s.Objects[i].Kind = "PARTITION" => normIdent(s.Objects[i].SQL.Body) # o.Name
        /\ \A i \in 1..Len(s.Indexes) :
             normIdent(s.Indexes[i].TableName) = o.Name => o.Name \in DOMAIN s.tableIndex
    BY <1>2, <2>3
  <2> HIDE DEF p
  <2>5. Placed(DOMAIN s.tableIndex, RemoveAt(s.Objects, p), s.Indexes)
    BY <1>1, <1>2, <2>2, <2>4, PlacedRemoved
  <2>6. \A i \in 1..Len(t.Objects) : \E j \in 1..Len(s.Objects) :
          t.Objects[i] = s.Objects[j]
    <3>1. /\ Len(RemoveAt(s.Objects, p)) = Len(s.Objects) - 1
          /\ \A i \in 1..(Len(s.Objects) - 1) :
               RemoveAt(s.Objects, p)[i] = IF i < p THEN s.Objects[i] ELSE s.Objects[i + 1]
      BY <1>1, <2>2, RemoveAtFacts
    <3>2. Len(s.Objects) \in Nat
      BY <1>1
    <3> SUFFICES ASSUME NEW i \in 1..Len(t.Objects)
                 PROVE  \E j \in 1..Len(s.Objects) : t.Objects[i] = s.Objects[j]
      OBVIOUS
    <3>3. i \in 1..Len(s.Objects) /\ i + 1 \in 1..Len(s.Objects)
      BY <2>1, <3>1, <3>2
    <3>4. t.Objects[i] = s.Objects[i] \/ t.Objects[i] = s.Objects[i + 1]
      BY <2>1, <3>1
    <3> QED
      BY <3>3, <3>4
  <2>7. \A i \in 1..Len(t.Objects) :
          t.Objects[i].Kind = "PARTITION" => normIdent(t.Objects[i].SQL.Body) \notin gone
    BY <1>2, <2>6
  <2> QED
    BY <1>2, <2>1, <2>5, <2>7 DEF DropPlaced
<1> QED
  BY <1>1, <1>3, <1>4, <1>5, DropOneTableNamed

(* The whole list.                                                         *)
LEMMA DropTablesPlaced ==
  ASSUME PlainTokens, NEW s, DropOK(s), NEW names \in Seq(Token), NEW ifExists,
         DropPlaced(s, {normIdent(t) : t \in Range(names)})
  PROVE  LET t == dropTables(s, names, ifExists)[Len(names)] IN
         Placed(DOMAIN t.tableIndex, t.Objects, t.Indexes)
<1> DEFINE n == Len(names)
           gone == {normIdent(t) : t \in Range(names)}
           after == dropTables(s, names, ifExists)
           good(u) == DropOK(u) /\ DropPlaced(u, gone)
           G == {i \in 0..n : good(after[i])}
<1>1. /\ n \in Nat
      /\ after[0] = s
      /\ \A i \in 1..n : after[i] = dropOneTable(after[i - 1], names[i], ifExists)
  BY DropTablesFacts
<1>2. good(s)
  OBVIOUS
<1>3. \A i \in 1..n : names[i] \in Token /\ normIdent(names[i]) \in gone
  <2>1. DOMAIN names = 1..n /\ \A i \in 1..n : names[i] \in Token
    OBVIOUS
  <2> QED
    BY <2>1 DEF Range
<1> HIDE DEF gone
<1>4. ASSUME NEW u, good(u), NEW name \in Token, normIdent(name) \in gone, NEW v,
             v = dropOneTable(u, name, ifExists)
      PROVE  good(v)
  BY <1>4, DropOneTableKeeps, DropOneTablePlaced
<1> HIDE DEF good, after, n
<1>5. 0 \in G
  BY <1>1, <1>2
<1>6. ASSUME NEW i \in 1..n, i - 1 \in G PROVE i \in G
  BY <1>1, <1>3, <1>4, <1>6
<1>7. \A i \in 0..n : i \in G
  <2> HIDE DEF G
  <2> QED
    BY <1>1, <1>5, <1>6, AlongList
<1>8. good(after[n])
  BY <1>1, <1>7
<1> QED
  BY <1>8 DEF good, after, n, DropPlaced

-----------------------------------------------------------------------------
(* A statement that leaves all of that alone.                              *)
LEMMA PlacesKept ==
  ASSUME UsesPlaced, UNCHANGED <<tableIndex, Objects, Indexes, Unknowns>>
  PROVE  UsesPlaced'
<1>1. /\ tableIndex' = tableIndex /\ Objects' = Objects
      /\ Indexes' = Indexes /\ Unknowns' = Unknowns
  OBVIOUS
<1> QED
  BY <1>1 DEF UsesPlaced

(* An object that is no partition goes, ...                                *)
LEMMA OtherKindRemoved ==
  ASSUME ObjInv, UsesPlaced, NEW key \in DOMAIN objectIdx, key[1] # "PARTITION",
         RemoveObject(key), UNCHANGED <<tableIndex, Indexes, Unknowns>>
  PROVE  UsesPlaced'
<1> DEFINE p == objectIdx[key]
<1>1. /\ Objects \in Seq(StoredObject) /\ p \in 1..Len(Objects)
      /\ key = <<Objects[p].Kind, Objects[p].Name>>
  BY ObjStateFacts
<1>2. Objects[p].Kind # "PARTITION"
  <2> DEFINE kind == Objects[p].Kind
             name == Objects[p].Name
  <2>1. key = <<kind, name>>
    BY <1>1
  <2> HIDE DEF kind, name
  <2>2. key[1] = kind
    BY <2>1
  <2> QED
    BY <2>2 DEF kind
<1>3. /\ Objects' = RemoveAt(Objects, p)
      /\ tableIndex' = tableIndex /\ Indexes' = Indexes /\ Unknowns' = Unknowns
  BY DEF RemoveObject
<1> HIDE DEF p
<1>4. Placed(DOMAIN tableIndex, RemoveAt(Objects, p), Indexes)
  BY <1>1, <1>2, PlacedRemoved DEF UsesPlaced
<1> QED
  BY <1>3, <1>4 DEF UsesPlaced

(* ... or changes.                                                         *)
LEMMA OtherKindChanged ==
  ASSUME ObjInv, UsesPlaced, NEW p \in 1..Len(Objects), Objects[p].Kind # "PARTITION",
         NEW e, e.Kind # "PARTITION", NamedAsWritten(e),
         Objects' = [Objects EXCEPT ![p] = e],
         UNCHANGED <<tableIndex, Indexes, Unknowns>>
  PROVE  UsesPlaced'
<1>1. Objects \in Seq(StoredObject)
  BY DEF ObjInv
<1>2. tableIndex' = tableIndex /\ Indexes' = Indexes /\ Unknowns' = Unknowns
  OBVIOUS
<1>3. Placed(DOMAIN tableIndex, [Objects EXCEPT ![p] = e], Indexes)
  BY <1>1, PlacedReplaced DEF UsesPlaced
<1> QED
  BY <1>2, <1>3 DEF UsesPlaced

(* The kind in a key.                                                      *)
LEMMA KindOfKey ==
  ASSUME NEW kind, NEW name
  PROVE  objectKey(kind, name)[1] = kind
BY DEF objectKey

(* DROP TYPE and RENAME TO of a composite type, which keeps no ALTERs.     *)
LEMMA ApplyTypePlaced ==
  ASSUME PlainTokens, ObjInv, UsesPlaced, NEW s, ApplyType(s)
  PROVE  UsesPlaced'
<1>0. tableIndex' = tableIndex /\ Indexes' = Indexes
  BY DEF ApplyType, tableOnlyVars, indexVars
<1>1. ASSUME UNCHANGED <<Objects, Unknowns>> PROVE UsesPlaced'
  BY <1>0, <1>1, PlacesKept
<1>2. CASE applyCreateType(s.V)
  BY <1>1, <1>2 DEF applyCreateType, RefuseType
<1>3. CASE applyDropType(s.V)
  <2> DEFINE key == objectKey("TYPE", s.V.TypeName)
  <2>1. CASE key \in DOMAIN objectIdx /\ RemoveObject(key) /\ UNCHANGED Unknowns
    <3>1. key[1] # "PARTITION"
      BY KindOfKey
    <3> HIDE DEF key
    <3> QED
      BY <1>0, <2>1, <3>1, OtherKindRemoved
  <2> QED
    BY <1>1, <1>3, <2>1 DEF applyDropType, typeVars, RefuseType
<1>4. CASE alterTypeAddValue(s.V)
  BY <1>1, <1>4 DEF alterTypeAddValue, SetLabels, RefuseType, typeVars
<1>5. CASE alterTypeRenameValue(s.V)
  BY <1>1, <1>5 DEF alterTypeRenameValue, SetLabels, RefuseType, typeVars
<1>6. CASE alterTypeRenameTo(s.V)
  <2> DEFINE key == objectKey("TYPE", s.V.TypeName)
             p == objectIdx[key]
             o == Objects[p]
             e == [o EXCEPT !.Name = normIdent(s.V.NewName),
                            !.SQL = replaceTypeNameInSQL(@, s.V.TypeName, s.V.NewName)]
  <2>1. CASE UNCHANGED <<Objects, Unknowns>>
    BY <1>1, <2>1
  <2>2. CASE /\ key \in DOMAIN objectIdx
             /\ Objects' = [Objects EXCEPT
                  ![p].Name = normIdent(s.V.NewName),
                  ![p].SQL = replaceTypeNameInSQL(@, s.V.TypeName, s.V.NewName)]
             /\ UNCHANGED Unknowns
    <3>1. /\ o \in StoredObject /\ p \in 1..Len(Objects)
          /\ key = <<o.Kind, o.Name>> /\ Objects \in Seq(StoredObject)
      BY <2>2, ObjStateFacts
    <3>2. o.Kind = "TYPE"
      BY <3>1 DEF objectKey
    <3>3. o.PostAlters = <<>>
      BY <3>1, <3>2 DEF StoredObject, KeptAlterKinds, FunctionKinds, AlterableKinds
    <3>4. o \in GenericObject
      BY <3>1 DEF StoredObject
    <3>5. e.Kind = "TYPE" /\ e.PostAlters = <<>>
      <4> HIDE DEF o
      <4> QED
        BY <3>2, <3>3, <3>4 DEF GenericObject
    <3>6. Objects' = [Objects EXCEPT ![p] = e]
      <4> HIDE DEF p
      <4> QED
        BY <2>2, <3>1
    <3> HIDE DEF e, p
    <3>7. NamedAsWritten(e)
      BY <3>5 DEF NamedAsWritten
    <3> QED
      BY <1>0, <2>2, <3>1, <3>2, <3>5, <3>6, <3>7, OtherKindChanged
  <2> QED
    BY <1>6, <2>1, <2>2 DEF alterTypeRenameTo, RefuseType
<1> QED
  BY <1>2, <1>3, <1>4, <1>5, <1>6 DEF ApplyType

(* What a schema has of a table provides it.                               *)
LEMMA HasTableProvides ==
  ASSUME ObjInv, NEW t, HasTable(t)
  PROVE  Provides(DOMAIN tableIndex, Objects, Len(Objects), normIdent(t))
<1>1. DOMAIN Objects = 1..Len(Objects)
  BY DEF ObjInv
<1> QED
  BY <1>1 DEF HasTable, IsTable, IsPartition, Provides

(* A CREATE.  A partition is never replaced.                               *)
LEMMA CreateObjectPlaced ==
  ASSUME ObjInv, UsesPlaced, NEW v \in CreateObjectStmt, applyCreateObject(v),
         v.Kind = "PARTITION" => HasTable(v.SQL.Body),
         UNCHANGED <<tableIndex, Indexes>>
  PROVE  UsesPlaced'
<1> DEFINE key == objectKey(v.Kind, v.Name)
           p == objectIdx[key]
           new == [Kind |-> v.Kind, Name |-> v.Name, SQL |-> v.SQL, PostAlters |-> <<>>]
<1>1. v.Name = normIdent(v.SQL.Name) /\ (v.OrReplace => v.Kind # "PARTITION")
  BY DEF CreateObjectStmt, OwnHandlerKinds
<1>2. /\ Objects \in Seq(StoredObject)
      /\ tableIndex' = tableIndex /\ Indexes' = Indexes
      /\ Placed(DOMAIN tableIndex, Objects, Indexes)
  BY DEF ObjInv, UsesPlaced
<1>3. CASE UNCHANGED <<Objects, Unknowns>>
  BY <1>3, PlacesKept
<1>4. CASE /\ key \in DOMAIN objectIdx
           /\ v.OrReplace
           /\ Objects' = [Objects EXCEPT ![p].SQL = v.SQL, ![p].PostAlters = <<>>]
           /\ UNCHANGED Unknowns
  <2> DEFINE o == Objects[p]
             e == [o EXCEPT !.SQL = v.SQL, !.PostAlters = <<>>]
  <2>1. o \in GenericObject /\ p \in 1..Len(Objects) /\ key = <<o.Kind, o.Name>>
    BY <1>4, ObjStateFacts DEF StoredObject
  <2>2. o.Kind # "PARTITION"
    BY <1>1, <1>4, <2>1 DEF objectKey
  <2>3. e.Kind = o.Kind /\ e.PostAlters = <<>>
    <3> HIDE DEF o
    <3> QED
      BY <2>1 DEF GenericObject
  <2>4. Objects' = [Objects EXCEPT ![p] = e]
    <3> HIDE DEF p
    <3> QED
      BY <1>2, <1>4, <2>1
  <2> HIDE DEF e, p
  <2>5. NamedAsWritten(e)
    BY <2>2, <2>3 DEF NamedAsWritten
  <2> QED
    BY <1>4, <2>1, <2>2, <2>3, <2>4, <2>5, OtherKindChanged
<1>5. CASE Objects' = Append(Objects, new) /\ UNCHANGED Unknowns
  <2>1. new.Kind = v.Kind /\ new.SQL = v.SQL /\ new.Name = v.Name /\ new.PostAlters = <<>>
    OBVIOUS
  <2> HIDE DEF new
  <2>2. NamedAsWritten(new)
    BY <1>1, <2>1 DEF NamedAsWritten
  <2>3. new.Kind = "PARTITION" =>
          Provides(DOMAIN tableIndex, Objects, Len(Objects), normIdent(new.SQL.Body))
    BY <2>1, HasTableProvides
  <2>4. Placed(DOMAIN tableIndex, Append(Objects, new), Indexes)
    BY <1>2, <2>2, <2>3, PlacedAppended
  <2> QED
    BY <1>2, <1>5, <2>4 DEF UsesPlaced
<1> QED
  BY <1>3, <1>4, <1>5 DEF applyCreateObject, RefuseObject

(* An ALTER is kept with an object that has the name it is about.          *)
LEMMA KeepAlterPlaced ==
  ASSUME ObjInv, UsesPlaced, NEW v \in AlterStmtOf(KeptAlterKinds),
         applyAlterFunctionOpts(v), HasFirstName(v),
         UNCHANGED <<tableIndex, Indexes>>
  PROVE  UsesPlaced'
<1> DEFINE key == objectKey(v.Kind, v.Name)
           p == objectIdx[key]
           o == Objects[p]
           e == [o EXCEPT !.PostAlters = Append(@, v.SQL)]
<1>1. /\ v.SQL.Kind = v.Kind /\ v.Name = normIdent(v.SQL.Name)
      /\ v.Kind \in KeptAlterKinds /\ v.SQL \in AlterSql
  BY DEF AlterStmtOf
<1>2. key \in DOMAIN objectIdx /\ normIdent(o.SQL.Name) = v.Name
  BY DEF HasFirstName
<1>3. /\ Objects' = [Objects EXCEPT ![p].PostAlters = Append(@, v.SQL)]
      /\ UNCHANGED Unknowns
  BY <1>2 DEF applyAlterFunctionOpts
<1>4. o \in GenericObject /\ p \in 1..Len(Objects) /\ key = <<o.Kind, o.Name>>
  BY <1>2, ObjStateFacts DEF StoredObject
<1>5. o.Kind = v.Kind
  BY <1>4 DEF objectKey
<1>6. o.Kind # "PARTITION"
  BY <1>1, <1>5 DEF KeptAlterKinds, FunctionKinds, AlterableKinds
<1>7. Objects' = [Objects EXCEPT ![p] = e]
  BY <1>3
<1>8. NamedAsWritten(o)
  BY <1>4 DEF UsesPlaced, Placed
<1> HIDE DEF o
<1>9. /\ e.Kind = o.Kind /\ e.SQL = o.SQL
      /\ e.PostAlters = Append(o.PostAlters, v.SQL) /\ o.PostAlters \in Seq(AlterSql)
  BY <1>4 DEF GenericObject
<1> HIDE DEF e
<1>10. NamedAsWritten(e)
  <2>1. /\ DOMAIN e.PostAlters = 1..(Len(o.PostAlters) + 1)
        /\ DOMAIN o.PostAlters = 1..Len(o.PostAlters)
        /\ Len(o.PostAlters) \in Nat
        /\ \A m \in 1..Len(o.PostAlters) : e.PostAlters[m] = o.PostAlters[m]
        /\ e.PostAlters[Len(o.PostAlters) + 1] = v.SQL
    BY <1>1, <1>9
  <2> SUFFICES ASSUME NEW m \in DOMAIN e.PostAlters
               PROVE  /\ e.PostAlters[m].Kind = e.Kind
                      /\ normIdent(e.PostAlters[m].Name) = normIdent(e.SQL.Name)
    BY <1>6, <1>9 DEF NamedAsWritten
  <2>2. CASE m = Len(o.PostAlters) + 1
    BY <1>1, <1>2, <1>5, <1>9, <2>1, <2>2 DEF o
  <2>3. CASE m # Len(o.PostAlters) + 1
    <3>1. m \in DOMAIN o.PostAlters /\ e.PostAlters[m] = o.PostAlters[m]
      BY <2>1, <2>3
    <3> QED
      BY <1>8, <1>9, <3>1 DEF NamedAsWritten
  <2> QED
    BY <2>2, <2>3
<1> HIDE DEF p
<1> QED
  BY <1>3, <1>4, <1>6, <1>7, <1>9, <1>10, OtherKindChanged DEF o

(* A statement is passed through.                                          *)
LEMMA PassThroughPlaced ==
  ASSUME IsSlice(Unknowns), UsesPlaced, NEW sql, PassedThrough(sql), PassThrough(sql),
         UNCHANGED <<tableIndex, Indexes>>
  PROVE  UsesPlaced'
<1>1. /\ Unknowns' = Append(Unknowns, sql)
      /\ tableIndex' = tableIndex /\ Objects' = Objects /\ Indexes' = Indexes
  BY DEF PassThrough
<1>2. ASSUME NEW u \in Range(Unknowns') PROVE PassedThrough(u)
  <2>1. /\ IsSlice(Append(Unknowns, sql)) /\ Len(Append(Unknowns, sql)) = Len(Unknowns) + 1
        /\ \A i \in 1..(Len(Unknowns) + 1) :
             Append(Unknowns, sql)[i] = IF i <= Len(Unknowns) THEN Unknowns[i] ELSE sql
    BY SliceAppend
  <2>2. DOMAIN Unknowns = 1..Len(Unknowns) /\ Len(Unknowns) \in Nat
    BY SliceWithin
  <2>3. DOMAIN Append(Unknowns, sql) = 1..Len(Append(Unknowns, sql))
    BY <2>1, SliceWithin
  <2>4. PICK i \in 1..(Len(Unknowns) + 1) :
          u = IF i <= Len(Unknowns) THEN Unknowns[i] ELSE sql
    BY <1>1, <2>1, <2>3 DEF Range
  <2>5. i <= Len(Unknowns) => u \in Range(Unknowns)
    BY <2>2, <2>4 DEF Range
  <2> QED
    BY <2>4, <2>5 DEF UsesPlaced
<1> QED
  BY <1>1, <1>2 DEF UsesPlaced

(* The statements that are kept verbatim, or passed through.               *)
LEMMA ApplyObjectPlaced ==
  ASSUME ObjInv, IsSlice(Unknowns), UsesPlaced, NEW s, IsStatement(s),
         RefersToDefined(s), ApplyObject(s)
  PROVE  UsesPlaced'
<1>0. tableIndex' = tableIndex /\ Indexes' = Indexes
  BY DEF ApplyObject, tableOnlyVars, indexVars
<1>1. ASSUME UNCHANGED <<Objects, Unknowns>> PROVE UsesPlaced'
  BY <1>0, <1>1, PlacesKept
<1>2. CASE s.Type = "CreateObject" /\ applyCreateObject(s.V)
  <2>1. s.V \in CreateObjectStmt
    BY <1>2 DEF IsStatement
  <2>2. s.V.Kind = "PARTITION" => HasTable(s.V.SQL.Body)
    BY <1>2 DEF RefersToDefined
  <2> QED
    BY <1>0, <1>2, <2>1, <2>2, CreateObjectPlaced
<1>3. CASE s.Type = "DropObject" /\ applyDropObject(s.V)
  <2> DEFINE key == objectKey(s.V.Kind, s.V.Name)
  <2>1. s.V.Kind # "PARTITION"
    <3>1. s.V \in DropObjectStmt
      BY <1>3 DEF IsStatement
    <3> QED
      BY <3>1 DEF DropObjectStmt, OwnHandlerKinds
  <2>2. CASE key \in DOMAIN objectIdx /\ RemoveObject(key) /\ UNCHANGED Unknowns
    <3>1. key[1] # "PARTITION"
      BY <2>1, KindOfKey
    <3> HIDE DEF key
    <3> QED
      BY <1>0, <2>2, <3>1, OtherKindRemoved
  <2> QED
    BY <1>1, <1>3, <2>2 DEF applyDropObject, objVars, RefuseObject
<1>4. CASE s.Type = "AlterObject" /\ applyAlterObject(s.V)
  <2> DEFINE key == objectKey(s.V.Kind, s.V.OldName)
             p == objectIdx[key]
             o == Objects[p]
             e == [o EXCEPT !.Name = s.V.NewName]
  <2>1. s.V.Kind # "PARTITION"
    <3>1. s.V \in AlterObjectStmt
      BY <1>4 DEF IsStatement
    <3> QED
      BY <3>1 DEF AlterObjectStmt, OwnHandlerKinds
  <2>2. CASE UNCHANGED <<Objects, Unknowns>>
    BY <1>1, <2>2
  <2>3. CASE /\ key \in DOMAIN objectIdx
             /\ Objects' = [Objects EXCEPT ![p].Name = s.V.NewName]
             /\ UNCHANGED Unknowns
    <3>1. o \in GenericObject /\ p \in 1..Len(Objects) /\ key = <<o.Kind, o.Name>>
      BY <2>3, ObjStateFacts DEF StoredObject
    <3>2. o.Kind # "PARTITION"
      BY <2>1, <3>1 DEF objectKey
    <3>3. NamedAsWritten(o)
      BY <3>1 DEF UsesPlaced, Placed
    <3>4. e.Kind = o.Kind /\ e.PostAlters = o.PostAlters /\ e.SQL = o.SQL
      <4> HIDE DEF o
      <4> QED
        BY <3>1 DEF GenericObject
    <3>5. Objects' = [Objects EXCEPT ![p] = e]
      BY <2>3
    <3> HIDE DEF e, p
    <3>6. NamedAsWritten(e)
      BY <3>2, <3>3, <3>4 DEF NamedAsWritten
    <3> QED
      BY <1>0, <2>3, <3>1, <3>2, <3>4, <3>5, <3>6, OtherKindChanged
  <2> QED
    BY <1>4, <2>2, <2>3 DEF applyAlterObject, RefuseObject
<1>5. CASE s.Type = "AlterFunctionOpts" /\ applyAlterFunctionOpts(s.V)
  <2>1. s.V \in AlterStmtOf(KeptAlterKinds) /\ s.V.Kind \in FunctionKinds
    <3>1. s.V \in AlterFunctionOptsStmt
      BY <1>5 DEF IsStatement
    <3> QED
      BY <3>1 DEF AlterFunctionOptsStmt, AlterStmtOf, KeptAlterKinds
  <2>2. HasFirstName(s.V)
    BY <1>5, <2>1 DEF RefersToDefined, Untracked, FunctionKinds
  <2> QED
    BY <1>0, <1>5, <2>1, <2>2, KeepAlterPlaced
<1>6. CASE s.Type = "AlterObjectOpts" /\ applyAlterObjectOpts(s.V)
  <2>1. s.V \in AlterStmtOf(KeptAlterKinds)
    <3>1. s.V \in AlterObjectOptsStmt
      BY <1>6 DEF IsStatement
    <3> QED
      BY <3>1 DEF AlterObjectOptsStmt, AlterStmtOf, KeptAlterKinds
  <2>2. CASE UNCHANGED objVars
    BY <1>1, <2>2 DEF objVars
  <2>3. CASE ~ Untracked(s.V.Kind, s.V.SQL.Action) /\ applyAlterFunctionOpts(s.V)
    <3>1. HasFirstName(s.V)
      BY <1>6, <2>3 DEF RefersToDefined
    <3> QED
      BY <1>0, <2>1, <2>3, <3>1, KeepAlterPlaced
  <2> QED
    BY <1>6, <2>2, <2>3 DEF applyAlterObjectOpts
<1>7. CASE s.Type = "Unknown" /\ applyUnknown(s.V)
  <2>1. PassedThrough(s.V.Raw)
    BY <1>7 DEF IsStatement
  <2> QED
    BY <1>0, <1>7, <2>1, PassThroughPlaced DEF applyUnknown
<1> QED
  BY <1>2, <1>3, <1>4, <1>5, <1>6, <1>7 DEF ApplyObject

(* RENAME TO takes the indexes along, and the table has no partitions.     *)
LEMMA RenameTablePlaced ==
  ASSUME TableInv, UsesPlaced, NEW v \in RenameTableStmt, applyRenameTo(v),
         ~ HasPartitions({normIdent(v.TableName)})
  PROVE  UsesPlaced'
<1> DEFINE oldKey == normIdent(v.TableName)
           newKey == normIdent(v.NewName)
<1>1. CASE RefuseTable
  <2>1. UNCHANGED <<tableIndex, Objects, Indexes, Unknowns>>
    BY <1>1 DEF RefuseTable, indexVars, objOnlyVars
  <2> QED
    BY <2>1, PlacesKept
<1>2. CASE /\ tableIndex' = Put(Delete(tableIndex, oldKey), newKey, tableIndex[oldKey])
           /\ Indexes' = moveIndexes(oldKey, v.NewName)
           /\ UNCHANGED objOnlyVars
  <2>1. v.NewName \in Token /\ IndexesOK
    BY DEF RenameTableStmt, TableInv
  <2>2. newKey \in DOMAIN tableIndex' /\ DOMAIN tableIndex \ {oldKey} \subseteq DOMAIN tableIndex'
    BY <1>2 DEF Put, Delete
  <2>3. /\ Len(Indexes') = Len(Indexes)
        /\ \A i \in 1..Len(Indexes) :
             Indexes'[i].TableName =
               IF normIdent(Indexes[i].TableName) = oldKey THEN v.NewName
                                                           ELSE Indexes[i].TableName
    BY <1>2, <2>1, MoveIndexesFacts
  <2>4. CarriedOver(Indexes, oldKey, DOMAIN tableIndex', Indexes')
    BY <2>2, <2>3 DEF CarriedOver
  <2>5. NoPartitionOf(Objects, oldKey)
    <3>1. DOMAIN Objects = 1..Len(Objects)
      BY DEF TableInv, ObjInv
    <3> QED
      BY <3>1 DEF HasPartitions, NoPartitionOf
  <2>6. Objects' = Objects /\ Unknowns' = Unknowns
    BY <1>2 DEF objOnlyVars
  <2> HIDE DEF oldKey
  <2>7. Placed(DOMAIN tableIndex', Objects, Indexes')
    BY <2>2, <2>4, <2>5, PlacedWithout DEF UsesPlaced
  <2> QED
    BY <2>6, <2>7 DEF UsesPlaced
<1> QED
  BY <1>1, <1>2 DEF applyRenameTo

(* DROP TABLE, refused half way through its list or not.                   *)
LEMMA DropTablePlaced ==
  ASSUME PlainTokens, TableInv, UsesPlaced, NEW v \in DropTableStmt, applyDropTable(v),
         LET dropped == {normIdent(t) : t \in Range(v.TableNames)} IN
           /\ ~ HasPartitions(dropped)
           /\ \A i \in DOMAIN Indexes :
                normIdent(Indexes[i].TableName) \in dropped => IsTable(Indexes[i].TableName)
  PROVE  UsesPlaced'
<1> DEFINE s == [Tables |-> Tables, tableIndex |-> tableIndex,
                 Indexes |-> Indexes, indexIndex |-> indexIndex,
                 Objects |-> Objects, objectIdx |-> objectIdx, refused |-> FALSE]
           t == dropTables(s, v.TableNames, v.IfExists)[Len(v.TableNames)]
           gone == {normIdent(x) : x \in Range(v.TableNames)}
<1>1. /\ s.Tables = Tables /\ s.tableIndex = tableIndex
      /\ s.Indexes = Indexes /\ s.indexIndex = indexIndex
      /\ s.Objects = Objects /\ s.objectIdx = objectIdx
      /\ IsDropState(s)
  BY DEF IsDropState
<1>2. /\ t.tableIndex = tableIndex' /\ t.Indexes = Indexes' /\ t.Objects = Objects'
      /\ Unknowns' = Unknowns
  BY DEF applyDropTable
<1>3. v.TableNames \in Seq(Token)
  BY TableAssumption DEF DropTableStmt
<1>4. /\ ~ HasPartitions(gone)
      /\ \A i \in DOMAIN Indexes :
           normIdent(Indexes[i].TableName) \in gone => IsTable(Indexes[i].TableName)
  OBVIOUS
<1> HIDE DEF s
<1>5. DropOK(s)
  BY <1>1 DEF DropOK, TableInv, TablesOK, IndexesOK, Keyed, ObjInv, ObjectIndexSound,
              objKeys, IsMap
<1>6. DropPlaced(s, gone)
  <2>1. DOMAIN Objects = 1..Len(Objects) /\ DOMAIN Indexes = 1..Len(Indexes)
    BY DEF TableInv, ObjInv, IndexesOK
  <2> HIDE DEF gone
  <2> QED
    BY <1>1, <1>4, <2>1 DEF DropPlaced, UsesPlaced, HasPartitions, IsTable
<1>7. Placed(DOMAIN t.tableIndex, t.Objects, t.Indexes)
  BY <1>3, <1>5, <1>6, DropTablesPlaced
<1> HIDE DEF t
<1> QED
  BY <1>2, <1>7 DEF UsesPlaced

(* CREATE INDEX on a table or a partition that is there.                   *)
LEMMA CreateIndexPlaced ==
  ASSUME TableInv, UsesPlaced, NEW v \in CreateIndexStmt, applyCreateIndex(v),
         HasTable(v.TableName)
  PROVE  UsesPlaced'
<1> DEFINE key == normIdent(v.Name)
           p == indexIndex[key]
<1>1. /\ Indexes \in Seq(CreateIndexStmt) /\ IsSlice(Indexes)
      /\ Sound(indexIndex, normKeys(Indexes))
      /\ Placed(DOMAIN tableIndex, Objects, Indexes)
  BY DEF TableInv, IndexesOK, Keyed, UsesPlaced
<1>2. Provides(DOMAIN tableIndex, Objects, Len(Objects), normIdent(v.TableName))
  BY HasTableProvides DEF TableInv
<1>3. CASE UNCHANGED tableVars
  <2>1. UNCHANGED <<tableIndex, Objects, Indexes, Unknowns>>
    BY <1>3 DEF tableVars
  <2> QED
    BY <2>1, PlacesKept
<1>4. ASSUME tableIndex' = tableIndex, Objects' = Objects, Unknowns' = Unknowns,
             \A i \in 1..Len(Indexes') :
               \/ Indexes'[i] = v
               \/ \E j \in 1..Len(Indexes) : Indexes'[i] = Indexes[j]
      PROVE  UsesPlaced'
  <2>1. \A i \in 1..Len(Indexes') :
          \/ Provides(DOMAIN tableIndex, Objects, Len(Objects),
                      normIdent(Indexes'[i].TableName))
          \/ \E j \in 1..Len(Indexes) : Indexes'[i].TableName = Indexes[j].TableName
    BY <1>2, <1>4
  <2>2. Placed(DOMAIN tableIndex, Objects, Indexes')
    BY <1>1, <2>1, PlacedIndexes
  <2> QED
    BY <1>4, <2>2 DEF UsesPlaced
<1>5. CASE /\ key \in DOMAIN indexIndex
           /\ Indexes' = [Indexes EXCEPT ![p] = v]
           /\ UNCHANGED <<tableIndex, objOnlyVars>>
  <2>1. /\ Len(Indexes') = Len(Indexes)
        /\ \A i \in 1..Len(Indexes) : Indexes'[i] = v \/ Indexes'[i] = Indexes[i]
    BY <1>1, <1>5
  <2> QED
    BY <1>4, <1>5, <2>1 DEF objOnlyVars
<1>6. CASE /\ Indexes' = Append(Indexes, v)
           /\ UNCHANGED <<tableIndex, objOnlyVars>>
  <2>1. /\ Len(Indexes') = Len(Indexes) + 1 /\ Len(Indexes) \in Nat
        /\ \A i \in 1..(Len(Indexes) + 1) :
             Indexes'[i] = IF i <= Len(Indexes) THEN Indexes[i] ELSE v
    BY <1>1, <1>6
  <2> QED
    BY <1>4, <1>6, <2>1 DEF objOnlyVars
<1> QED
  BY <1>3, <1>5, <1>6 DEF applyCreateIndex

(* An index that stays stays on its table.                                 *)
LEMMA IndexesPlacedStill ==
  ASSUME UsesPlaced, tableIndex' = tableIndex, Objects' = Objects, Unknowns' = Unknowns,
         \A i \in 1..Len(Indexes') : \E j \in 1..Len(Indexes) :
           Indexes'[i].TableName = Indexes[j].TableName
  PROVE  UsesPlaced'
<1>1. Placed(DOMAIN tableIndex, Objects, Indexes')
  BY PlacedIndexes DEF UsesPlaced
<1> QED
  BY <1>1 DEF UsesPlaced

(* DROP INDEX and ALTER INDEX ... RENAME TO.                               *)
LEMMA OtherIndexPlaced ==
  ASSUME TableInv, UsesPlaced, NEW v, applyDropIndex(v) \/ applyAlterIndex(v)
  PROVE  UsesPlaced'
<1>1. /\ Indexes \in Seq(CreateIndexStmt) /\ IsSlice(Indexes) /\ Len(Indexes) \in Nat
      /\ Sound(indexIndex, normKeys(Indexes)) /\ Len(normKeys(Indexes)) = Len(Indexes)
  BY SliceKeys DEF TableInv, IndexesOK, Keyed
<1>2. CASE UNCHANGED tableVars \/ RefuseIndex
  <2>1. UNCHANGED <<tableIndex, Objects, Indexes, Unknowns>>
    BY <1>2 DEF tableVars, RefuseIndex, RefuseTable, indexVars, objOnlyVars
  <2> QED
    BY <2>1, PlacesKept
<1>3. ASSUME NEW p \in 1..Len(Indexes), Indexes' = RemoveAt(Indexes, p),
             UNCHANGED <<tableIndex, objOnlyVars>>
      PROVE  UsesPlaced'
  <2>1. /\ Len(Indexes') = Len(Indexes) - 1
        /\ \A i \in 1..(Len(Indexes) - 1) :
             Indexes'[i] = IF i < p THEN Indexes[i] ELSE Indexes[i + 1]
    BY <1>1, <1>3, SliceRemove
  <2>2. ASSUME NEW i \in 1..Len(Indexes')
        PROVE  \E j \in 1..Len(Indexes) : Indexes'[i].TableName = Indexes[j].TableName
    <3>1. i \in 1..Len(Indexes) /\ i + 1 \in 1..Len(Indexes)
      BY <1>1, <2>1
    <3>2. Indexes'[i] = Indexes[i] \/ Indexes'[i] = Indexes[i + 1]
      BY <1>1, <2>1
    <3> QED
      BY <3>1, <3>2
  <2> QED
    BY <1>3, <2>2, IndexesPlacedStill DEF objOnlyVars
<1>4. ASSUME NEW p \in 1..Len(Indexes), NEW name,
             Indexes' = [Indexes EXCEPT ![p].Name = name],
             UNCHANGED <<tableIndex, objOnlyVars>>
      PROVE  UsesPlaced'
  <2>1. ASSUME NEW i \in 1..Len(Indexes)
        PROVE  Indexes'[i].TableName = Indexes[i].TableName
    <3>1. Indexes[i] \in CreateIndexStmt
      BY <1>1
    <3> DEFINE e == Indexes[i]
    <3>2. Indexes'[i] = e \/ Indexes'[i] = [e EXCEPT !.Name = name]
      BY <1>1, <1>4
    <3> HIDE DEF e
    <3>3. [e EXCEPT !.Name = name].TableName = e.TableName
      BY <3>1 DEF CreateIndexStmt, e
    <3> QED
      BY <3>2, <3>3 DEF e
  <2>2. Len(Indexes') = Len(Indexes)
    BY <1>1, <1>4
  <2> QED
    BY <1>4, <2>1, <2>2, IndexesPlacedStill DEF objOnlyVars
<1>5. \A k \in DOMAIN indexIndex : indexIndex[k] \in 1..Len(Indexes)
  BY <1>1 DEF Sound
<1> QED
  BY <1>2, <1>3, <1>4, <1>5 DEF applyDropIndex, applyAlterIndex

(* The statements on tables and indexes.                                   *)
LEMMA ApplyTablePlaced ==
  ASSUME PlainTokens, TableInv, UsesPlaced, NEW s, IsStatement(s),
         RefersToDefined(s), ApplyTable(s)
  PROVE  UsesPlaced'
<1>1. ASSUME UNCHANGED <<tableIndex, Objects, Indexes, Unknowns>> PROVE UsesPlaced'
  BY <1>1, PlacesKept
<1>2. CASE s.Type = "CreateTable" /\ applyCreateTable(s.V)
  <2>1. UNCHANGED <<Objects, Indexes, Unknowns>>
    BY <1>2 DEF applyCreateTable, RefuseTable, indexVars, objOnlyVars
  <2>2. DOMAIN tableIndex \subseteq DOMAIN tableIndex'
    BY <1>2 DEF applyCreateTable, RefuseTable, Put
  <2>3. Placed(DOMAIN tableIndex', Objects, Indexes)
    BY <2>2, PlacedMore DEF UsesPlaced
  <2> QED
    BY <2>1, <2>3 DEF UsesPlaced
<1>3. CASE s.Type = "AlterTable" /\ applyAlterTable(s.V)
  <2>1. UNCHANGED <<tableIndex, indexVars, objOnlyVars>>
    BY <1>3, Zenon DEF applyAlterTable, RefuseTable
  <2> QED
    BY <1>1, <2>1 DEF indexVars, objOnlyVars
<1>4. CASE s.Type = "AlterTableRenameTo" /\ applyRenameTo(s.V)
  BY <1>4, RenameTablePlaced DEF IsStatement, RefersToDefined
<1>5. CASE s.Type = "DropTable" /\ applyDropTable(s.V)
  <2>1. s.V \in DropTableStmt
    BY <1>5 DEF IsStatement
  <2>2. LET dropped == {normIdent(t) : t \in Range(s.V.TableNames)} IN
          /\ ~ HasPartitions(dropped)
          /\ \A i \in DOMAIN Indexes :
               normIdent(Indexes[i].TableName) \in dropped => IsTable(Indexes[i].TableName)
    BY <1>5 DEF RefersToDefined
  <2> QED
    BY <1>5, <2>1, <2>2, DropTablePlaced
<1>6. CASE s.Type = "CreateIndex" /\ applyCreateIndex(s.V)
  BY <1>6, CreateIndexPlaced DEF IsStatement, RefersToDefined
<1>7. CASE applyDropIndex(s.V) \/ applyAlterIndex(s.V)
  BY <1>7, OtherIndexPlaced
<1>8. CASE applyTruncate(s.V)
  BY <1>1, <1>8 DEF applyTruncate, indexVars, objOnlyVars
<1> QED
  BY <1>2, <1>3, <1>4, <1>5, <1>6, <1>7, <1>8 DEF ApplyTable

(* One statement, whichever it is.                                         *)
LEMMA ApplyPlaced ==
  ASSUME PlainTokens, SchemaInv, IsSlice(Unknowns), UsesPlaced, NEW s, IsStatement(s),
         RefersToDefined(s), Apply(s)
  PROVE  UsesPlaced'
<1>1. TableInv /\ ObjInv
  BY DEF SchemaInv, TableInv
<1>2. CASE ApplySequence(s)
  <2>1. UNCHANGED <<tableIndex, Objects, Indexes, Unknowns>>
    BY <1>2 DEF ApplySequence, tableOnlyVars, indexVars, objOnlyVars
  <2> QED
    BY <2>1, PlacesKept
<1> QED
  BY <1>1, <1>2, ApplyTypePlaced, ApplyTablePlaced, ApplyObjectPlaced DEF Apply

-----------------------------------------------------------------------------
(* The first run up to its end: what Emit would print is in order, and so  *)
(* is the file, once it is written.                                        *)
FirstOrder ==
  round = 1 => /\ UsesPlaced
               /\ phase = "written" => UsesFollowDefinitions(output)

(* It stays so, as long as the migrations refer to what there is.          *)
LEMMA FirstOrderStep ==
  ASSUME PlainTokens, FirstRun, FirstOutput, FirstOrder, ReferencesStand,
         [MergeNext]_mergeVars
  PROVE  FirstOrder'
<1> SUFFICES ASSUME round' = 1
             PROVE  /\ UsesPlaced'
                    /\ phase' = "written" => UsesFollowDefinitions(output')
  BY DEF FirstOrder
<1>1. round = 1
  BY DEF MergeNext, Run, mergeVars, runVars, List, ReadFile, ApplyText, Write, Remerge
<1>2. /\ SchemaInv /\ TextsParse /\ IsSlice(Unknowns) /\ UsesPlaced
      /\ phase = "written" => UsesFollowDefinitions(output)
  BY <1>1 DEF FirstRun, FirstOutput, FirstOrder
<1>3. ASSUME UNCHANGED <<tableOnlyVars, indexVars, objOnlyVars>> PROVE UsesPlaced'
  BY <1>2, <1>3, PlacesKept DEF tableOnlyVars, indexVars, objOnlyVars
<1>4. CASE List \/ ReadFile
  <2>1. phase' # "written"
    BY <1>4 DEF List, ReadFile
  <2> QED
    BY <1>3, <1>4, <2>1 DEF List, ReadFile
<1>5. CASE ApplyText
  <2> DEFINE s == Parse(Head(texts))
  <2>1. phase' # "written" /\ phase = "merging" /\ texts # <<>>
    BY <1>5 DEF ApplyText
  <2>2. CASE Malformed(Head(texts))
    BY <1>3, <1>5, <2>1, <2>2 DEF ApplyText
  <2>3. CASE ~ Malformed(Head(texts))
    <3>1. Apply(s) /\ RefersToDefined(s)
      BY <1>1, <1>5, <2>1, <2>3 DEF ApplyText, ReferencesStand
    <3>2. IsStatement(s)
      BY <1>2, <2>1, <2>3, RestParses DEF TextsParse
    <3> HIDE DEF s
    <3>3. UsesPlaced'
      BY <1>2, <3>1, <3>2, ApplyPlaced
    <3> QED
      BY <2>1, <3>3
  <2> QED
    BY <2>2, <2>3
<1>6. CASE Write
  <2>1. UsesPlaced'
    BY <1>3, <1>6 DEF Write
  <2>2. CASE output' = Emit
    BY <1>2, <2>1, <2>2, EmitOrdered
  <2>3. CASE phase' = phase
    BY <1>6, <2>1, <2>3 DEF Write
  <2> QED
    BY <1>6, <2>2, <2>3 DEF Write
<1>7. CASE UNCHANGED mergeVars
  <2>1. /\ UNCHANGED <<tableOnlyVars, indexVars, objOnlyVars>>
        /\ UNCHANGED <<phase, output>>
    BY <1>7 DEF mergeVars, runVars, schemaVars, tableOnlyVars, indexVars, objOnlyVars
  <2> QED
    BY <1>2, <1>3, <2>1
<1>8. CASE Remerge
  BY <1>8 DEF Remerge
<1> QED
  BY <1>4, <1>5, <1>6, <1>7, <1>8 DEF MergeNext, Run

(* The empty schema has nothing out of place.                              *)
LEMMA FirstOrderInit == MergeInit => FirstOrder
<1> SUFFICES ASSUME MergeInit PROVE FirstOrder
  OBVIOUS
<1>1. /\ Unknowns = <<>> /\ Objects = <<>> /\ Indexes = <<>> /\ phase = "listing"
  BY DEF MergeInit, SchemaInit, TypeInit, TableInit, ObjInit
<1>2. Range(Unknowns) = {}
  <2>1. DOMAIN <<>> = {}
    OBVIOUS
  <2> QED
    BY <1>1, <2>1 DEF Range
<1>3. 1..Len(Objects) = {} /\ 1..Len(Indexes) = {}
  BY <1>1
<1>4. UsesPlaced
  BY <1>2, <1>3 DEF UsesPlaced, Placed, PartitionsPlaced, IndexesPlaced
<1> QED
  BY <1>1, <1>4 DEF FirstOrder

(* As long as the files refer to what the files before them created, under *)
(* the name it got, and take the partitions and the indexes of a partition *)
(* away before the table: in the output every index and partition stands   *)
(* behind its table, and every ALTER that was kept behind the CREATE of    *)
(* its object.  The order of the sections alone does not do that: it takes *)
(* that a rename moves the indexes, that a DROP TABLE takes them along,    *)
(* also half way through its list, and that partitions keep their order.   *)
THEOREM OutputAlwaysOrdered ==
  ASSUME PlainTokens
  PROVE  MergeSpec /\ []ReferencesStand => [](round = 1 => OutputOrdered)
<1> DEFINE IInv == RunInv /\ FirstDirectory /\ FirstRun /\ FirstOutput /\ FirstOrder
<1>1. MergeInit => IInv
  BY RunInit, FirstRunInit, FirstOutputInit, FirstOrderInit
<1>2. IInv /\ ReferencesStand /\ [MergeNext]_mergeVars => IInv'
  BY RunStep, FirstDirectoryStep, FirstRunStep, FirstOutputStep, FirstOrderStep
<1>3. IInv => (round = 1 => OutputOrdered)
  BY DEF FirstOrder, OutputOrdered
<1> QED
  BY <1>1, <1>2, <1>3, PTL DEF MergeSpec

=============================================================================
