-------------------------------- MODULE Merge --------------------------------
(***************************************************************************)
(* merger.Run and the main program around it: the input directory is       *)
(* listed and sorted, one file after the other is read, split, parsed and  *)
(* applied, and the schema is emitted into the output file.  The first     *)
(* error ends the program with nothing written.                            *)
(*                                                                         *)
(* The state covers two runs of the program: the second one merges a       *)
(* directory that holds the output of the first one as its only file, as   *)
(* one does to go on from a merged state.                                  *)
(***************************************************************************)
EXTENDS Emitter

CONSTANTS
  Directory,      \* the directories there can be, each a set of entries
  Contents,       \* what the files contain: name -> sequence of statements
  MaxInt          \* the largest int of Go

(* What os.ReadDir returns: no two entries have one name, and digits are a *)
(* number of any length.                                                   *)
IsListing(dir) ==
  /\ IsFiniteSet(dir)
  /\ \A f \in dir : f.Name \in Nat /\ f.Digits \in Nat /\ f.IsSql \in BOOLEAN
  /\ \A f, g \in dir : f.Name = g.Name => f = g

(* What a file contains, once split: texts that parse, or are refused.     *)
IsContent(c) ==
  IsSlice(c) /\ \A t \in Range(c) : Malformed(t) \/ IsStatement(Parse(t))

ASSUME MergeAssumption ==
  /\ MaxInt \in Nat \ {0}
  /\ \A dir \in Directory :
       IsListing(dir) /\ \A f \in dir : f.IsSql => IsContent(Contents[f.Name])

VARIABLES
  phase,          \* "listing", "merging" or "written"
  round,          \* which run of the program this is, 1 or 2
  directory,      \* the input directory
  files,          \* the files still to be read, in order
  texts,          \* the statements of the current file still to be applied
  output          \* the output file

runVars == <<phase, round, directory, files, texts, output>>
mergeVars == <<runVars, schemaVars>>

NoOutput == <<>>

-----------------------------------------------------------------------------
(* strconv.Atoi with its error ignored                                     *)
Atoi(digits) == IF digits > MaxInt THEN MaxInt ELSE digits

(* A directory entry is a name, given by its place in the order of the     *)
(* file names, its digits, and whether it is a file of the pattern         *)
(* ^(\d+)_.*\.sql$.                                                        *)
NameLess(f, g) == f.Name < g.Name    \* Mistake: the numbers are forgotten.

FileLess(f, g) ==
  \/ Atoi(f.Digits) < Atoi(g.Digits)
  \/ Atoi(f.Digits) = Atoi(g.Digits) /\ f.Name < g.Name

sortedSQLFiles(dir) ==
  LET found == {f \in dir : f.IsSql} IN
  [i \in 1..Cardinality(found) |->
     CHOOSE f \in found : Cardinality({g \in found : FileLess(g, f)}) = i - 1]

-----------------------------------------------------------------------------
MergeInit ==
  /\ SchemaInit
  /\ phase = "listing"
  /\ round = 1
  /\ directory \in Directory
  /\ files = <<>>
  /\ texts = <<>>
  /\ output = NoOutput

List ==
  /\ phase = "listing"
  /\ \/ /\ sortedSQLFiles(directory) = <<>>
        /\ Refused
        /\ UNCHANGED <<phase, files>>
     \/ /\ sortedSQLFiles(directory) # <<>>
        /\ files' = sortedSQLFiles(directory)
        /\ phase' = "merging"
        /\ Succeed
  /\ UNCHANGED <<round, directory, texts, output, seqOnlyVars, enumVars,
                 tableOnlyVars, indexVars, truncVars, objOnlyVars>>

(* The first run reads the migrations, the second one its output. *)
contentOf(f) == IF round = 1 THEN Contents[f.Name] ELSE output

(* Mistake: the file stays in the queue.                                   *)
ReadFileAgain ==
  /\ phase = "merging"
  /\ texts = <<>>
  /\ files # <<>>
  /\ texts' = contentOf(Head(files))
  /\ Succeed
  /\ UNCHANGED <<phase, round, directory, files, output, seqOnlyVars, enumVars,
                 tableOnlyVars, indexVars, truncVars, objOnlyVars>>

(* os.ReadFile and parser.Split; a file can be unreadable.                 *)
ReadFile ==
  /\ phase = "merging"
  /\ texts = <<>>
  /\ files # <<>>
  /\ \/ texts' = contentOf(Head(files)) /\ Succeed
     \/ UNCHANGED texts /\ Refused
  /\ files' = Tail(files)
  /\ UNCHANGED <<phase, round, directory, output, seqOnlyVars, enumVars,
                 tableOnlyVars, indexVars, truncVars, objOnlyVars>>

ApplyText ==
  /\ phase = "merging"
  /\ texts # <<>>
  /\ IF Malformed(Head(texts))
       THEN /\ Refused
            /\ UNCHANGED <<seqOnlyVars, enumVars, tableOnlyVars, indexVars,
                           truncVars, objOnlyVars>>
       ELSE Apply(Parse(Head(texts)))
  /\ texts' = Tail(texts)
  /\ UNCHANGED <<phase, round, directory, files, output>>

(* os.WriteFile truncates the file first; if it fails, a part of the       *)
(* output is there.                                                        *)
Write ==
  /\ phase = "merging"
  /\ texts = <<>>
  /\ files = <<>>
  /\ \/ output' = Emit /\ phase' = "written" /\ Succeed
     \/ /\ \E n \in {0, Len(Emit) \div 2} : output' = SubSeq(Emit, 1, n)
        /\ UNCHANGED phase
        /\ Refused
  /\ UNCHANGED <<round, directory, files, texts, seqOnlyVars, enumVars,
                 tableOnlyVars, indexVars, truncVars, objOnlyVars>>

(* The program is started again on its own output. *)
Remerge ==
  /\ phase = "written"
  /\ round = 1
  /\ round' = 2
  /\ directory' = {[Name |-> 1, Digits |-> 1, IsSql |-> TRUE]}
  /\ phase' = "listing"
  /\ New
  /\ UNCHANGED <<files, texts, output>>

Run == ~ failed /\ (List \/ ReadFile \/ ApplyText \/ Write)
MergeNext == Run \/ (~ failed /\ Remerge)

(* A run of the program goes on until it ends; nobody has to start another.*)
MergeSpec == MergeInit /\ [][MergeNext]_mergeVars /\ WF_mergeVars(Run)

-----------------------------------------------------------------------------
(* README: files are processed in ascending order of their numbers.  When  *)
(* a file is about to be read, no file behind it in the queue has a        *)
(* smaller number, and of two with one number the names decide.            *)
NumericOrder ==
  \A i, j \in DOMAIN files : i < j =>
    \/ files[i].Digits < files[j].Digits
    \/ files[i].Digits = files[j].Digits /\ files[i].Name < files[j].Name

(* The migrations rename nothing to a name in use: PostgreSQL, which ran   *)
(* them, would have refused.                                               *)
RenamesLegal ==
  phase = "merging" /\ texts # <<>> => RenamesToFreeName(Parse(Head(texts)))

(* The migrations speak of what they created, under the name it got, and   *)
(* take what stands on a table away before the table.                      *)
ReferencesStand ==
  round = 1 /\ phase = "merging" /\ texts # <<>> /\ ~ Malformed(Head(texts))
    => RefersToDefined(Parse(Head(texts)))

(* What is written is complete.                                            *)
NothingLostOnWrite == phase = "written" => NothingLost(output)

(* No index, partition or kept ALTER of the output stands before what it   *)
(* is about.                                                               *)
OutputOrdered == phase = "written" => UsesFollowDefinitions(output)

(* The output can be merged again: none of its statements is refused.      *)
RemergeAccepted ==
  [][round = 2 /\ texts # <<>> => ~ failed']_mergeVars

(* ... and comes out as it went in.                                        *)
RemergeStable ==
  [][round = 2 /\ phase' = "written" => output' = output]_mergeVars

(* Emit: types come before tables in the output, which can use them.       *)
IsEnum(text) == text.Type = "CreateTypeLines"
IsTableText(text) == text.Type = "CreateTable"
EnumsBeforeTables ==
  \A i, j \in DOMAIN output :
    IsEnum(output[i]) /\ IsTableText(output[j]) => i < j

(* Every run of the program comes to an end.                               *)
MergeEnds == phase = "listing" ~> (failed \/ phase = "written")
=============================================================================
