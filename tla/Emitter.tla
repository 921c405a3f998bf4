------------------------------- MODULE Emitter -------------------------------
(***************************************************************************)
(* emitter.Emit: the output as the sequence of the statements it consists  *)
(* of, section after section; and parser.Parse for the places where a      *)
(* statement does not come back from its text as it went in.               *)
(*                                                                         *)
(* A text is a statement with two differences.  The inline constraints of  *)
(* a column are one sequence of clauses (the boundaries of the chunks are  *)
(* spaces in the text).  An ENUM is written over several lines.            *)
(***************************************************************************)
EXTENDS Schema

(* The elements of a slice as texts, in the order of the slice.            *)
Each(slice, Text_(_)) == [i \in DOMAIN slice |-> Text_(slice[i])]

emitColumn(col) == [col EXCEPT !.InlineConstraints = FlattenSeq(@)]

emitTable(t) == Stmt("CreateTable", [t EXCEPT !.Columns = Each(@, emitColumn)])

emitSequence(s) == Stmt("CreateSequence", [SeqName |-> s.Name, Body |-> s.Body])

emitType(t) == Stmt("CreateTypeLines", [TypeName |-> t.Name, Labels |-> t.Labels])

emitIndex(ix) == Stmt("CreateIndex", ix)

emitTruncate(t) == Stmt("Truncate", t)

(* What Parse makes of the verbatim texts. *)
createText(kind, sql) ==
  Stmt("CreateObject", [Kind |-> kind, Name |-> normIdent(sql.Name),
                        OrReplace |-> sql.OrReplace, SQL |-> sql])

alterText(sql) ==
  Stmt(CASE sql.Kind \in FunctionKinds  -> "AlterFunctionOpts"
         [] sql.Kind \in AlterableKinds -> "AlterObjectOpts"
         [] OTHER                       -> "Unknown",
       IF sql.Kind \in KeptAlterKinds
         THEN [Kind |-> sql.Kind, Name |-> normIdent(sql.Name), SQL |-> sql]
         ELSE [Raw |-> sql])

(* An ENUM text that was not recognised is passed through as it came.      *)
unknownText(u) == IF "TypeName" \in DOMAIN u THEN Stmt("CreateTypeLines", u)
                                             ELSE alterText(u)

(* Mistakes: the ALTERs are left out; the kind is not looked at.           *)
emitObjectsBare(kinds, withAlters) ==
  LET some == SelectSeq(Objects, LAMBDA o : o.Kind \in kinds) IN
  [i \in DOMAIN some |-> createText(some[i].Kind, some[i].SQL)]
emitAllObjects(kinds, withAlters) ==
  [i \in DOMAIN Objects |-> createText(Objects[i].Kind, Objects[i].SQL)]

(* The objects of some kinds, with or without the ALTERs kept with them.   *)
emitObjects(kinds, withAlters) ==
  FlattenSeq([i \in DOMAIN Objects |->
    IF Objects[i].Kind \notin kinds
      THEN <<>>
      ELSE <<createText(Objects[i].Kind, Objects[i].SQL)>>
             \o IF withAlters THEN Each(Objects[i].PostAlters, alterText) ELSE <<>>])

(* Mistake: the partitions come first.                                     *)
emitPartitionsFirst ==
  emitObjects({"PARTITION"}, FALSE) \o Each(Tables, emitTable)

emitTables == Each(Tables, emitTable) \o emitObjects({"PARTITION"}, FALSE)

Emit ==
  emitObjects({"SCHEMA"}, FALSE)
  \o emitObjects({"EXTENSION"}, TRUE)
  \o Each(Sequences, emitSequence)
  \o Each(Types, emitType)
  \o emitObjects({"TYPE"}, FALSE)
  \o emitObjects({"DOMAIN"}, TRUE)
  \o emitTables
  \o Each(Indexes, emitIndex)
  \o emitObjects({"FUNCTION", "PROCEDURE"}, TRUE)
  \o emitObjects({"VIEW", "MATERIALIZED VIEW"}, TRUE)
  \o emitObjects({"TRIGGER"}, FALSE)
  \o emitObjects({"POLICY", "RULE"}, TRUE)
  \o Each(Truncates, emitTruncate)
  \o Each(Unknowns, unknownText)

-----------------------------------------------------------------------------
(* Mistake: only the first clause is kept.                                 *)
parseFirstClause(col) ==
  [col EXCEPT !.InlineConstraints = IF @ = <<>> THEN <<>> ELSE <<<<@[1]>>>>]

(* parseColumnDef keeps what follows the type, NOT NULL and DEFAULT as one *)
(* string.                                                                 *)
parseColumnDef(col) ==
  [col EXCEPT !.InlineConstraints = IF @ = <<>> THEN <<>> ELSE <<@>>]

(* The pattern of CREATE TYPE ... AS ENUM does not match over a newline:   *)
(* such a statement is passed through.                                     *)
Parse(text) ==
  CASE text.Type = "CreateTable" ->
         Stmt("CreateTable", [text.V EXCEPT !.Columns = Each(@, parseColumnDef)])
    [] text.Type = "CreateTypeLines" -> Stmt("Unknown", [Raw |-> text.V])
    [] OTHER -> text

(* A text that Parse returns an error for. *)
Malformed(text) == text.Type = "Malformed"

-----------------------------------------------------------------------------
(* Every statement that is kept for the output is in the output: no kind   *)
(* of object is forgotten by all sections, and no ALTER that applyAlter... *)
(* kept with an object is left out by the section of its kind.             *)
NothingLost(out) ==
  /\ \A i \in DOMAIN Objects :
       /\ createText(Objects[i].Kind, Objects[i].SQL) \in Range(out)
       /\ \A j \in DOMAIN Objects[i].PostAlters :
            alterText(Objects[i].PostAlters[j]) \in Range(out)
  /\ \A i \in DOMAIN Unknowns : unknownText(Unknowns[i]) \in Range(out)

-----------------------------------------------------------------------------
(* What a text of the output needs to stand behind.                        *)
DefinesTable(text, name) ==
  \/ text.Type = "CreateTable" /\ normIdent(text.V.Name) = normIdent(name)
  \/ /\ text.Type = "CreateObject"
     /\ text.V.Kind = "PARTITION"
     /\ text.V.Name = normIdent(name)

DefinesObject(text, kind, name) ==
  text.Type = "CreateObject" /\ text.V.Kind = kind /\ text.V.Name = name

IsNeededBy(earlier, text) ==
  CASE text.Type = "CreateIndex" -> DefinesTable(earlier, text.V.TableName)
    [] text.Type = "CreateObject" /\ text.V.Kind = "PARTITION" ->
         DefinesTable(earlier, text.V.SQL.Body)
    [] text.Type \in {"AlterFunctionOpts", "AlterObjectOpts"} ->
         DefinesObject(earlier, text.V.Kind, text.V.Name)

Dependent(text) ==
  \/ text.Type \in {"CreateIndex", "AlterFunctionOpts", "AlterObjectOpts"}
  \/ text.Type = "CreateObject" /\ text.V.Kind = "PARTITION"

Before(out, i) == {out[j] : j \in 1..(i - 1)}

(* Every text stands behind what it refers to: an index and a partition    *)
(* behind their table, an ALTER behind the CREATE of its object.           *)
UsesFollowDefinitions(out) ==
  \A i \in DOMAIN out :
    Dependent(out[i]) => \E e \in Before(out, i) : IsNeededBy(e, out[i])
=============================================================================
