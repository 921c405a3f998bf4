------------------------------ MODULE TableDef ------------------------------
(***************************************************************************)
(* What a table consists of and what one action of an ALTER TABLE does to  *)
(* it: the cases of applyAction (schema.go) other than RENAME TO another   *)
(* table name, which also touches the maps (see TableRegistry).            *)
(*                                                                         *)
(* Kept of a column: its name, type, NOT NULL, default and the list of its *)
(* inline constraints.  The parser puts every inline constraint of a       *)
(* CREATE TABLE column into one string, and an ALTER appends strings of    *)
(* its own; so an inline constraint is a chunk, a sequence of clauses, and *)
(* the prefix tests of the code see the first clause of a chunk only.      *)
(* Kept of a table constraint: its name, its kind and the identifiers in   *)
(* its text, by the role they play.                                        *)
(***************************************************************************)
EXTENDS Naturals, Sequences, SequencesExt, Identifiers

CONSTANTS
  NoName,         \* the empty name of an anonymous constraint
  NoValue,        \* a column without default, a text without a reference
  KeywordPart     \* letters that also occur inside the word REFERENCES

clause(kind, arg) == [Kind |-> kind, Arg |-> arg]

(* strings.HasPrefix of an inline constraint *)
HasPrefix(chunk, kind) == chunk # <<>> /\ chunk[1].Kind = kind

(* The first position of s that P holds for, 0 if there is none. *)
FirstWhere(s, P(_)) ==
  LET hits == {i \in DOMAIN s : P(s[i])} IN IF hits = {} THEN 0 ELSE Min(hits)

findColumnIdx(t, column) ==
  FirstWhere(t.Columns, LAMBDA c : normIdent(c.Name) = normIdent(column))

constraintKey(name) == IF name = NoName THEN NoName ELSE normIdent(name)

findConstraintIdx(t, name) ==
  FirstWhere(t.Constraints,
             LAMBDA c : constraintKey(c.Name) = constraintKey(name))

replaceOrAppendInlineConstraint(inline, kind, new) ==
  LET i == FirstWhere(inline, LAMBDA ch : HasPrefix(ch, kind)) IN
  IF i = 0 THEN Append(inline, <<new>>) ELSE [inline EXCEPT ![i] = <<new>>]

(* The whole chunk goes, with every other clause in it. *)
removeInlineConstraint(inline, kind) ==
  LET i == FirstWhere(inline, LAMBDA ch : HasPrefix(ch, kind)) IN
  IF i = 0 THEN inline ELSE RemoveAt(inline, i)

Identity == {"ALWAYS", "BY DEFAULT"}

(* ALWAYS and BY DEFAULT in the identity clauses of a GENERATED chunk.     *)
setGeneratedKind(inline, kind) ==
  LET i == FirstWhere(inline, LAMBDA ch : HasPrefix(ch, "GENERATED")) IN
  [inline EXCEPT ![i] =
     [j \in DOMAIN @ |-> IF @[j].Kind = "GENERATED" /\ @[j].Arg \in Identity
                           THEN clause("GENERATED", kind) ELSE @[j]]]

-----------------------------------------------------------------------------
(* The name PostgreSQL gives a constraint that was written without one.    *)
autoName(parts) ==
  [letters |-> parts, upper |-> FALSE, quoted |-> FALSE]

autoKinds == [pkey |-> "PRIMARY KEY", key |-> "UNIQUE",
              fkey |-> "REFERENCES", check |-> "CHECK"]

RemoveInline(t, i, kind) ==
  [t EXCEPT !.Columns[i].InlineConstraints = removeInlineConstraint(@, kind)]

(* The columns a _pkey name can stand for: the first that has a PRIMARY    *)
(* KEY chunk.                                                              *)
pkeyColumn(t, name) ==
  IF normIdent(name) = autoName(<<t.Name.letters, "pkey">>)
    THEN FirstWhere(t.Columns, LAMBDA c :
           \E j \in DOMAIN c.InlineConstraints :
             HasPrefix(c.InlineConstraints[j], "PRIMARY KEY"))
    ELSE 0

(* The first column that a {table}_{column}_{suffix} name can stand for.   *)
suffixColumn(t, name, suffix) ==
  FirstWhere(t.Columns, LAMBDA c :
    normIdent(name) = autoName(<<t.Name.letters, c.Name.letters, suffix>>))

(* Zero or one table: what is left when an inline constraint was meant.    *)
(* A {table}_{column}_{suffix} name counts as found even when the column   *)
(* has no such chunk.                                                      *)
dropInlineConstraintByAutoName(t, name) ==
  IF pkeyColumn(t, name) # 0
    THEN {RemoveInline(t, pkeyColumn(t, name), "PRIMARY KEY")}
    ELSE {RemoveInline(t, suffixColumn(t, name, s), autoKinds[s]) :
            s \in {u \in {"key", "fkey", "check"} : suffixColumn(t, name, u) # 0}}

-----------------------------------------------------------------------------
(* RENAME COLUMN replaces the old name wherever it stands as a word in the *)
(* text of a table constraint, in any case and between quotes too, also    *)
(* where it names another table or a column of another table.  A quoted    *)
(* old name matches nothing: \b does not hold before a quote.  A quoted    *)
(* new name in the place of a word between quotes gets its quotes twice in *)
(* the code, which makes the text no SQL any more; here it is the quoted   *)
(* name, as the runs that rename columns have no quoted names.             *)
ReplaceWord(word, old, new) ==
  IF word # NoValue /\ ~ old.quoted /\ word.letters = old.letters
    THEN [new EXCEPT !.quoted = new.quoted \/ word.quoted]
    ELSE word

(* Mistake: only what the constraint refers to is looked at.               *)
ReplaceReferencedColumn(def, old, new) ==
  [def EXCEPT !.RefTable = ReplaceWord(@, old, new),
              !.RefCols = {ReplaceWord(c, old, new) : c \in @}]

ReplaceColumn(def, old, new) ==
  [def EXCEPT !.Cols = {ReplaceWord(c, old, new) : c \in @},
              !.RefTable = ReplaceWord(@, old, new),
              !.RefCols = {ReplaceWord(c, old, new) : c \in @}]

(* RENAME TO replaces the old table name behind REFERENCES.  The new text  *)
(* starts with what precedes the first occurrence of the old name in the   *)
(* match "REFERENCES old", which lies inside the keyword itself when the   *)
(* old name is a part of it: the keyword is cut off.                       *)
ReplaceReference(ref, old, new) ==
  IF ref = NoValue \/ old.quoted \/ ref.quoted \/ ref.letters # old.letters
    THEN ref
    ELSE IF old.letters \in KeywordPart THEN NoValue ELSE new

(* Mistake: the inline constraints are forgotten.                          *)
ReplaceTableReference(t, new) ==
  LET inConstraint(con) ==
        [con EXCEPT !.Definition.RefTable = ReplaceReference(@, t.Name, new)]
  IN  [t EXCEPT !.Constraints = [i \in DOMAIN @ |-> inConstraint(@[i])]]

ReplaceSelfReference(t, new) ==
  LET renamed(ref) == ReplaceReference(ref, t.Name, new)
      inConstraint(con) == [con EXCEPT !.Definition.RefTable = renamed(@)]
      inClause(cl) == IF cl.Kind = "REFERENCES"
                        THEN clause("REFERENCES", renamed(cl.Arg)) ELSE cl
      inChunk(chunk) == IF HasPrefix(chunk, "REFERENCES")
                          THEN [k \in DOMAIN chunk |-> inClause(chunk[k])]
                          ELSE chunk
      inColumn(col) == [col EXCEPT !.InlineConstraints =
                          [j \in DOMAIN @ |-> inChunk(@[j])]]
  IN  [t EXCEPT !.Constraints = [i \in DOMAIN @ |-> inConstraint(@[i])],
                !.Columns = [i \in DOMAIN @ |-> inColumn(@[i])]]

-----------------------------------------------------------------------------
(* applyAction as a function from a table to the set of the one table it   *)
(* becomes, or to the empty set if the action is refused.                  *)
UpdateColumn(t, column, f(_)) ==
  LET i == findColumnIdx(t, column) IN
  IF i = 0 THEN {} ELSE {[t EXCEPT !.Columns[i] = f(@)]}

(* Mistake: a column of that name is not looked for.                       *)
addColumnAgain(t, a) == {[t EXCEPT !.Columns = Append(@, a.ColDef)]}

addColumn(t, a) ==
  IF findColumnIdx(t, a.ColDef.Name) # 0
    THEN {} ELSE {[t EXCEPT !.Columns = Append(@, a.ColDef)]}

dropColumn(t, a) ==
  LET i == findColumnIdx(t, a.Column) IN
  IF i = 0 THEN {} ELSE {[t EXCEPT !.Columns = RemoveAt(@, i)]}

renameColumn(t, a) ==
  LET i == findColumnIdx(t, a.Column)
      inConstraint(con) ==
        [con EXCEPT !.Definition = ReplaceColumn(@, a.Column, a.NewName)] IN
  IF i = 0 THEN {}
  ELSE {[t EXCEPT !.Columns[i].Name = a.NewName,
                  !.Constraints = [j \in DOMAIN @ |-> inConstraint(@[j])]]}

addConstraint(t, a) ==
  IF a.Constraint.Name # NoName /\ findConstraintIdx(t, a.Constraint.Name) # 0
    THEN {} ELSE {[t EXCEPT !.Constraints = Append(@, a.Constraint)]}

dropConstraint(t, a) ==
  LET i == findConstraintIdx(t, a.Name)
      inline == dropInlineConstraintByAutoName(t, a.Name) IN
  IF i # 0 THEN {[t EXCEPT !.Constraints = RemoveAt(@, i)]}
  ELSE IF inline # {} THEN inline
  ELSE IF a.IfExists THEN {t} ELSE {}

renameConstraint(t, a) ==
  LET i == findConstraintIdx(t, a.Name) IN
  IF i = 0 THEN {} ELSE {[t EXCEPT !.Constraints[i].Name = a.NewName]}

(* A column has an identity for the code if one of its chunks starts with  *)
(* GENERATED.                                                              *)
HasGenerated(t, column) ==
  LET i == findColumnIdx(t, column) IN
  /\ i # 0
  /\ \E j \in DOMAIN t.Columns[i].InlineConstraints :
       HasPrefix(t.Columns[i].InlineConstraints[j], "GENERATED")

dropIdentity(t, a) ==
  IF HasGenerated(t, a.Column)
    THEN {RemoveInline(t, findColumnIdx(t, a.Column), "GENERATED")}
    ELSE IF a.IfExists THEN {t} ELSE {}

setGenerated(t, a) ==
  IF HasGenerated(t, a.Column)
    THEN UpdateColumn(t, a.Column, LAMBDA c :
           [c EXCEPT !.InlineConstraints = setGeneratedKind(@, a.Arg)])
    ELSE {}

(* ADD GENERATED, SET STORAGE and SET COMPRESSION *)
setInline(t, a, kind) ==
  UpdateColumn(t, a.Column, LAMBDA c :
    [c EXCEPT !.InlineConstraints =
       replaceOrAppendInlineConstraint(@, kind, clause(kind, a.Arg))])

setField(t, a) ==
  UpdateColumn(t, a.Column, LAMBDA c :
    CASE a.Kind = "TYPE"          -> [c EXCEPT !.DataType = a.Arg]
      [] a.Kind = "SET DEFAULT"   -> [c EXCEPT !.Default = a.Arg]
      [] a.Kind = "DROP DEFAULT"  -> [c EXCEPT !.Default = NoValue]
      [] a.Kind = "SET NOT NULL"  -> [c EXCEPT !.NotNull = TRUE]
      [] a.Kind = "DROP NOT NULL" -> [c EXCEPT !.NotNull = FALSE])

ActionKind ==
  {"ADD COLUMN", "DROP COLUMN", "RENAME COLUMN", "ADD CONSTRAINT",
   "DROP CONSTRAINT", "RENAME CONSTRAINT", "ADD GENERATED", "SET STORAGE",
   "SET COMPRESSION", "SET GENERATED", "DROP IDENTITY", "SKIP", "TYPE",
   "SET DEFAULT", "DROP DEFAULT", "SET NOT NULL", "DROP NOT NULL"}

applyAction(t, a) ==
  CASE a.Kind = "ADD COLUMN"        -> addColumn(t, a)
    [] a.Kind = "DROP COLUMN"       -> dropColumn(t, a)
    [] a.Kind = "RENAME COLUMN"     -> renameColumn(t, a)
    [] a.Kind = "ADD CONSTRAINT"    -> addConstraint(t, a)
    [] a.Kind = "DROP CONSTRAINT"   -> dropConstraint(t, a)
    [] a.Kind = "RENAME CONSTRAINT" -> renameConstraint(t, a)
    [] a.Kind = "ADD GENERATED"     -> setInline(t, a, "GENERATED")
    [] a.Kind = "SET STORAGE"       -> setInline(t, a, "STORAGE")
    [] a.Kind = "SET COMPRESSION"   -> setInline(t, a, "COMPRESSION")
    [] a.Kind = "SET GENERATED"     -> setGenerated(t, a)
    [] a.Kind = "DROP IDENTITY"     -> dropIdentity(t, a)
    [] a.Kind = "SKIP"              -> {t}
    [] OTHER                        -> setField(t, a)
=============================================================================
