--------------------------- MODULE TableDefProofs ---------------------------
(***************************************************************************)
(* What the actions of an ALTER TABLE preserve, whatever the table, the    *)
(* action and their names: the table stays one the emitter can print       *)
(* (IsTableDef), and an action PostgreSQL accepts gives no two columns and *)
(* no two named constraints one name (DistinctParts).                      *)
(***************************************************************************)
EXTENDS TableRegistry, KeyedSlicesProofs

(* The two slices of a table, by position.                                 *)
IsTableRecord(t) ==
  t = [Name |-> t.Name, Columns |-> t.Columns, Constraints |-> t.Constraints]
IsColumnList(cols) == IsSlice(cols) /\ \A i \in 1..Len(cols) : IsColumnDef(cols[i])
IsConstraintList(cons) ==
  IsSlice(cons) /\ \A i \in 1..Len(cons) : IsTableConstraint(cons[i])
IsInlineList(list) ==
  IsSlice(list) /\ \A i \in 1..Len(list) : IsSlice(list[i]) /\ list[i] # <<>>

NoTwoColumns(cols) ==
  \A i, j \in 1..Len(cols) : normIdent(cols[i].Name) = normIdent(cols[j].Name) => i = j
NoTwoConstraints(cons) ==
  \A i, j \in 1..Len(cons) :
    /\ constraintKey(cons[i].Name) # NoName
    /\ constraintKey(cons[i].Name) = constraintKey(cons[j].Name)
    => i = j

(* What holds of all elements of a slice holds at all of its positions.    *)
LEMMA AtPositions ==
  ASSUME NEW s, IsSlice(s)
  PROVE  /\ Len(s) \in Nat /\ DOMAIN s = 1..Len(s)
         /\ Range(s) = {s[i] : i \in 1..Len(s)}
BY SliceWithin DEF Range

(* IsTableDef and IsColumnDef by position.                                 *)
LEMMA TableDefParts ==
  ASSUME NEW t
  PROVE  /\ IsTableDef(t) <=> /\ IsTableRecord(t)
                              /\ t.Name \in Token
                              /\ IsColumnList(t.Columns)
                              /\ IsConstraintList(t.Constraints)
<1>1. IsSlice(t.Columns) =>
        ((\A c \in Range(t.Columns) : IsColumnDef(c)) <=> IsColumnList(t.Columns))
  BY AtPositions DEF IsColumnList
<1>2. IsSlice(t.Constraints) =>
        ((\A c \in Range(t.Constraints) : IsTableConstraint(c))
           <=> IsConstraintList(t.Constraints))
  BY AtPositions DEF IsConstraintList
<1> QED
  BY <1>1, <1>2 DEF IsTableDef, IsTableRecord, IsColumnList, IsConstraintList

(* IsColumnDef by position of its inline constraints.                      *)
LEMMA ColumnDefParts ==
  ASSUME NEW c
  PROVE  IsColumnDef(c) <=>
           /\ c = [Name |-> c.Name, DataType |-> c.DataType, NotNull |-> c.NotNull,
                   Default |-> c.Default, InlineConstraints |-> c.InlineConstraints]
           /\ c.NotNull \in BOOLEAN
           /\ IsInlineList(c.InlineConstraints)
<1> DEFINE good(ch) == IsSlice(ch) /\ ch # <<>>
           list == c.InlineConstraints
<1>1. ASSUME IsSlice(list)
      PROVE  (\A ch \in Range(list) : good(ch)) <=> \A i \in 1..Len(list) : good(list[i])
  <2> HIDE DEF good, list
  <2> QED
    BY <1>1, AtPositions
<1> QED
  BY <1>1 DEF IsColumnDef, IsInlineList

(* DistinctParts by position.                                              *)
LEMMA DistinctByPosition ==
  ASSUME NEW t, IsTableDef(t)
  PROVE  DistinctParts(t) <=> NoTwoColumns(t.Columns) /\ NoTwoConstraints(t.Constraints)
<1>1. IsSlice(t.Columns) /\ IsSlice(t.Constraints)
  BY DEF IsTableDef
<1>2. DistinctColumns(t) <=> NoTwoColumns(t.Columns)
  <2>1. DOMAIN normKeys(t.Columns) = 1..Len(t.Columns)
    BY <1>1, SliceKeys, SliceWithin
  <2> QED
    BY <1>1, <2>1, SliceKeys DEF DistinctColumns, Distinct, NoTwoColumns
<1>3. DistinctConstraints(t) <=> NoTwoConstraints(t.Constraints)
  BY <1>1, SliceWithin DEF DistinctConstraints, NoTwoConstraints
<1> QED
  BY <1>2, <1>3 DEF DistinctParts

(* A slice is appended to, an element removed or replaced: the columns.    *)
LEMMA ColumnsAppend ==
  ASSUME NEW cols, IsColumnList(cols), NEW c, IsColumnDef(c)
  PROVE  /\ IsColumnList(Append(cols, c))
         /\ /\ NoTwoColumns(cols)
            /\ \A j \in 1..Len(cols) : normIdent(cols[j].Name) # normIdent(c.Name)
            => NoTwoColumns(Append(cols, c))
<1>1. /\ IsSlice(Append(cols, c)) /\ Len(Append(cols, c)) = Len(cols) + 1
      /\ \A i \in 1..(Len(cols) + 1) : Append(cols, c)[i] = IF i <= Len(cols) THEN cols[i] ELSE c
      /\ Len(cols) \in Nat
  BY SliceAppend, SliceWithin DEF IsColumnList
<1> QED
  BY <1>1 DEF IsColumnList, NoTwoColumns

(* A column is removed: no two of the others get one name.                 *)
LEMMA ColumnsRemove ==
  ASSUME NEW cols, IsColumnList(cols), NEW p \in 1..Len(cols)
  PROVE  /\ IsColumnList(RemoveAt(cols, p))
         /\ NoTwoColumns(cols) => NoTwoColumns(RemoveAt(cols, p))
<1>1. /\ IsSlice(RemoveAt(cols, p)) /\ Len(RemoveAt(cols, p)) = Len(cols) - 1
      /\ \A i \in 1..(Len(cols) - 1) :
           RemoveAt(cols, p)[i] = IF i < p THEN cols[i] ELSE cols[i + 1]
      /\ Len(cols) \in Nat
  BY SliceRemove, SliceWithin DEF IsColumnList
<1> DEFINE from(i) == IF i < p THEN i ELSE i + 1
<1>2. /\ \A i \in 1..(Len(cols) - 1) :
           from(i) \in 1..Len(cols) /\ RemoveAt(cols, p)[i] = cols[from(i)]
      /\ \A i, j \in 1..(Len(cols) - 1) : from(i) = from(j) => i = j
  BY <1>1
<1> HIDE DEF from
<1>3. IsColumnList(RemoveAt(cols, p))
  BY <1>1, <1>2 DEF IsColumnList
<1>4. ASSUME NoTwoColumns(cols) PROVE NoTwoColumns(RemoveAt(cols, p))
  BY <1>1, <1>2, <1>4 DEF NoTwoColumns
<1> QED
  BY <1>3, <1>4

(* A column is replaced by one whose name no other column has.             *)
LEMMA ColumnsReplace ==
  ASSUME NEW cols, IsColumnList(cols), NEW p \in 1..Len(cols), NEW c, IsColumnDef(c)
  PROVE  /\ IsColumnList(Replaced(cols, p, c))
         /\ /\ NoTwoColumns(cols)
            /\ \A j \in 1..Len(cols) : j # p => normIdent(cols[j].Name) # normIdent(c.Name)
            => NoTwoColumns(Replaced(cols, p, c))
<1>1. /\ IsSlice(Replaced(cols, p, c)) /\ Len(Replaced(cols, p, c)) = Len(cols)
      /\ \A i \in 1..Len(cols) : Replaced(cols, p, c)[i] = IF i = p THEN c ELSE cols[i]
  BY SliceReplace DEF IsColumnList
<1> QED
  BY <1>1 DEF IsColumnList, NoTwoColumns

(* The same of the constraints.                                            *)
LEMMA ConstraintsAppend ==
  ASSUME NEW cons, IsConstraintList(cons), NEW c, IsTableConstraint(c)
  PROVE  /\ IsConstraintList(Append(cons, c))
         /\ /\ NoTwoConstraints(cons)
            /\ constraintKey(c.Name) = NoName
               \/ \A j \in 1..Len(cons) : constraintKey(cons[j].Name) # constraintKey(c.Name)
            => NoTwoConstraints(Append(cons, c))
<1>1. /\ IsSlice(Append(cons, c)) /\ Len(Append(cons, c)) = Len(cons) + 1
      /\ \A i \in 1..(Len(cons) + 1) : Append(cons, c)[i] = IF i <= Len(cons) THEN cons[i] ELSE c
      /\ Len(cons) \in Nat
  BY SliceAppend, SliceWithin DEF IsConstraintList
<1> QED
  BY <1>1 DEF IsConstraintList, NoTwoConstraints

(* A constraint is removed: no two of the others get one name.             *)
LEMMA ConstraintsRemove ==
  ASSUME NEW cons, IsConstraintList(cons), NEW p \in 1..Len(cons)
  PROVE  /\ IsConstraintList(RemoveAt(cons, p))
         /\ NoTwoConstraints(cons) => NoTwoConstraints(RemoveAt(cons, p))
<1>1. /\ IsSlice(RemoveAt(cons, p)) /\ Len(RemoveAt(cons, p)) = Len(cons) - 1
      /\ \A i \in 1..(Len(cons) - 1) :
           RemoveAt(cons, p)[i] = IF i < p THEN cons[i] ELSE cons[i + 1]
      /\ Len(cons) \in Nat
  BY SliceRemove, SliceWithin DEF IsConstraintList
<1> DEFINE from(i) == IF i < p THEN i ELSE i + 1
<1>2. /\ \A i \in 1..(Len(cons) - 1) :
           from(i) \in 1..Len(cons) /\ RemoveAt(cons, p)[i] = cons[from(i)]
      /\ \A i, j \in 1..(Len(cons) - 1) : from(i) = from(j) => i = j
  BY <1>1
<1> HIDE DEF from
<1>3. IsConstraintList(RemoveAt(cons, p))
  BY <1>1, <1>2 DEF IsConstraintList
<1>4. ASSUME NoTwoConstraints(cons) PROVE NoTwoConstraints(RemoveAt(cons, p))
  BY <1>1, <1>2, <1>4 DEF NoTwoConstraints
<1> QED
  BY <1>3, <1>4

(* A constraint is replaced by one whose name no other constraint has.     *)
LEMMA ConstraintsReplace ==
  ASSUME NEW cons, IsConstraintList(cons), NEW p \in 1..Len(cons), NEW c,
         IsTableConstraint(c)
  PROVE  /\ IsConstraintList(Replaced(cons, p, c))
         /\ /\ NoTwoConstraints(cons)
            /\ \A j \in 1..Len(cons) : constraintKey(cons[j].Name) # constraintKey(c.Name)
            => NoTwoConstraints(Replaced(cons, p, c))
<1>1. /\ IsSlice(Replaced(cons, p, c)) /\ Len(Replaced(cons, p, c)) = Len(cons)
      /\ \A i \in 1..Len(cons) : Replaced(cons, p, c)[i] = IF i = p THEN c ELSE cons[i]
  BY SliceReplace DEF IsConstraintList
<1> QED
  BY <1>1 DEF IsConstraintList, NoTwoConstraints

(* A list rewritten element by element, each under its name.               *)
LEMMA ColumnsMapped ==
  ASSUME NEW cols, IsColumnList(cols), NEW new,
         DOMAIN new = DOMAIN cols, new = [i \in DOMAIN new |-> new[i]],
         \A i \in 1..Len(cols) : IsColumnDef(new[i]) /\ new[i].Name = cols[i].Name
  PROVE  IsColumnList(new) /\ (NoTwoColumns(cols) => NoTwoColumns(new))
<1>1. Len(cols) \in Nat /\ DOMAIN new = 1..Len(cols)
  BY SliceWithin DEF IsColumnList
<1> DEFINE E == {new[i] : i \in 1..Len(cols)}
<1>2. new \in [1..Len(cols) -> E]
  BY <1>1
<1> HIDE DEF E
<1>3. IsSlice(new) /\ Len(new) = Len(cols)
  BY <1>1, <1>2, FunctionIsSlice
<1> QED
  BY <1>3 DEF IsColumnList, NoTwoColumns

(* All constraints are rewritten, each keeping its name, as the rename     *)
(* of a column does.                                                       *)
LEMMA ConstraintsMapped ==
  ASSUME NEW cons, IsConstraintList(cons), NEW new,
         DOMAIN new = DOMAIN cons, new = [i \in DOMAIN new |-> new[i]],
         \A i \in 1..Len(cons) : IsTableConstraint(new[i]) /\ new[i].Name = cons[i].Name
  PROVE  IsConstraintList(new) /\ (NoTwoConstraints(cons) => NoTwoConstraints(new))
<1>1. Len(cons) \in Nat /\ DOMAIN new = 1..Len(cons)
  BY SliceWithin DEF IsConstraintList
<1> DEFINE E == {new[i] : i \in 1..Len(cons)}
<1>2. new \in [1..Len(cons) -> E]
  BY <1>1
<1> HIDE DEF E
<1>3. IsSlice(new) /\ Len(new) = Len(cons)
  BY <1>1, <1>2, FunctionIsSlice
<1> QED
  BY <1>3 DEF IsConstraintList, NoTwoConstraints

-----------------------------------------------------------------------------
(* The parts of a table, of a column and of a constraint are set.          *)
WithParts(t, cols, cons) ==
  [Name |-> t.Name, Columns |-> cols, Constraints |-> cons]

(* One field of a table is assigned.                                       *)
LEMMA SetPart ==
  ASSUME NEW t, IsTableRecord(t), NEW x
  PROVE  /\ [t EXCEPT !.Name = x]
              = [Name |-> x, Columns |-> t.Columns, Constraints |-> t.Constraints]
         /\ [t EXCEPT !.Columns = x] = WithParts(t, x, t.Constraints)
         /\ [t EXCEPT !.Constraints = x] = WithParts(t, t.Columns, x)
<1>1. PICK a, b, c : t = [Name |-> a, Columns |-> b, Constraints |-> c]
  BY DEF IsTableRecord
<1>2. t.Name = a /\ t.Columns = b /\ t.Constraints = c
  BY <1>1
<1>3. [t EXCEPT !.Name = x] = [Name |-> x, Columns |-> b, Constraints |-> c]
  BY <1>1
<1>4. [t EXCEPT !.Columns = x] = [Name |-> a, Columns |-> x, Constraints |-> c]
  BY <1>1
<1>5. [t EXCEPT !.Constraints = x] = [Name |-> a, Columns |-> b, Constraints |-> x]
  BY <1>1
<1> QED
  BY <1>2, <1>3, <1>4, <1>5 DEF WithParts

(* Both slices of a table are assigned.                                    *)
LEMMA SetParts ==
  ASSUME NEW t, IsTableRecord(t), NEW cols, NEW cons
  PROVE  [[t EXCEPT !.Columns = cols] EXCEPT !.Constraints = cons] = WithParts(t, cols, cons)
<1> DEFINE u == WithParts(t, cols, t.Constraints)
<1>1. [t EXCEPT !.Columns = cols] = u
  BY SetPart
<1>2. IsTableRecord(u) /\ u.Name = t.Name /\ u.Columns = cols
  BY DEF IsTableRecord, WithParts
<1> HIDE DEF u
<1>3. [u EXCEPT !.Constraints = cons] = WithParts(u, u.Columns, cons)
  BY <1>2, SetPart
<1> QED
  BY <1>1, <1>2, <1>3 DEF WithParts

(* A table with other lists is a table.                                    *)
LEMMA PartsChanged ==
  ASSUME NEW t, IsTableDef(t), NEW cols, IsColumnList(cols), NEW cons,
         IsConstraintList(cons), NEW x, x = WithParts(t, cols, cons)
  PROVE  /\ IsTableDef(x)
         /\ x.Name = t.Name /\ x.Columns = cols /\ x.Constraints = cons
         /\ DistinctParts(x) <=> NoTwoColumns(cols) /\ NoTwoConstraints(cons)
<1>1. x.Name = t.Name /\ x.Columns = cols /\ x.Constraints = cons /\ IsTableRecord(x)
  BY DEF WithParts, IsTableRecord
<1>2. IsTableDef(x)
  BY <1>1, TableDefParts
<1> QED
  BY <1>1, <1>2, DistinctByPosition

(* One field of a column is assigned: it stays a column, and keeps its     *)
(* name unless that is the field.                                          *)
LEMMA SetColumnPart ==
  ASSUME NEW c, IsColumnDef(c), NEW x
  PROVE  /\ IsColumnDef([c EXCEPT !.Name = x]) /\ [c EXCEPT !.Name = x].Name = x
         /\ IsColumnDef([c EXCEPT !.DataType = x]) /\ [c EXCEPT !.DataType = x].Name = c.Name
         /\ IsColumnDef([c EXCEPT !.Default = x]) /\ [c EXCEPT !.Default = x].Name = c.Name
         /\ x \in BOOLEAN => /\ IsColumnDef([c EXCEPT !.NotNull = x])
                             /\ [c EXCEPT !.NotNull = x].Name = c.Name
         /\ IsInlineList(x) => /\ IsColumnDef([c EXCEPT !.InlineConstraints = x])
                               /\ [c EXCEPT !.InlineConstraints = x].Name = c.Name
<1> DEFINE col(n, d, nn, f, l) == [Name |-> n, DataType |-> d, NotNull |-> nn,
                                   Default |-> f, InlineConstraints |-> l]
<1>1. PICK n, d, nn, f, l : c = col(n, d, nn, f, l)
  BY ColumnDefParts
<1>2. nn \in BOOLEAN /\ IsInlineList(l) /\ c.Name = n
  BY <1>1, ColumnDefParts
<1>3. ASSUME NEW n1, NEW d1, NEW nn1 \in BOOLEAN, NEW f1, NEW l1, IsInlineList(l1)
      PROVE  IsColumnDef(col(n1, d1, nn1, f1, l1)) /\ col(n1, d1, nn1, f1, l1).Name = n1
  BY <1>3, ColumnDefParts
<1>4. [c EXCEPT !.Name = x] = col(x, d, nn, f, l)
  BY <1>1
<1>5. [c EXCEPT !.DataType = x] = col(n, x, nn, f, l)
  BY <1>1
<1>6. [c EXCEPT !.Default = x] = col(n, d, nn, x, l)
  BY <1>1
<1>7. [c EXCEPT !.NotNull = x] = col(n, d, x, f, l)
  BY <1>1
<1>8. [c EXCEPT !.InlineConstraints = x] = col(n, d, nn, f, x)
  BY <1>1
<1> HIDE DEF col
<1> QED
  BY <1>2, <1>3, <1>4, <1>5, <1>6, <1>7, <1>8

(* One field of a constraint is assigned.                                  *)
LEMMA SetConstraintPart ==
  ASSUME NEW c, IsTableConstraint(c), NEW x
  PROVE  /\ IsTableConstraint([c EXCEPT !.Name = x]) /\ [c EXCEPT !.Name = x].Name = x
         /\ IsTableConstraint([c EXCEPT !.Definition = x])
         /\ [c EXCEPT !.Definition = x].Name = c.Name
<1>1. PICK n, d : c = [Name |-> n, Definition |-> d]
  BY DEF IsTableConstraint
<1>2. [c EXCEPT !.Name = x] = [Name |-> x, Definition |-> d]
  BY <1>1
<1>3. [c EXCEPT !.Definition = x] = [Name |-> n, Definition |-> x]
  BY <1>1
<1>4. c.Name = n
  BY <1>1
<1> QED
  BY <1>2, <1>3, <1>4 DEF IsTableConstraint

-----------------------------------------------------------------------------
(* What the searches return: the first hit, or 0 if there is none.         *)
LEMMA FirstHit ==
  ASSUME NEW n \in Nat, NEW hits, hits \subseteq 1..n, NEW i,
         i = IF hits = {} THEN 0 ELSE Min(hits)
  PROVE  (i = 0 /\ hits = {}) \/ (i # 0 /\ i \in hits)
<1>1. CASE hits # {}
  <2>1. hits \subseteq Nat
    OBVIOUS
  <2>2. Min(hits) \in hits
    BY <1>1, <2>1, MinPosition
  <2> QED
    BY <1>1, <2>2
<1> QED
  BY <1>1

(* findColumnIdx is 0 or the position of a column with the name.           *)
LEMMA FindColumn ==
  ASSUME NEW t, IsTableDef(t), NEW column, NEW i, i = findColumnIdx(t, column)
  PROVE  \/ /\ i = 0
            /\ \A j \in 1..Len(t.Columns) : normIdent(t.Columns[j].Name) # normIdent(column)
         \/ /\ i # 0
            /\ i \in 1..Len(t.Columns)
            /\ normIdent(t.Columns[i].Name) = normIdent(column)
<1> DEFINE hits == {j \in DOMAIN t.Columns :
                      normIdent(t.Columns[j].Name) = normIdent(column)}
<1>1. Len(t.Columns) \in Nat /\ DOMAIN t.Columns = 1..Len(t.Columns)
  BY SliceWithin DEF IsTableDef
<1>2. i = IF hits = {} THEN 0 ELSE Min(hits)
  BY DEF findColumnIdx, FirstWhere
<1>3. hits \subseteq 1..Len(t.Columns)
  BY <1>1
<1>4. (i = 0 /\ hits = {}) \/ (i # 0 /\ i \in hits)
  <2> HIDE DEF hits
  <2> QED
    BY <1>1, <1>2, <1>3, FirstHit
<1> QED
  BY <1>1, <1>4

(* findConstraintIdx is 0, and then no constraint has the name, or a       *)
(* position.                                                               *)
LEMMA FindConstraint ==
  ASSUME NEW t, IsTableDef(t), NEW name, NEW i, i = findConstraintIdx(t, name)
  PROVE  \/ /\ i = 0
            /\ \A j \in 1..Len(t.Constraints) :
                 constraintKey(t.Constraints[j].Name) # constraintKey(name)
         \/ i # 0 /\ i \in 1..Len(t.Constraints)
<1> DEFINE hits == {j \in DOMAIN t.Constraints :
                      constraintKey(t.Constraints[j].Name) = constraintKey(name)}
<1>1. Len(t.Constraints) \in Nat /\ DOMAIN t.Constraints = 1..Len(t.Constraints)
  BY SliceWithin DEF IsTableDef
<1>2. i = IF hits = {} THEN 0 ELSE Min(hits)
  BY DEF findConstraintIdx, FirstWhere
<1>3. hits \subseteq 1..Len(t.Constraints)
  BY <1>1
<1>4. (i = 0 /\ hits = {}) \/ (i # 0 /\ i \in hits)
  <2> HIDE DEF hits
  <2> QED
    BY <1>1, <1>2, <1>3, FirstHit
<1> QED
  BY <1>1, <1>4

(* The list of the inline constraints of a column stays a list of texts.   *)
LEMMA InlineRemoved ==
  ASSUME NEW inline, IsInlineList(inline), NEW kind
  PROVE  IsInlineList(removeInlineConstraint(inline, kind))
<1> DEFINE hits == {j \in DOMAIN inline : HasPrefix(inline[j], kind)}
           i == IF hits = {} THEN 0 ELSE Min(hits)
<1>1. Len(inline) \in Nat /\ DOMAIN inline = 1..Len(inline) /\ IsSlice(inline)
  BY SliceWithin DEF IsInlineList
<1>2. removeInlineConstraint(inline, kind) = IF i = 0 THEN inline ELSE RemoveAt(inline, i)
  BY DEF removeInlineConstraint, FirstWhere
<1>3. hits \subseteq 1..Len(inline)
  BY <1>1
<1>4. i = 0 \/ i \in 1..Len(inline)
  <2> HIDE DEF hits
  <2> QED
    BY <1>1, <1>3, FirstHit
<1> HIDE DEF i
<1>5. CASE i \in 1..Len(inline)
  <2>1. /\ IsSlice(RemoveAt(inline, i)) /\ Len(RemoveAt(inline, i)) = Len(inline) - 1
        /\ \A j \in 1..(Len(inline) - 1) :
             RemoveAt(inline, i)[j] = IF j < i THEN inline[j] ELSE inline[j + 1]
    BY <1>1, <1>5, SliceRemove
  <2>2. \A j \in 1..(Len(inline) - 1) :
          \E q \in 1..Len(inline) : RemoveAt(inline, i)[j] = inline[q]
    BY <1>1, <2>1
  <2>3. IsInlineList(RemoveAt(inline, i))
    BY <2>1, <2>2 DEF IsInlineList
  <2> QED
    BY <1>2, <1>5, <2>3
<1> QED
  BY <1>2, <1>4, <1>5

(* ADD GENERATED, SET STORAGE, SET COMPRESSION: one is replaced or         *)
(* appended, and none of them becomes the empty text.                      *)
LEMMA InlineSet ==
  ASSUME NEW inline, IsInlineList(inline), NEW kind, NEW new
  PROVE  IsInlineList(replaceOrAppendInlineConstraint(inline, kind, new))
<1> DEFINE hits == {j \in DOMAIN inline : HasPrefix(inline[j], kind)}
           i == IF hits = {} THEN 0 ELSE Min(hits)
           chunk == <<new>>
<1>1. Len(inline) \in Nat /\ DOMAIN inline = 1..Len(inline) /\ IsSlice(inline)
  BY SliceWithin DEF IsInlineList
<1>2. replaceOrAppendInlineConstraint(inline, kind, new) =
        IF i = 0 THEN Append(inline, chunk) ELSE Replaced(inline, i, chunk)
  BY DEF replaceOrAppendInlineConstraint, FirstWhere, Replaced
<1>3. hits \subseteq 1..Len(inline)
  BY <1>1
<1>4. i = 0 \/ i \in 1..Len(inline)
  <2> HIDE DEF hits
  <2> QED
    BY <1>1, <1>3, FirstHit
<1>5. chunk \in Seq({new}) /\ chunk # <<>>
  OBVIOUS
<1>6. IsSlice(chunk) /\ chunk # <<>>
  BY <1>5, SeqIsSlice
<1> HIDE DEF i, chunk
<1>7. IsInlineList(Append(inline, chunk))
  BY <1>1, <1>6, SliceAppend DEF IsInlineList
<1>8. ASSUME i \in 1..Len(inline) PROVE IsInlineList(Replaced(inline, i, chunk))
  BY <1>1, <1>6, <1>8, SliceReplace DEF IsInlineList
<1> QED
  BY <1>2, <1>4, <1>7, <1>8

(* A text rewritten clause by clause is a text.                            *)
LEMMA ChunkMapped ==
  ASSUME NEW ch, IsSlice(ch), ch # <<>>, NEW new, DOMAIN new = DOMAIN ch,
         new = [j \in DOMAIN new |-> new[j]]
  PROVE  IsSlice(new) /\ new # <<>>
<1>1. Len(ch) \in Nat /\ DOMAIN ch = 1..Len(ch) /\ ch \in Seq(Range(ch))
  BY SliceWithin DEF IsSlice
<1>2. Len(ch) # 0
  BY <1>1
<1> DEFINE E == {new[j] : j \in 1..Len(ch)}
<1>3. new \in [1..Len(ch) -> E]
  BY <1>1
<1> HIDE DEF E
<1>4. IsSlice(new) /\ Len(new) = Len(ch)
  BY <1>1, <1>3, FunctionIsSlice
<1> QED
  BY <1>2, <1>4

(* A list rewritten text by text is a list of texts.                       *)
LEMMA InlineMapped ==
  ASSUME NEW inline, IsInlineList(inline), NEW new, DOMAIN new = DOMAIN inline,
         new = [j \in DOMAIN new |-> new[j]],
         \A j \in DOMAIN inline : IsSlice(new[j]) /\ new[j] # <<>>
  PROVE  IsInlineList(new)
<1>1. Len(inline) \in Nat /\ DOMAIN inline = 1..Len(inline)
  BY SliceWithin DEF IsInlineList
<1> DEFINE E == {new[j] : j \in 1..Len(inline)}
<1>2. new \in [1..Len(inline) -> E]
  BY <1>1
<1> HIDE DEF E
<1>3. IsSlice(new) /\ Len(new) = Len(inline)
  BY <1>1, <1>2, FunctionIsSlice
<1> QED
  BY <1>1, <1>3 DEF IsInlineList

(* SET GENERATED changes a word inside an inline constraint, so that it    *)
(* does not become empty either.                                           *)
LEMMA GeneratedSet ==
  ASSUME NEW inline, IsInlineList(inline), NEW kind
  PROVE  IsInlineList(setGeneratedKind(inline, kind))
<1> DEFINE i == FirstWhere(inline, LAMBDA ch : HasPrefix(ch, "GENERATED"))
           ch == inline[i]
           chunk == [j \in DOMAIN ch |->
                       IF ch[j].Kind = "GENERATED" /\ ch[j].Arg \in Identity
                         THEN clause("GENERATED", kind) ELSE ch[j]]
           new == [inline EXCEPT ![i] = chunk]
<1>1. setGeneratedKind(inline, kind) = new
  BY DEF setGeneratedKind
<1>2. ASSUME NEW j \in DOMAIN inline PROVE IsSlice(inline[j]) /\ inline[j] # <<>>
  BY <1>2, SliceWithin DEF IsInlineList
<1>3. DOMAIN chunk = DOMAIN ch /\ chunk = [j \in DOMAIN chunk |-> chunk[j]]
  OBVIOUS
<1> HIDE DEF chunk, i
<1>4. i \in DOMAIN inline => IsSlice(chunk) /\ chunk # <<>>
  BY <1>2, <1>3, ChunkMapped
<1>5. /\ DOMAIN new = DOMAIN inline /\ new = [j \in DOMAIN new |-> new[j]]
      /\ \A j \in DOMAIN inline : new[j] = IF j = i THEN chunk ELSE inline[j]
  OBVIOUS
<1> HIDE DEF new
<1> QED
  BY <1>1, <1>2, <1>4, <1>5, InlineMapped

-----------------------------------------------------------------------------
(* What an action of an ALTER TABLE keeps: the table is one still, under   *)
(* its name, and if the action is one PostgreSQL accepts its parts have    *)
(* different names still.                                                  *)
Keeps(t, x, legal) ==
  /\ IsTableDef(x)
  /\ x.Name = t.Name
  /\ legal /\ DistinctParts(t) => DistinctParts(x)

(* One column is put in the place of another, which it may be renamed from. *)
LEMMA ColumnPut ==
  ASSUME NEW t, IsTableDef(t), NEW i \in 1..Len(t.Columns), NEW c, IsColumnDef(c),
         NEW cons, IsConstraintList(cons),
         NoTwoConstraints(t.Constraints) => NoTwoConstraints(cons),
         NEW x, x = WithParts(t, Replaced(t.Columns, i, c), cons)
  PROVE  Keeps(t, x, \A j \in 1..Len(t.Columns) :
                       j # i => normIdent(t.Columns[j].Name) # normIdent(c.Name))
<1>1. IsColumnList(t.Columns) /\ IsConstraintList(t.Constraints)
  BY TableDefParts
<1>2. /\ IsColumnList(Replaced(t.Columns, i, c))
      /\ /\ NoTwoColumns(t.Columns)
         /\ \A j \in 1..Len(t.Columns) : j # i => normIdent(t.Columns[j].Name) # normIdent(c.Name)
         => NoTwoColumns(Replaced(t.Columns, i, c))
  BY <1>1, ColumnsReplace
<1> DEFINE cols == Replaced(t.Columns, i, c)
<1> HIDE DEF cols
<1>3. /\ IsTableDef(x) /\ x.Name = t.Name
      /\ DistinctParts(x) <=> NoTwoColumns(cols) /\ NoTwoConstraints(cons)
  BY <1>2, PartsChanged DEF cols
<1>4. DistinctParts(t) <=> NoTwoColumns(t.Columns) /\ NoTwoConstraints(t.Constraints)
  BY DistinctByPosition
<1> QED
  BY <1>2, <1>3, <1>4 DEF Keeps, cols

(* An action on a column that leaves its name alone keeps the table.       *)
LEMMA ColumnUpdated ==
  ASSUME NEW t, IsTableDef(t), NEW i \in 1..Len(t.Columns), NEW c, IsColumnDef(c),
         c.Name = t.Columns[i].Name, NEW x,
         x = [t EXCEPT !.Columns = Replaced(t.Columns, i, c)]
  PROVE  Keeps(t, x, TRUE)
<1>1. IsTableRecord(t) /\ IsConstraintList(t.Constraints)
  BY TableDefParts
<1>2. x = WithParts(t, Replaced(t.Columns, i, c), t.Constraints)
  BY <1>1, SetPart
<1>3. Keeps(t, x, \A j \in 1..Len(t.Columns) :
                    j # i => normIdent(t.Columns[j].Name) # normIdent(c.Name))
  BY <1>1, <1>2, ColumnPut
<1>4. ASSUME NoTwoColumns(t.Columns), NEW j \in 1..Len(t.Columns), j # i
      PROVE  normIdent(t.Columns[j].Name) # normIdent(c.Name)
  BY <1>4 DEF NoTwoColumns
<1>5. DistinctParts(t) => NoTwoColumns(t.Columns)
  BY DistinctByPosition
<1> QED
  BY <1>3, <1>4, <1>5 DEF Keeps

(* ADD COLUMN, DROP COLUMN, RENAME COLUMN.                                 *)
LEMMA AddColumnKeeps ==
  ASSUME NEW t, IsTableDef(t), NEW a, IsColumnDef(a.ColDef), NEW x \in addColumn(t, a)
  PROVE  Keeps(t, x, TRUE)
<1> DEFINE cols == Append(t.Columns, a.ColDef)
<1>1. IsTableRecord(t) /\ IsColumnList(t.Columns) /\ IsConstraintList(t.Constraints)
  BY TableDefParts
<1>2. findColumnIdx(t, a.ColDef.Name) = 0 /\ x = [t EXCEPT !.Columns = cols]
  BY DEF addColumn
<1>3. \A j \in 1..Len(t.Columns) : normIdent(t.Columns[j].Name) # normIdent(a.ColDef.Name)
  BY <1>2, FindColumn
<1>4. IsColumnList(cols) /\ (NoTwoColumns(t.Columns) => NoTwoColumns(cols))
  BY <1>1, <1>3, ColumnsAppend
<1> HIDE DEF cols
<1>5. x = WithParts(t, cols, t.Constraints)
  BY <1>1, <1>2, SetPart
<1> QED
  BY <1>1, <1>4, <1>5, PartsChanged, DistinctByPosition DEF Keeps

(* DROP COLUMN keeps the table.                                            *)
LEMMA DropColumnKeeps ==
  ASSUME NEW t, IsTableDef(t), NEW a, NEW x \in dropColumn(t, a)
  PROVE  Keeps(t, x, TRUE)
<1> DEFINE i == findColumnIdx(t, a.Column)
           cols == RemoveAt(t.Columns, i)
<1>1. IsTableRecord(t) /\ IsColumnList(t.Columns) /\ IsConstraintList(t.Constraints)
  BY TableDefParts
<1>2. i # 0 /\ x = [t EXCEPT !.Columns = cols]
  BY DEF dropColumn
<1>3. i \in 1..Len(t.Columns)
  BY <1>2, FindColumn
<1> HIDE DEF i
<1>4. IsColumnList(cols) /\ (NoTwoColumns(t.Columns) => NoTwoColumns(cols))
  BY <1>1, <1>3, ColumnsRemove
<1> HIDE DEF cols
<1>5. x = WithParts(t, cols, t.Constraints)
  BY <1>1, <1>2, SetPart
<1> QED
  BY <1>1, <1>4, <1>5, PartsChanged, DistinctByPosition DEF Keeps

(* RENAME COLUMN keeps the table, and the names distinct if no column      *)
(* has the new name.                                                       *)
LEMMA RenameColumnKeeps ==
  ASSUME NEW t, IsTableDef(t), NEW a, NEW x \in renameColumn(t, a)
  PROVE  Keeps(t, x, findColumnIdx(t, a.NewName) = 0)
<1> DEFINE i == findColumnIdx(t, a.Column)
           inConstraint(con) ==
             [con EXCEPT !.Definition = ReplaceColumn(@, a.Column, a.NewName)]
           cons == [j \in DOMAIN t.Constraints |-> inConstraint(t.Constraints[j])]
           c == [t.Columns[i] EXCEPT !.Name = a.NewName]
           cols == Replaced(t.Columns, i, c)
<1>1. IsTableRecord(t) /\ IsColumnList(t.Columns) /\ IsConstraintList(t.Constraints)
  BY TableDefParts
<1>2. i # 0 /\ x = [t EXCEPT !.Columns[i].Name = a.NewName, !.Constraints = cons]
  BY DEF renameColumn
<1>3. i \in 1..Len(t.Columns)
  BY <1>2, FindColumn
<1>4. IsColumnDef(c) /\ c.Name = a.NewName
  <2>1. IsColumnDef(t.Columns[i])
    BY <1>1, <1>3 DEF IsColumnList
  <2> HIDE DEF i
  <2> QED
    BY <2>1, SetColumnPart
<1>5. IsConstraintList(cons) /\ (NoTwoConstraints(t.Constraints) => NoTwoConstraints(cons))
  <2>1. DOMAIN t.Constraints = 1..Len(t.Constraints)
    BY <1>1, SliceWithin DEF IsConstraintList
  <2>2. ASSUME NEW j \in 1..Len(t.Constraints)
        PROVE  IsTableConstraint(cons[j]) /\ cons[j].Name = t.Constraints[j].Name
    <3> DEFINE con == t.Constraints[j]
    <3>1. cons[j] = inConstraint(con) /\ IsTableConstraint(con)
      BY <1>1, <2>1 DEF IsConstraintList
    <3> HIDE DEF con
    <3>2. IsTableConstraint(inConstraint(con)) /\ inConstraint(con).Name = con.Name
      BY <3>1, SetConstraintPart
    <3> QED
      BY <3>1, <3>2 DEF con
  <2>3. DOMAIN cons = DOMAIN t.Constraints /\ cons = [j \in DOMAIN cons |-> cons[j]]
    OBVIOUS
  <2> HIDE DEF cons
  <2> QED
    BY <1>1, <2>2, <2>3, ConstraintsMapped
<1>6. x = WithParts(t, cols, cons)
  <2>1. x = [[t EXCEPT !.Columns = [t.Columns EXCEPT ![i] = c]] EXCEPT !.Constraints = cons]
    BY <1>2
  <2> HIDE DEF c, cons
  <2> QED
    BY <1>1, <2>1, SetParts DEF Replaced
<1> HIDE DEF i, c, cons
<1>7. Keeps(t, x, \A j \in 1..Len(t.Columns) :
                    j # i => normIdent(t.Columns[j].Name) # normIdent(c.Name))
  BY <1>3, <1>4, <1>5, <1>6, ColumnPut
<1>8. findColumnIdx(t, a.NewName) = 0 =>
        \A j \in 1..Len(t.Columns) : j # i => normIdent(t.Columns[j].Name) # normIdent(c.Name)
  BY <1>4, FindColumn
<1> QED
  BY <1>7, <1>8 DEF Keeps

(* ADD CONSTRAINT and RENAME CONSTRAINT.                                   *)
LEMMA AddConstraintKeeps ==
  ASSUME NEW t, IsTableDef(t), NEW a, IsTableConstraint(a.Constraint),
         NEW x \in addConstraint(t, a)
  PROVE  Keeps(t, x, TRUE)
<1> DEFINE c == a.Constraint
           cons == Append(t.Constraints, c)
<1>1. IsTableRecord(t) /\ IsColumnList(t.Columns) /\ IsConstraintList(t.Constraints)
  BY TableDefParts
<1>2. /\ c.Name = NoName \/ findConstraintIdx(t, c.Name) = 0
      /\ x = [t EXCEPT !.Constraints = cons]
  BY DEF addConstraint
<1>3. \/ constraintKey(c.Name) = NoName
      \/ \A j \in 1..Len(t.Constraints) :
           constraintKey(t.Constraints[j].Name) # constraintKey(c.Name)
  <2>1. CASE c.Name = NoName
    BY <2>1 DEF constraintKey
  <2>2. CASE findConstraintIdx(t, c.Name) = 0
    BY <2>2, FindConstraint
  <2> QED
    BY <1>2, <2>1, <2>2
<1>4. IsConstraintList(cons) /\ (NoTwoConstraints(t.Constraints) => NoTwoConstraints(cons))
  BY <1>1, <1>3, ConstraintsAppend
<1> HIDE DEF cons
<1>5. x = WithParts(t, t.Columns, cons)
  BY <1>1, <1>2, SetPart
<1> QED
  BY <1>1, <1>4, <1>5, PartsChanged, DistinctByPosition DEF Keeps

(* RENAME CONSTRAINT keeps the table, and the names distinct if no         *)
(* constraint has the new name.                                            *)
LEMMA RenameConstraintKeeps ==
  ASSUME NEW t, IsTableDef(t), NEW a, NEW x \in renameConstraint(t, a)
  PROVE  Keeps(t, x, findConstraintIdx(t, a.NewName) = 0)
<1> DEFINE i == findConstraintIdx(t, a.Name)
           c == [t.Constraints[i] EXCEPT !.Name = a.NewName]
           cons == Replaced(t.Constraints, i, c)
<1>1. IsTableRecord(t) /\ IsColumnList(t.Columns) /\ IsConstraintList(t.Constraints)
  BY TableDefParts
<1>2. i # 0 /\ x = [t EXCEPT !.Constraints = cons]
  BY DEF renameConstraint, Replaced
<1>3. i \in 1..Len(t.Constraints)
  BY <1>2, FindConstraint
<1>4. IsTableConstraint(c) /\ c.Name = a.NewName
  <2>1. IsTableConstraint(t.Constraints[i])
    BY <1>1, <1>3 DEF IsConstraintList
  <2> HIDE DEF i
  <2> QED
    BY <2>1, SetConstraintPart
<1>5. findConstraintIdx(t, a.NewName) = 0 =>
        \A j \in 1..Len(t.Constraints) :
          constraintKey(t.Constraints[j].Name) # constraintKey(c.Name)
  BY <1>4, FindConstraint
<1> HIDE DEF i, c
<1>6. /\ IsConstraintList(cons)
      /\ findConstraintIdx(t, a.NewName) = 0 /\ NoTwoConstraints(t.Constraints)
           => NoTwoConstraints(cons)
  BY <1>1, <1>3, <1>4, <1>5, ConstraintsReplace
<1> HIDE DEF cons
<1>7. x = WithParts(t, t.Columns, cons)
  BY <1>1, <1>2, SetPart
<1> QED
  BY <1>1, <1>6, <1>7, PartsChanged, DistinctByPosition DEF Keeps

(* The actions that change the inline constraints of a column.             *)
LEMMA RemoveInlineKeeps ==
  ASSUME NEW t, IsTableDef(t), NEW i \in 1..Len(t.Columns), NEW kind, NEW x,
         x = RemoveInline(t, i, kind)
  PROVE  Keeps(t, x, TRUE)
<1> DEFINE col == t.Columns[i]
           inline == removeInlineConstraint(col.InlineConstraints, kind)
           c == [col EXCEPT !.InlineConstraints = inline]
<1>1. IsColumnDef(col)
  BY TableDefParts DEF IsColumnList
<1>2. IsInlineList(inline)
  <2> HIDE DEF col
  <2> QED
    BY <1>1, ColumnDefParts, InlineRemoved
<1>3. x = [t EXCEPT !.Columns = Replaced(t.Columns, i, c)]
  BY DEF RemoveInline, Replaced
<1> HIDE DEF inline
<1>4. IsColumnDef(c) /\ c.Name = col.Name
  <2> HIDE DEF col
  <2> QED
    BY <1>1, <1>2, SetColumnPart
<1> HIDE DEF c
<1> QED
  BY <1>3, <1>4, ColumnUpdated DEF col

(* The column an automatic name stands for is one of the table.            *)
LEMMA AutoNameKeeps ==
  ASSUME NEW t, IsTableDef(t), NEW name, NEW x \in dropInlineConstraintByAutoName(t, name)
  PROVE  Keeps(t, x, TRUE)
<1>1. Len(t.Columns) \in Nat /\ DOMAIN t.Columns = 1..Len(t.Columns)
  BY SliceWithin DEF IsTableDef
<1>2. CASE pkeyColumn(t, name) # 0
  <2> DEFINE hits == {j \in DOMAIN t.Columns :
                        \E q \in DOMAIN t.Columns[j].InlineConstraints :
                          HasPrefix(t.Columns[j].InlineConstraints[q], "PRIMARY KEY")}
             i == IF hits = {} THEN 0 ELSE Min(hits)
  <2>1. pkeyColumn(t, name) = i
    BY <1>2 DEF pkeyColumn, FirstWhere
  <2>2. hits \subseteq 1..Len(t.Columns)
    BY <1>1
  <2>3. i = 0 \/ i \in 1..Len(t.Columns)
    <3> HIDE DEF hits
    <3> QED
      BY <1>1, <2>2, FirstHit
  <2> HIDE DEF i
  <2>4. x = RemoveInline(t, i, "PRIMARY KEY")
    BY <1>2, <2>1 DEF dropInlineConstraintByAutoName
  <2> QED
    BY <1>2, <2>1, <2>3, <2>4, RemoveInlineKeeps
<1>3. CASE pkeyColumn(t, name) = 0
  <2>1. PICK s \in {"key", "fkey", "check"} :
          /\ suffixColumn(t, name, s) # 0
          /\ x = RemoveInline(t, suffixColumn(t, name, s), autoKinds[s])
    BY <1>3 DEF dropInlineConstraintByAutoName
  <2> DEFINE hits == {j \in DOMAIN t.Columns :
                        normIdent(name) =
                          autoName(<<t.Name.letters, t.Columns[j].Name.letters, s>>)}
             i == IF hits = {} THEN 0 ELSE Min(hits)
  <2>2. suffixColumn(t, name, s) = i
    BY DEF suffixColumn, FirstWhere
  <2>3. hits \subseteq 1..Len(t.Columns)
    BY <1>1
  <2>4. i = 0 \/ i \in 1..Len(t.Columns)
    <3> HIDE DEF hits
    <3> QED
      BY <1>1, <2>3, FirstHit
  <2> HIDE DEF i
  <2> QED
    BY <2>1, <2>2, <2>4, RemoveInlineKeeps
<1> QED
  BY <1>2, <1>3

(* DROP CONSTRAINT keeps the table: it removes a constraint of the         *)
(* table or, by its automatic name, the inline constraint of a column.     *)
LEMMA DropConstraintKeeps ==
  ASSUME NEW t, IsTableDef(t), NEW a, NEW x \in dropConstraint(t, a)
  PROVE  Keeps(t, x, TRUE)
<1> DEFINE i == findConstraintIdx(t, a.Name)
           cons == RemoveAt(t.Constraints, i)
<1>1. CASE x = t
  BY <1>1 DEF Keeps
<1>2. CASE x \in dropInlineConstraintByAutoName(t, a.Name)
  BY <1>2, AutoNameKeeps
<1>3. CASE i # 0 /\ x = [t EXCEPT !.Constraints = cons]
  <2>1. IsTableRecord(t) /\ IsColumnList(t.Columns) /\ IsConstraintList(t.Constraints)
    BY TableDefParts
  <2>2. i \in 1..Len(t.Constraints)
    BY <1>3, FindConstraint
  <2> HIDE DEF i
  <2>3. IsConstraintList(cons) /\ (NoTwoConstraints(t.Constraints) => NoTwoConstraints(cons))
    BY <2>1, <2>2, ConstraintsRemove
  <2> HIDE DEF cons
  <2>4. x = WithParts(t, t.Columns, cons)
    BY <1>3, <2>1, SetPart
  <2> QED
    BY <2>1, <2>3, <2>4, PartsChanged, DistinctByPosition DEF Keeps
<1> QED
  BY <1>1, <1>2, <1>3 DEF dropConstraint

(* The actions on a column that is looked up by its name.                  *)
LEMMA SetInlineKeeps ==
  ASSUME NEW t, IsTableDef(t), NEW a, NEW kind, NEW x \in setInline(t, a, kind)
  PROVE  Keeps(t, x, TRUE)
<1> DEFINE i == findColumnIdx(t, a.Column)
           col == t.Columns[i]
           inline == replaceOrAppendInlineConstraint(col.InlineConstraints, kind,
                                                     clause(kind, a.Arg))
           c == [col EXCEPT !.InlineConstraints = inline]
<1>1. i # 0 /\ x = [t EXCEPT !.Columns = Replaced(t.Columns, i, c)]
  BY DEF setInline, UpdateColumn, Replaced
<1>2. i \in 1..Len(t.Columns)
  BY <1>1, FindColumn
<1>3. IsColumnDef(col)
  BY <1>2, TableDefParts DEF IsColumnList
<1> HIDE DEF i, col
<1>4. IsInlineList(inline)
  BY <1>3, ColumnDefParts, InlineSet
<1> HIDE DEF inline
<1>5. IsColumnDef(c) /\ c.Name = col.Name
  BY <1>3, <1>4, SetColumnPart
<1> HIDE DEF c
<1> QED
  BY <1>1, <1>2, <1>5, ColumnUpdated DEF col

(* SET GENERATED keeps the table.                                          *)
LEMMA SetGeneratedKeeps ==
  ASSUME NEW t, IsTableDef(t), NEW a, NEW x \in setGenerated(t, a)
  PROVE  Keeps(t, x, TRUE)
<1> DEFINE i == findColumnIdx(t, a.Column)
           col == t.Columns[i]
           inline == setGeneratedKind(col.InlineConstraints, a.Arg)
           c == [col EXCEPT !.InlineConstraints = inline]
<1>1. i # 0 /\ x = [t EXCEPT !.Columns = Replaced(t.Columns, i, c)]
  BY DEF setGenerated, UpdateColumn, Replaced
<1>2. i \in 1..Len(t.Columns)
  BY <1>1, FindColumn
<1>3. IsColumnDef(col)
  BY <1>2, TableDefParts DEF IsColumnList
<1> HIDE DEF i, col
<1>4. IsInlineList(inline)
  BY <1>3, ColumnDefParts, GeneratedSet
<1> HIDE DEF inline
<1>5. IsColumnDef(c) /\ c.Name = col.Name
  BY <1>3, <1>4, SetColumnPart
<1> HIDE DEF c
<1> QED
  BY <1>1, <1>2, <1>5, ColumnUpdated DEF col

(* DROP IDENTITY keeps the table.                                          *)
LEMMA DropIdentityKeeps ==
  ASSUME NEW t, IsTableDef(t), NEW a, NEW x \in dropIdentity(t, a)
  PROVE  Keeps(t, x, TRUE)
<1>1. CASE HasGenerated(t, a.Column)
  <2>1. findColumnIdx(t, a.Column) # 0
    BY <1>1 DEF HasGenerated
  <2>2. x = RemoveInline(t, findColumnIdx(t, a.Column), "GENERATED")
    BY <1>1 DEF dropIdentity
  <2>3. findColumnIdx(t, a.Column) \in 1..Len(t.Columns)
    BY <2>1, FindColumn
  <2> QED
    BY <2>2, <2>3, RemoveInlineKeeps
<1>2. CASE ~ HasGenerated(t, a.Column)
  BY <1>2 DEF dropIdentity, Keeps
<1> QED
  BY <1>1, <1>2

(* The actions that assign one field of a column keep the table.           *)
LEMMA SetFieldKeeps ==
  ASSUME NEW t, IsTableDef(t), NEW a, NEW x \in setField(t, a),
         a.Kind \in {"TYPE", "SET DEFAULT", "DROP DEFAULT", "SET NOT NULL", "DROP NOT NULL"}
  PROVE  Keeps(t, x, TRUE)
<1> DEFINE i == findColumnIdx(t, a.Column)
           col == t.Columns[i]
           c == CASE a.Kind = "TYPE"          -> [col EXCEPT !.DataType = a.Arg]
                  [] a.Kind = "SET DEFAULT"   -> [col EXCEPT !.Default = a.Arg]
                  [] a.Kind = "DROP DEFAULT"  -> [col EXCEPT !.Default = NoValue]
                  [] a.Kind = "SET NOT NULL"  -> [col EXCEPT !.NotNull = TRUE]
                  [] a.Kind = "DROP NOT NULL" -> [col EXCEPT !.NotNull = FALSE]
<1>1. i # 0 /\ x = [t EXCEPT !.Columns = Replaced(t.Columns, i, c)]
  BY DEF setField, UpdateColumn, Replaced
<1>2. i \in 1..Len(t.Columns)
  BY <1>1, FindColumn
<1>3. IsColumnDef(col)
  BY <1>2, TableDefParts DEF IsColumnList
<1> HIDE DEF i, col
<1>4. IsColumnDef(c) /\ c.Name = col.Name
  <2>1. CASE a.Kind = "TYPE"
    <3>1. c = [col EXCEPT !.DataType = a.Arg]
      BY <2>1
    <3> QED
      BY <1>3, <3>1, SetColumnPart
  <2>2. CASE a.Kind = "SET DEFAULT"
    <3>1. c = [col EXCEPT !.Default = a.Arg]
      BY <2>2
    <3> QED
      BY <1>3, <3>1, SetColumnPart
  <2>3. CASE a.Kind = "DROP DEFAULT"
    <3>1. c = [col EXCEPT !.Default = NoValue]
      BY <2>3
    <3> QED
      BY <1>3, <3>1, SetColumnPart
  <2>4. CASE a.Kind = "SET NOT NULL"
    <3>1. c = [col EXCEPT !.NotNull = TRUE]
      BY <2>4
    <3> QED
      BY <1>3, <3>1, SetColumnPart
  <2>5. CASE a.Kind = "DROP NOT NULL"
    <3>1. c = [col EXCEPT !.NotNull = FALSE]
      BY <2>5
    <3> QED
      BY <1>3, <3>1, SetColumnPart
  <2> QED
    BY <2>1, <2>2, <2>3, <2>4, <2>5
<1> HIDE DEF c
<1> QED
  BY <1>1, <1>2, <1>4, ColumnUpdated DEF col

(* Every action.                                                           *)
LEMMA ApplyActionKeeps ==
  ASSUME NEW t, IsTableDef(t), NEW a, IsAction(a), NEW x \in applyAction(t, a)
  PROVE  Keeps(t, x, LegalAction(t, a))
<1>1. CASE a.Kind = "ADD COLUMN"
  BY <1>1, AddColumnKeeps DEF applyAction, IsAction, Keeps
<1>2. CASE a.Kind = "DROP COLUMN"
  BY <1>2, DropColumnKeeps DEF applyAction, Keeps
<1>3. CASE a.Kind = "RENAME COLUMN"
  BY <1>3, RenameColumnKeeps DEF applyAction, Keeps, LegalAction
<1>4. CASE a.Kind = "ADD CONSTRAINT"
  BY <1>4, AddConstraintKeeps DEF applyAction, IsAction, Keeps
<1>5. CASE a.Kind = "DROP CONSTRAINT"
  BY <1>5, DropConstraintKeeps DEF applyAction, Keeps
<1>6. CASE a.Kind = "RENAME CONSTRAINT"
  BY <1>6, RenameConstraintKeeps DEF applyAction, Keeps, LegalAction
<1>7. CASE a.Kind \in {"ADD GENERATED", "SET STORAGE", "SET COMPRESSION"}
  BY <1>7, SetInlineKeeps DEF applyAction, Keeps
<1>8. CASE a.Kind = "SET GENERATED"
  BY <1>8, SetGeneratedKeeps DEF applyAction, Keeps
<1>9. CASE a.Kind = "DROP IDENTITY"
  BY <1>9, DropIdentityKeeps DEF applyAction, Keeps
<1>10. CASE a.Kind = "SKIP"
  BY <1>10 DEF applyAction, Keeps
<1>11. CASE a.Kind \in {"TYPE", "SET DEFAULT", "DROP DEFAULT", "SET NOT NULL",
                        "DROP NOT NULL"}
  <2>1. x \in setField(t, a)
    BY <1>11 DEF applyAction
  <2> QED
    BY <1>11, <2>1, SetFieldKeeps DEF Keeps
<1> QED
  BY <1>1, <1>2, <1>3, <1>4, <1>5, <1>6, <1>7, <1>8, <1>9, <1>10, <1>11
  DEF IsAction, ActionKind

-----------------------------------------------------------------------------
(* What RENAME TO does to a chunk, a column and a constraint: they keep    *)
(* their shape, and the last two their names.                              *)
LEMMA ReferencesReplaced ==
  ASSUME NEW t, IsTableDef(t), NEW new, NEW x, x = ReplaceSelfReference(t, new)
  PROVE  Keeps(t, x, TRUE)
<1> DEFINE renamed(ref) == ReplaceReference(ref, t.Name, new)
           inConstraint(con) == [con EXCEPT !.Definition.RefTable = renamed(@)]
           inClause(cl) == IF cl.Kind = "REFERENCES"
                             THEN clause("REFERENCES", renamed(cl.Arg)) ELSE cl
           inChunk(chunk) == IF HasPrefix(chunk, "REFERENCES")
                               THEN [k \in DOMAIN chunk |-> inClause(chunk[k])]
                               ELSE chunk
           inList(list) == [j \in DOMAIN list |-> inChunk(list[j])]
           inColumn(col) == [col EXCEPT !.InlineConstraints = inList(@)]
           cons == [i \in DOMAIN t.Constraints |-> inConstraint(t.Constraints[i])]
           cols == [i \in DOMAIN t.Columns |-> inColumn(t.Columns[i])]
<1>1. IsTableRecord(t) /\ IsColumnList(t.Columns) /\ IsConstraintList(t.Constraints)
  BY TableDefParts
<1>2. x = [[t EXCEPT !.Constraints = cons] EXCEPT !.Columns = cols]
  BY DEF ReplaceSelfReference
<1>3. x = WithParts(t, cols, cons)
  <2> HIDE DEF cols, cons
  <2> DEFINE u == WithParts(t, t.Columns, cons)
  <2>1. [t EXCEPT !.Constraints = cons] = u
    BY <1>1, SetPart
  <2>2. IsTableRecord(u) /\ u.Name = t.Name /\ u.Constraints = cons
    BY DEF IsTableRecord, WithParts
  <2> HIDE DEF u
  <2>3. [u EXCEPT !.Columns = cols] = WithParts(u, cols, u.Constraints)
    BY <2>2, SetPart
  <2> QED
    BY <1>2, <2>1, <2>2, <2>3 DEF WithParts
<1>4. IsConstraintList(cons) /\ (NoTwoConstraints(t.Constraints) => NoTwoConstraints(cons))
  <2>1. DOMAIN t.Constraints = 1..Len(t.Constraints)
    BY <1>1, SliceWithin DEF IsConstraintList
  <2>2. ASSUME NEW j \in 1..Len(t.Constraints)
        PROVE  IsTableConstraint(cons[j]) /\ cons[j].Name = t.Constraints[j].Name
    <3> DEFINE con == t.Constraints[j]
               def == [con.Definition EXCEPT !.RefTable = renamed(@)]
    <3>1. cons[j] = [con EXCEPT !.Definition = def] /\ IsTableConstraint(con)
      BY <1>1, <2>1 DEF IsConstraintList
    <3> HIDE DEF con, def
    <3>2. /\ IsTableConstraint([con EXCEPT !.Definition = def])
          /\ [con EXCEPT !.Definition = def].Name = con.Name
      BY <3>1, SetConstraintPart
    <3> QED
      BY <3>1, <3>2 DEF con
  <2>3. DOMAIN cons = DOMAIN t.Constraints /\ cons = [j \in DOMAIN cons |-> cons[j]]
    OBVIOUS
  <2> HIDE DEF cons
  <2> QED
    BY <1>1, <2>2, <2>3, ConstraintsMapped
<1>5. ASSUME NEW ch, IsSlice(ch), ch # <<>>
      PROVE  IsSlice(inChunk(ch)) /\ inChunk(ch) # <<>>
  <2> DEFINE mapped == [k \in DOMAIN ch |-> inClause(ch[k])]
  <2>1. DOMAIN mapped = DOMAIN ch /\ mapped = [k \in DOMAIN mapped |-> mapped[k]]
    OBVIOUS
  <2>2. inChunk(ch) = mapped \/ inChunk(ch) = ch
    OBVIOUS
  <2> HIDE DEF mapped, inChunk
  <2> QED
    BY <1>5, <2>1, <2>2, ChunkMapped
<1>6. ASSUME NEW list, IsInlineList(list) PROVE IsInlineList(inList(list))
  <2>1. \A j \in DOMAIN list : IsSlice(list[j]) /\ list[j] # <<>>
    BY <1>6, SliceWithin DEF IsInlineList
  <2> HIDE DEF inChunk
  <2> DEFINE mapped == inList(list)
  <2>2. /\ DOMAIN mapped = DOMAIN list /\ mapped = [j \in DOMAIN mapped |-> mapped[j]]
        /\ \A j \in DOMAIN list : IsSlice(mapped[j]) /\ mapped[j] # <<>>
    BY <1>5, <2>1
  <2> HIDE DEF mapped
  <2> QED
    BY <1>6, <2>2, InlineMapped DEF mapped
<1>7. IsColumnList(cols) /\ (NoTwoColumns(t.Columns) => NoTwoColumns(cols))
  <2>1. DOMAIN t.Columns = 1..Len(t.Columns)
    BY <1>1, SliceWithin DEF IsColumnList
  <2> HIDE DEF inList
  <2>2. ASSUME NEW j \in 1..Len(t.Columns)
        PROVE  IsColumnDef(cols[j]) /\ cols[j].Name = t.Columns[j].Name
    <3> DEFINE col == t.Columns[j]
               list == inList(col.InlineConstraints)
    <3>1. cols[j] = [col EXCEPT !.InlineConstraints = list] /\ IsColumnDef(col)
      BY <1>1, <2>1 DEF IsColumnList
    <3> HIDE DEF col
    <3>2. IsInlineList(list)
      BY <1>6, <3>1, ColumnDefParts
    <3> HIDE DEF list
    <3>3. /\ IsColumnDef([col EXCEPT !.InlineConstraints = list])
          /\ [col EXCEPT !.InlineConstraints = list].Name = col.Name
      BY <3>1, <3>2, SetColumnPart
    <3> QED
      BY <3>1, <3>3 DEF col
  <2>3. DOMAIN cols = DOMAIN t.Columns /\ cols = [j \in DOMAIN cols |-> cols[j]]
    OBVIOUS
  <2> HIDE DEF cols
  <2> QED
    BY <1>1, <2>2, <2>3, ColumnsMapped
<1> HIDE DEF cols, cons
<1> QED
  BY <1>1, <1>3, <1>4, <1>7, PartsChanged, DistinctByPosition DEF Keeps

(* The table gets its new name, its parts stay.                            *)
LEMMA RenamedTable ==
  ASSUME NEW t, IsTableDef(t), NEW name \in Token, NEW x,
         x = [ReplaceSelfReference(t, name) EXCEPT !.Name = name]
  PROVE  /\ IsTableDef(x) /\ x.Name = name
         /\ DistinctParts(t) => DistinctParts(x)
<1> DEFINE r == ReplaceSelfReference(t, name)
<1>1. IsTableDef(r) /\ (DistinctParts(t) => DistinctParts(r))
  BY ReferencesReplaced DEF Keeps
<1> HIDE DEF r
<1>2. /\ IsTableRecord(r)
      /\ IsColumnList(r.Columns) /\ IsConstraintList(r.Constraints)
  BY <1>1, TableDefParts
<1>3. x = [Name |-> name, Columns |-> r.Columns, Constraints |-> r.Constraints]
  BY <1>2, SetPart DEF r
<1>4. /\ IsTableRecord(x)
      /\ x.Name = name /\ x.Columns = r.Columns /\ x.Constraints = r.Constraints
  <2> DEFINE y == [Name |-> name, Columns |-> r.Columns, Constraints |-> r.Constraints]
  <2>1. /\ IsTableRecord(y)
        /\ y.Name = name /\ y.Columns = r.Columns /\ y.Constraints = r.Constraints
    BY DEF IsTableRecord
  <2>2. x = y
    BY <1>3
  <2> HIDE DEF y
  <2> QED
    BY <2>1, <2>2
<1>5. IsTableDef(x)
  BY <1>2, <1>4, TableDefParts
<1> QED
  BY <1>1, <1>4, <1>5, DistinctByPosition
=============================================================================
