----------------------------- MODULE ColumnText -----------------------------
(***************************************************************************)
(* What parser.go makes of the body of a CREATE TABLE: parentheses and     *)
(* commas, column definitions and table constraints.  The clauses of a     *)
(* column are looked for by their words, wherever they stand.              *)
(***************************************************************************)
EXTENDS Patterns

-----------------------------------------------------------------------------
Count(t, x, from, to) == Cardinality({p \in from..to : t[p] = x})

(* The positions from `from' on outside of '...'; a doubled quote within a *)
(* string ends it and begins it again.                                     *)
Unquoted(t, from) == {p \in from..Len(t) : Count(t, "'", from, p) % 2 = 0}

Depth(t, from, p) ==
  LET seen == {q \in Unquoted(t, from) : q <= p} IN
  Cardinality({q \in seen : t[q] = "("}) - Cardinality({q \in seen : t[q] = ")"})

(* parenClose, extractParenBody: where the parenthesis at `open' is closed *)
parenCloses(t, open) ==
  {p \in Unquoted(t, open) : t[p] = ")" /\ Depth(t, open, p) = 0}

Between(t, a, b) == TrimSpace(SubSeq(t, a + 1, b - 1))

(* strings.Split: the parts between these positions, each trimmed          *)
PartsAt(t, cuts) ==
  LET at == <<0>> \o SetToSortSeq(cuts, <) \o <<Len(t) + 1>> IN
  [k \in 1..(Len(at) - 1) |-> Between(t, at[k], at[k + 1])]

Commas(t) == {p \in DOMAIN t : t[p] = ","}

NonEmpty(parts) == SelectSeq(parts, LAMBDA part : part # <<>>)

(* Mistake: commas within parentheses separate too.                        *)
splitAtCommas(t) ==
  LET parts == PartsAt(t, Commas(t) \cap Unquoted(t, 1)) IN
  IF Last(parts) = <<>> THEN Front(parts) ELSE parts

(* A last part that is empty is dropped, the others are not.               *)
splitAtDepthZeroCommas(t) ==
  LET parts == PartsAt(t, {p \in Commas(t) \cap Unquoted(t, 1) : Depth(t, 1, p) = 0}) IN
  IF Last(parts) = <<>> THEN Front(parts) ELSE parts

-----------------------------------------------------------------------------
Spaced(words) == FlattenSeq([k \in DOMAIN words |->
                   IF k = 1 THEN <<words[k]>> ELSE <<"sp", words[k]>>])

NotNull == Spaced(<<"NOT", "NULL">>)
Default == <<"sp", "DEFAULT", "sp">>

TypeEnd == {Spaced(<<"PRIMARY", "KEY">>), <<"UNIQUE">>} \cup
           {<<w, "sp">> : w \in {"REFERENCES", "CHECK", "GENERATED",
                                 "COMPRESSION", "STORAGE"}}

(* Neither COMPRESSION nor STORAGE ends a default, but NULL does.          *)
DefaultEnd ==
  (TypeEnd \ {<<"COMPRESSION", "sp">>, <<"STORAGE", "sp">>})
    \cup {NotNull, <<"NULL">>}

(* The text up to the first of these, and from there on                    *)
CutAt(t, stops) ==
  LET at == Min({Len(t) + 1} \cup UNION {Places(t, s, 1) : s \in stops}) IN
  <<TrimSpace(SubSeq(t, 1, at - 1)), TrimSpace(SubSeq(t, at, Len(t)))>>

splitTypeAndConstraints(t) == CutAt(t, TypeEnd)
extractDefaultValue(t) == CutAt(t, DefaultEnd)

Holds(t, words) == Places(t, words, 1) # {}

(* replaceCI: the first occurrence goes                                    *)
Cut(t, words) ==
  LET at == Places(t, words, 1) IN
  IF at = {} THEN t
  ELSE SubSeq(t, 1, Min(at) - 1) \o SubSeq(t, Min(at) + Len(words), Len(t))

(* A name between quotes loses them.                                       *)
extractIdent(t) ==
  IF Head(t) = "quote"
    THEN LET end == SkipTo(t, 2, {"quote"}) IN
         <<SubSeq(t, 2, end - 1), TrimSpace(SubSeq(t, end + 1, Len(t)))>>
    ELSE LET end == SkipTo(t, 1, Blank) IN
         <<SubSeq(t, 1, end - 1), TrimSpace(SubSeq(t, end, Len(t)))>>

reCollate == <<Gap, Words(<<"COLLATE">>), Name>>

(* What a clause is, and the text without it                               *)
takeCollation(t) ==
  LET m == Leftmost(t, reCollate) IN
  IF Occurs(t, reCollate)
    THEN <<PartOf(t, m, 3), SubSeq(t, 1, m[1] - 1) \o SubSeq(t, m[4], Len(t))>>
    ELSE <<<<>>, t>>

(* A NULL that says nothing goes as well.                                  *)
takeNotNull(t) ==
  <<Holds(t, NotNull),
    TrimSpace(Cut(t, IF Holds(t, NotNull) THEN NotNull ELSE <<"sp", "NULL">>))>>

(* A set of at most one default: that of GENERATED BY DEFAULT is none.     *)
takeDefault(t) ==
  LET at == Places(t, Default, 1)
      idx == Min(at)
      value == extractDefaultValue(SubSeq(t, idx + 3, Len(t)))
  IN  IF at = {} \/ Is(t, idx - 1, {"BY"})
        THEN <<{}, t>>
        ELSE <<{value[1]},
               TrimSpace(TrimSpace(SubSeq(t, 1, idx - 1)) \o <<"sp">> \o value[2])>>

parseColumnDef(t) ==
  LET named     == extractIdent(TrimSpace(t))
      collated  == takeCollation(named[2])
      nullable  == takeNotNull(collated[2])
      defaulted == takeDefault(nullable[2])
      typed     == splitTypeAndConstraints(defaulted[2])
  IN  [Name |-> named[1], DataType |-> typed[1], Collation |-> collated[1],
       NotNull |-> nullable[1], Default |-> defaulted[1],
       InlineConstraints |-> typed[2]]

-----------------------------------------------------------------------------
reConstraintLine == <<Words(<<"CONSTRAINT">>), Name, Gap, Line>>

(* The words are looked for at the beginning, whatever follows them.       *)
reInlineKeywords(t) ==
  \/ \E word \in {"UNIQUE", "CHECK", "EXCLUDE", "LIKE"} : BeginsWith(Head(t), word)
  \/ \E word \in {"PRIMARY", "FOREIGN"} :
       Matches(t, <<Words(<<word>>), Mark("KEY")>>)

TableConstraint(name, def) == [Name |-> name, Definition |-> def]

(* The constraints in a part of the body: none if it is a column.          *)
constraintIn(t) ==
  CASE Matches(t, reConstraintLine) ->
         <<TableConstraint(Part(t, reConstraintLine, 2),
                           TrimSpace(Part(t, reConstraintLine, 4)))>>
    [] ~ Matches(t, reConstraintLine) /\ t # <<>> /\ reInlineKeywords(t) ->
         <<TableConstraint(<<>>, t)>>
    [] OTHER -> <<>>

IsColumn(t) == constraintIn(t) = <<>>

(* An empty part is an error.                                              *)
ColumnListOK(parts) == \A k \in DOMAIN parts : parts[k] # <<>>

columnsIn(parts) ==
  LET columns == SelectSeq(parts, IsColumn) IN
  [k \in DOMAIN columns |-> parseColumnDef(columns[k])]

constraintsIn(parts) == FlattenSeq([k \in DOMAIN parts |-> constraintIn(parts[k])])
=============================================================================
