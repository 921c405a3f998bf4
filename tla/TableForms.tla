----------------------------- MODULE TableForms -----------------------------
(***************************************************************************)
(* CREATE TABLE and ALTER TABLE as PostgreSQL's grammar writes them, with  *)
(* what they mean; and what it is to understand a statement.               *)
(***************************************************************************)
EXTENDS SqlForms, Parser

CONSTANTS
  Gaps,           \* what "~" stands for
  LineGaps,       \* what "|" stands for
  Forms,          \* the statements, with what they mean
  MaxClauses      \* how many clauses a column has at most

VARIABLE meant    \* what the text means by PostgreSQL's grammar

-----------------------------------------------------------------------------
(* A clause of a column: what it is about, its words, and its argument     *)
ColumnClause(about, words, argument) ==
  [about |-> about, text |-> words \o argument, argument |-> argument]

ReferencesOnDelete(action) ==
  Joined(<<<<"REFERENCES">>, <<"w", "(", "a", ")">>, Spaced(<<"ON", "DELETE">> \o action)>>,
         <<"sp">>)

Inline ==
  {Spaced(<<"PRIMARY", "KEY">>), <<"UNIQUE">>,
   <<"CHECK", "sp", "(", "a", ",", "b", ")">>,
   <<"REFERENCES", "sp", "w", "(", "a", ")">>,
   ReferencesOnDelete(<<"CASCADE">>)}

Generated == Spaced(<<"GENERATED", "BY", "DEFAULT", "AS", "IDENTITY">>)

(* ... with these inline constraints                                       *)
ColumnClauses(inline) ==
  {ColumnClause("null", NotNull, <<>>), ColumnClause("null", <<"NULL">>, <<>>),
   ColumnClause("collation", <<"COLLATE", "sp">>, <<"de">>),
   ColumnClause("value", Generated, <<>>)}
  \cup {ColumnClause("value", <<"DEFAULT", "sp">>, d) :
          d \in {<<"1">>, <<"'", "x", ",", "sp", "y", "'">>}}
  \cup {ColumnClause(Head(words), words, <<>>) : words \in inline}

(* The clauses come in any order, at most one about the same.              *)
ClauseLists(inline) ==
  {cs \in UNION {[1..n -> ColumnClauses(inline)] : n \in 0..MaxClauses} :
     \A j, k \in DOMAIN cs : j # k => cs[j].about # cs[k].about}

ColumnForm(name, type, cs) ==
  LET Texts(test(_)) == LET of == SelectSeq(cs, test) IN [k \in DOMAIN of |-> of[k].text]
      collations == SelectSeq(cs, LAMBDA c : c.about = "collation")
      isDefault(c) == c.about = "value" /\ c.argument # <<>>
  IN  Form(Joined(<<name, type>> \o [k \in DOMAIN cs |-> cs[k].text], <<"sp">>),
           [Name |-> name, DataType |-> type,
            Collation |-> FlattenSeq([k \in DOMAIN collations |-> collations[k].argument]),
            NotNull |-> \E k \in DOMAIN cs : cs[k].text = NotNull,
            Default |-> {cs[k].argument : k \in {j \in DOMAIN cs : isDefault(cs[j])}},
            InlineConstraints |->
              Joined(Texts(LAMBDA c : c.about \notin {"null", "collation"} /\ ~ isDefault(c)),
                     <<"sp">>)])

PlainColumn == ColumnForm(<<"a">>, <<"int">>, <<>>)
WideColumn == ColumnForm(<<"b">>, <<"numeric", "(", "1", ",", "1", ")">>, <<>>)

Keys ==
  {<<"PRIMARY", "sp", "KEY", "sp", "(", "a", ",", "b", ")">>,
   <<"UNIQUE", "sp", "(", "a", ")">>, <<"CHECK", "sp", "(", "a", ")">>,
   <<"FOREIGN", "sp", "KEY", "sp", "(", "a", ")", "sp", "REFERENCES", "sp", "w">>}

ConstraintForms ==
  {Form(def, TableConstraint(<<>>, def)) : def \in Keys}
  \cup {Form(Loose(<<<<"CONSTRAINT">>, <<"v">>, def>>), TableConstraint(<<"v">>, def)) :
          def \in Keys}

Table(head, guarded, name, paren, columns, constraints, by) ==
  LET items == columns \o constraints
      means(forms) == [k \in DOMAIN forms |-> forms[k].means] IN
  Form(Loose(<<Spaced(<<"CREATE">> \o head \o <<"TABLE">>), UnlessThere(guarded),
               name \o paren \o <<"(">>
                 \o Joined([k \in DOMAIN items |-> items[k].text], <<",", "~">>) \o <<")">>,
               IF by = <<>> THEN <<>> ELSE PartitionBy \o <<"~">> \o by>>),
       Guard([Type |-> "CreateTable", TableName |-> name,
              Temporary |-> Range(head) \cap {"TEMP", "TEMPORARY"} # {},
              Unlogged |-> head = <<"UNLOGGED">>,
              Columns |-> means(columns), Constraints |-> means(constraints),
              PartitionBy |-> by], guarded))

TablesOfColumn(inline) ==
  {Table(<<>>, FALSE, <<"v">>, <<"~">>, <<ColumnForm(<<"c">>, <<"int">>, cs)>>, <<>>, <<>>) :
     cs \in ClauseLists(inline)}

CreateTables(guarded) ==
  {Table(head, guarded, name, paren, <<PlainColumn, WideColumn>>, <<constraint>>, by) :
          head \in {<<>>, <<"TEMP">>, <<"UNLOGGED">>, <<"LOCAL", "TEMPORARY">>},
          name \in Spelling, paren \in {<<>>, <<"~">>}, constraint \in ConstraintForms,
          by \in {<<>>, <<"RANGE", "sp", "(", "a", ")">>}}
  \cup {Form(Loose(<<Spaced(<<"CREATE", "TABLE">>), UnlessThere(guarded), name,
                     LooseWords(<<"PARTITION", "OF", "w", "DEFAULT">>)>>),
             Guard(CreateObject("PARTITION", <<"v">>, FALSE, <<>>), guarded)) :
          name \in Spelling}

-----------------------------------------------------------------------------
OfColumn(words, kind, more) ==
  Form(Spaced(<<"ALTER", "COLUMN", "a">> \o words), Act(kind, [Column |-> <<"a">>] @@ more))

ColumnActions(guarded) ==
  LET words(clause) == IF guarded THEN clause ELSE <<>> IN
  {Form(Spaced(<<"ADD", "COLUMN">> \o words(<<"IF", "NOT", "EXISTS">>))
          \o <<"sp">> \o WideColumn.text,
        Guard(Act("AddColumn", [ColDef |-> WideColumn.means]), guarded)),
   Form(Spaced(<<"DROP", "COLUMN">> \o words(<<"IF", "EXISTS">>) \o <<"a">>),
        Guard(Act("DropColumn", [Column |-> <<"a">>]), guarded))}

TableActions ==
  ColumnActions(FALSE)
  \cup {OfColumn(data \o <<"TYPE", "int">> \o using, "AlterColumnType", [DataType |-> <<"int">>]) :
          data \in {<<>>, <<"SET", "DATA">>}, using \in {<<>>, <<"USING", "b">>}}
  \cup {OfColumn(<<"SET", "DEFAULT", "1">>, "SetDefault", [Default |-> <<"1">>]),
        OfColumn(<<"DROP", "DEFAULT">>, "DropDefault", <<>>),
        OfColumn(<<"SET", "NOT", "NULL">>, "SetNotNull", <<>>),
        OfColumn(<<"DROP", "NOT", "NULL">>, "DropNotNull", <<>>),
        OfColumn(<<"ADD">> \o <<"GENERATED", "ALWAYS", "AS", "IDENTITY">>, "AddGenerated",
                 [GeneratedClause |-> Spaced(<<"GENERATED", "ALWAYS", "AS", "IDENTITY">>)]),
        OfColumn(<<"SET", "GENERATED", "ALWAYS">>, "SetGenerated", [GeneratedKind |-> "ALWAYS"]),
        OfColumn(<<"SET", "GENERATED", "BY", "DEFAULT">>, "SetGenerated",
                 [GeneratedKind |-> "BY DEFAULT"]),
        OfColumn(<<"DROP", "IDENTITY">>, "DropIdentity", [IfExists |-> FALSE]),
        OfColumn(<<"DROP", "IDENTITY", "IF", "EXISTS">>, "DropIdentity", [IfExists |-> TRUE]),
        OfColumn(<<"SET", "STORAGE", "x">>, "SetStorage", [Type |-> <<"x">>]),
        OfColumn(<<"SET", "COMPRESSION", "x">>, "SetCompression", [Method |-> <<"x">>]),
        Form(Spaced(<<"RENAME", "TO", "w">>), Act("RenameTo", [NewName |-> Other])),
        Form(Spaced(<<"OWNER", "TO", "w">>), [Kind |-> "Skip"])}
  \cup {Form(Spaced(<<"RENAME", what[1], "a", "TO", "b">>),
             Act(what[2], [OldName |-> <<"a">>, NewName |-> <<"b">>])) :
          what \in {<<"CONSTRAINT", "RenameConstraint">>, <<"COLUMN", "RenameColumn">>}}
  \cup {Form(<<"ADD", "sp">> \o c.text, Act("AddConstraint", c.means)) :
          c \in {f \in ConstraintForms : f.means.Name = <<>>}}
  \cup {Form(<<"ADD", "sp", "CONSTRAINT", "sp", "v", "sp">> \o def,
             Act("AddConstraint", TableConstraint(<<"v">>, def))) : def \in Keys}
  \cup {Form(Spaced(<<"DROP", "CONSTRAINT">> \o exists \o <<"v">>),
             Act("DropConstraint", [Name |-> <<"v">>, IfExists |-> exists # <<>>])) :
          exists \in {<<>>, <<"IF", "EXISTS">>}}

AlterTable(only, name, actions) ==
  Form(Loose(<<Spaced(<<"ALTER", "TABLE">>), only, name,
               Joined([k \in DOMAIN actions |-> actions[k].text], <<",", "|">>)>>),
       [Type |-> "AlterTable", TableName |-> name,
        Actions |-> [k \in DOMAIN actions |-> actions[k].means]])

AlterTables(actions) ==
  {AlterTable(only, name, <<action>>) :
     only \in Either(<<"ONLY">>), name \in Spelling, action \in actions}
  \cup {AlterTable(<<>>, <<"v">>, <<one, two>>) : one, two \in actions}

(* What passes through: statements of which no pattern is about the words  *)
PassThrough ==
  {Form(words, [Type |-> "Unknown", Raw |-> words]) :
     words \in {Spaced(<<"GRANT", "SELECT", "ON", "w", "TO", "v">>),
                Spaced(<<"INSERT", "INTO", "w", "DEFAULT", "VALUES">>)}}

-----------------------------------------------------------------------------
LaidOut(t, gap, lineGap) ==
  FlattenSeq([k \in DOMAIN t |->
    CASE t[k] = "~" -> gap
      [] t[k] = "|" -> lineGap
      [] OTHER -> <<t[k]>>])

(* An object is kept as it is written.                                     *)
Meaning(form, t) ==
  IF "SQL" \in DOMAIN form.means THEN [form.means EXCEPT !.SQL = t] ELSE form.means

FormsInit ==
  /\ \E form \in Forms, gap \in Gaps, lineGap \in LineGaps :
       /\ text = LaidOut(form.text, gap, lineGap)
       /\ meant = Meaning(form, text)
  /\ stmt = Unparsed
  /\ first = Unparsed

FormsNext == (Parse \/ Emit) /\ UNCHANGED meant

FormsSpec == FormsInit /\ [][FormsNext]_<<parserVars, meant>>

-----------------------------------------------------------------------------
(* PostgreSQL does not mind how many blanks there are between the clauses  *)
(* of a column, nor the order of the options of a sequence.                *)
PlainText(col) == [col EXCEPT !.DataType = squeezed(@), !.InlineConstraints = squeezed(@)]

Plain(s) ==
  CASE s.Type = "CreateTable" ->
         [s EXCEPT !.Columns = [k \in DOMAIN @ |-> PlainText(@[k])]]
    [] s.Type = "AlterSequenceOpts" -> [s EXCEPT !.Opts = Range(@)]
    [] OTHER -> s

WithoutGuards(m) ==
  IF "Actions" \in DOMAIN m
    THEN [m EXCEPT !.Actions = [k \in DOMAIN @ |-> Unguarded(@[k])]]
    ELSE Unguarded(m)

(* Parse takes every statement of Forms for what it means: no clause is    *)
(* lost, taken for another or left in the text of one, in whatever order   *)
(* the clauses stand, and no word of an existence clause is taken for a    *)
(* name.  That clause itself is another matter, see ExistenceClausesKept.  *)
StatementsUnderstood ==
  stmt # Unparsed /\ first = Unparsed => Plain(stmt) = Plain(WithoutGuards(meant))

(* Parse keeps the IF NOT EXISTS of a CREATE TABLE, which the coverage     *)
(* document lists as supported.                                            *)
ExistenceClausesKept ==
  stmt # Unparsed /\ first = Unparsed => Plain(stmt) = Plain(meant)

(* What the emitter writes from the parts of a definition means the same   *)
(* when it is merged again.                                                *)
OutputUnderstood ==
  stmt # Unparsed /\ first # Unparsed => Plain(stmt) = Plain(first)
=============================================================================
