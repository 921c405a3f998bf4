-------------------------- MODULE MCTableRegistry --------------------------
(* Tables, actions and names for the runs of TableRegistry.                *)
EXTENDS TableRegistry

CONSTANTS a, b, c, d, n, m, x, y

ta == plain(a)
tb == plain(b)

column(name, inline) ==
  [Name |-> name, DataType |-> "int", NotNull |-> FALSE, Default |-> NoValue,
   InlineConstraints |-> inline]

table(name, columns, constraints) ==
  [Name |-> name, Columns |-> columns, Constraints |-> constraints]

definition(kind, cols) ==
  [Kind |-> kind, Cols |-> cols, RefTable |-> NoValue, RefCols |-> {}]

foreignKey(cols, ref) ==
  [Kind |-> "FOREIGN KEY", Cols |-> cols, RefTable |-> ref, RefCols |-> {plain(c)}]

constraint(name, def) == [Name |-> name, Definition |-> def]

-----------------------------------------------------------------------------
(* Three tables, each with a foreign key to itself, once as a constraint of  *)
(* the table and once inline; two indexes, a partition, a TRUNCATE.        *)
MCToken == {ta, tb, plain(d)}

selfTable(t, inline) ==
  table(t, <<column(plain(c), inline)>>,
        <<constraint(NoName, foreignKey({plain(c)}, t))>>)

MCSelfTables == {selfTable(t, <<<<clause("REFERENCES", t)>>>>) : t \in MCToken}

MCThreeLists == {<<ta>>, <<tb>>, <<ta, plain(d)>>}

MCIndexToken == {plain(x), plain(y)}

(* Indexes that name no column. *)
MCNoColumns == {{}}

-----------------------------------------------------------------------------
(* One table with two columns; what ALTER TABLE can do to it.              *)
MCOneToken == {ta}

MCColumnTables ==
  {table(ta, <<column(plain(c), inline)>>, <<>>) :
     inline \in {<<>>,
                 <<<<clause("UNIQUE", NoValue)>>>>,
                 <<<<clause("GENERATED", "ALWAYS")>>>>}}

mcColumns == {plain(c), plain(d)}

MCRenames ==
  {[Kind |-> "RENAME COLUMN", Column |-> o, NewName |-> w] :
     o \in mcColumns, w \in mcColumns}

MCConstraintActions ==
  {[Kind |-> "ADD CONSTRAINT", Constraint |-> constraint(k, definition("UNIQUE", {w}))] :
     k \in {plain(n), NoName}, w \in mcColumns}
  \cup {[Kind |-> "DROP CONSTRAINT", Name |-> k, IfExists |-> i] :
          k \in {plain(n), plain(m), autoName(<<a, c, "key">>), autoName(<<a, "pkey">>)},
          i \in BOOLEAN}
  \cup {[Kind |-> "RENAME CONSTRAINT", Name |-> o, NewName |-> w] :
          o \in {plain(n), plain(m)}, w \in {plain(n), plain(m)}}

MCColumnActions ==
  {[Kind |-> "ADD COLUMN", ColDef |-> column(plain(d), <<>>)]}
  \cup {[Kind |-> k, Column |-> w, Arg |-> "bigint"] :
          k \in {"TYPE", "SET NOT NULL", "DROP NOT NULL"}, w \in {plain(c)}}
  \cup {[Kind |-> k, Column |-> plain(d), Arg |-> "zero"] :
          k \in {"SET DEFAULT", "DROP DEFAULT"}}
  \cup {[Kind |-> k, Column |-> plain(c), Arg |-> g] :
          k \in {"ADD GENERATED", "SET GENERATED"}, g \in Identity}
  \cup {[Kind |-> "DROP IDENTITY", Column |-> plain(c), IfExists |-> i] :
          i \in BOOLEAN}
  \cup {[Kind |-> k, Column |-> plain(c), Arg |-> "x"] :
          k \in {"SET STORAGE", "SET COMPRESSION"}}
  \cup {[Kind |-> "SKIP"]}

MCDropColumns ==
  {[Kind |-> "DROP COLUMN", Column |-> w] : w \in mcColumns}

(* One action, or two of them in one statement, which can be refused half  *)
(* way.                                                                    *)
MCActionLists ==
  {<<act>> : act \in MCRenames \cup MCConstraintActions \cup MCColumnActions
                      \cup MCDropColumns}
  \cup {<<[Kind |-> "ADD COLUMN", ColDef |-> column(plain(d), <<>>)],
          [Kind |-> "SET NOT NULL", Column |-> plain(d)]>>,
        <<[Kind |-> "RENAME COLUMN", Column |-> plain(c), NewName |-> plain(d)],
          [Kind |-> "ADD COLUMN", ColDef |-> column(plain(d), <<>>)]>>}
=============================================================================
