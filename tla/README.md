# pg-ddl-merge in TLA+

`pg-ddl-merge` reads the numbered SQL migrations of a directory, applies every
DDL statement to an in-memory model of the schema, and writes that model out
as one clean SQL file. It is one sequential process: its hard parts are not
threads but long histories of statements that must keep several hand-maintained
slices, maps and texts consistent, statements that fail half way, the order of
the input and of the output, and the claim of `integration/pg_test.go` that the
merged file and the migrations give the same schema.

Paths below are relative to the repository's root.

## 1. Inventory

| component | code | state | operations |
|---|---|---|---|
| command line | `main.go` | – | flags, `merger.Run`, exit code |
| merge run | `merger/merger.go`, `sorter.go` | list of files, position in it, output file | list and sort, read, split, parse, apply, emit, write |
| splitter | `merger/parser/splitter.go` | scanner state | text to statements |
| parser | `merger/parser/parser.go`, `ast.go` | – | statement text to statement, by regular expressions |
| schema | `merger/schema/schema.go`, `model.go` | seven slices, six maps | `Apply`, one handler for each type of statement |
| – sequences | | `Sequences`, `seqIndex` | CREATE, DROP, RENAME TO, options |
| – types | | `Types`, `typeIndex`, part of `Objects` | CREATE, DROP, ADD VALUE, RENAME VALUE, RENAME TO |
| – verbatim objects | | `Objects`, `objectIdx`, `Unknowns` | CREATE [OR REPLACE], DROP, RENAME TO, ALTERs kept with an object, pass-through |
| – tables and indexes | | `Tables`, `tableIndex`, `Indexes`, `indexIndex`, `Truncates`, `truncateIdx` | CREATE, ALTER (one action after the other), DROP of a list, CREATE, RENAME and DROP INDEX, TRUNCATE |
| emitter | `merger/emitter/emitter.go` | – | schema to text, in fixed sections |

How they interact: `Run` calls everything in sequence; the statement and the
schema are the only data handed on. Inside the schema the registries share
`Objects` (composite types and partitions live there) and DROP TABLE and
RENAME TO reach from tables into indexes. The first error ends the program,
nothing after it is applied and no output is written. A merged file may be the
input of a later merge.

What is hard, and what makes each part correct:

* **Slice and map.** Each kind of definition is kept in a slice, which is the
  order of emission, and in a map from normalised names to positions. Every
  handler updates both by hand. *Sound*: an entry leads to an element of that
  key. *Coherent*: every element is found as well.
* **Names.** `normIdent` strips quotes and case, `objectKey` only the case;
  the verbatim text holds the name once more.
* **References by name** from constraints, inline clauses, indexes, partitions
  and TRUNCATEs, which renames and drops must reach.
* **Inline constraints** of a column are one string each, and prefix tests
  decide what is removed.
* **Partial failure**: a read or write error. A DROP TABLE list or an ALTER TABLE refused
  half way leaves the schema half changed, but the first error also ends the program,
  so nobody sees it; the models have it because the code does it.
* **Order**: numbers of files, sections of the output, labels of an ENUM.
* **Merging the output again.**
* **Text.** The splitter has to know a semicolon that ends a statement from one
  in a string, a dollar quote or a comment. The parser finds the parts of a
  statement by patterns, prefixes and searches for keywords, one after the
  other on what the ones before have left.

The hazards, line by line, with the properties that cover them, are in
`PROJECT.json`.

## 2. Modules

| module | what it is |
|---|---|
| `Identifiers` | tokens and the two key functions; a token is its letters, upper case or not, quoted or not |
| `KeyedSlices` | `Put`, `Delete`, `Reindex`: the map updates of the handlers; `Sound`, `Complete`, `Coherent` |
| `Outcome` | the flag `failed`: a statement was refused and the program is over |
| `Catalog` | abstract: a dictionary that defines, redefines, removes, renames or refuses |
| `SequenceRegistry` | sequences |
| `ObjectRegistry` | verbatim objects and pass-through |
| `TypeRegistry` | extends `ObjectRegistry`: ENUM types, composite and range types |
| `TableDef` | one table and the actions of ALTER TABLE on it, as functions |
| `TableRegistry` | extends `ObjectRegistry`, `TableDef`: tables, partitions, indexes, TRUNCATEs |
| `Schema` | all registries together, `Apply` |
| `Emitter` | `Emit` as a sequence of statements, what `Parse` makes of them |
| `Merge` | the run of the program, twice |
| `GoStrings` | the functions of package strings that are used, on sequences |
| `Splitter` | `Split`: the scan, one action for each case of its switch; then the statements are written and scanned again |
| `SqlText` | extends `Splitter`: where PostgreSQL ends a statement, said without a scan |
| `Patterns` | what the regular expressions are built from: words, blanks, lists in parentheses |
| `ColumnText`, `TableText`, `DefinitionText`, `ObjectText` | the parse functions: a column; tables; indexes, sequences, types and TRUNCATE; the verbatim objects |
| `EmitText` | the texts the emitter puts together |
| `Parser` | `Parse`, one action for each parse function, and the way from the statement to its text and back |
| `SqlForms`, `TableForms` | forms of statements as PostgreSQL's grammar writes them, with their meaning |
| `MC...` | names, statements and directories for the runs; `MCSchema` gives `Apply` the statements of one registry at a time |
| `KeyedSlicesProofs` | lemmas about slices, about their concatenation and about the map updates |
| `TableDefProofs` | lemmas about the actions of ALTER TABLE |
| `...RegistryProofs`, `SplitterProofs` | theorems about the module of that name |
| `MergeProofs` | theorems about the order of the files, the whole schema during a merge, and the output: complete, and in order |

A handler `applyX` of `schema.go` is the operator `applyX`: one disjunct per
return, the error returns included. The action `X` applies it to any statement
of its type. State variables have the names of the fields of `Schema`.
Positions count from 1.

Each registry has two next-state relations. In `...Next` any statement can
come, also what PostgreSQL would have refused (a rename onto a name in use).
In `...LegalNext` the statements are those of migrations that ran on
PostgreSQL: names to be taken are free and what is referred to exists. The
program does not check this, so it is an assumption about the input, and every
property says by its specification which of the two it needs.

The three levels meet in the statement. The registries take any statement of
its type; `Parser` is about which statement a text is; `Splitter` about which
texts there are. In `Splitter` a text is a sequence of characters, of which
only those the scan looks for are told apart. In the parser it is a sequence of
words, blanks and punctuation: `strings.HasPrefix` and the patterns are
operators on such sequences, and a cut within a word does not occur. A lower
and an upper case spelling of a word are two words. `Merge` takes the files as
lists of statements.

What is abstracted in the registries: an option, a label, the body of a definition and the action
of an ALTER are model values; a sequence body is a set of options (PostgreSQL
ignores their order); an inline constraint is a sequence of clauses, so that
the prefix tests see the first clause only; the text of a table constraint is
its kind and the identifiers in it by role; TEMPORARY, UNLOGGED, COLLATE,
PARTITION BY and UNIQUE of an index are carried along unchanged by the code
and left out. The name of a trigger, policy or rule is one token for
`name_on_table`. RENAME TO of a table is a statement of its own, as PostgreSQL
takes it only alone. An automatic constraint name is kept as the tuple of its
parts, so two columns whose names concatenate to one string are told apart.

## 3. Runs

All bounds are constants in the `.cfg` files; deadlock is not checked because
the program stops at the first error, and the models at their bounds.

| run | checks | bound, and why it is enough |
|---|---|---|
| `schema_any` | `SeqIndexSound`, `TypeIndexSound`, `ObjectIndexSound`, `TableMapsSound` | `Apply` with any statement about one registry, chosen at the start. Sequences: 3 names, one of them in two spellings, 3 sequences. Types: 3 names, 2 ENUMs, 3 composite types and views, one label. Tables: 2 tables in three spellings, 2 indexes, a partition, DROP TABLE of two that fails at either. There are elements before, at and behind a gap and second keys to rename onto. The names of types are symmetric |
| `schema_legal` | sequences: all found, one variant of an option, order, dictionary; objects: all found, kept ALTERs, dictionary | `Apply` with legal statements about one registry. Sequences as above, with options of two families and RESTART. Objects: 2 kinds, 2 names, 3 objects, two ALTERs each, so that a list grows as well as begins; one statement passed through |
| `type_legal` | all types found, text of a composite type, labels distinct and in order, dictionary | 3 names, 2 ENUMs and a composite type side by side, 3 labels so that an insertion has two sides |
| `table_legal` | all maps coherent, indexes have and follow their tables, foreign keys resolve, order of the tables | 3 self-referencing tables (by constraint and inline), two of them dropped in one list, 2 indexes, a partition, a TRUNCATE |
| `columns` | `NamesDistinct`, `ConstraintsFollowColumns` | 2 columns, 2 constraints, every action, and two lists of actions, one refused half way |
| `split` | `SplitTypeOK`, `SplitsAtSemicolons`, `SplitStable`, `ScanEnds` | every text of up to four of thirteen pieces: quote, dash, opened and closed comments, dollars with and without a tag, semicolon, newline, letter. Three pieces are an opening, a mark inside and a closing; the fourth makes it start in, or run into, another element |
| `parse` | `StatementsUnderstood`, `OutputUnderstood` | the forms of `SqlForms` and `TableForms`, also with the existence clauses that have no field, with a space, a newline or both at every "~" and a space at every bar, where a pattern ends at a newline; up to three clauses per column, of different kinds and in every order, so that each stands before, between and behind others |
| `merge` | schema coherent, numeric order, nothing lost, output ordered, output merges to itself, termination | every choice of seven files (tables, other tables, sequences, types, functions and the like, a replacement, a malformed one) under every assignment of two numbers; a read error at each file, a write error with an empty or half output; a second run on the output |

What the legal runs cannot show is that the maps are sound whatever statements come.
`schema_any` is about that, with renames onto taken names;
it is also proved (section 4). That it shows more is seen by the mistake
`ReindexByCount`, a re-index loop that ends at the number of map entries
instead of that of elements: on legal histories the two numbers are the same and
no property of the legal runs sees it; it violates `SeqIndexSound` and `ObjectIndexSound`.

`AltersStayPut` says of each step what it may do to the lists of kept ALTERs, as a
function from objects to lists: append an ALTER to the list of the object it is about,
empty the list of the object that is replaced, begin, drop or rename one
entry. `MaxAlters` bounds each list, `MaxUnknowns` the statements passed through.

`parse` is strict: what a clause says has to be in the statement. The clauses that
PostgreSQL has and the statement has no field for are existence clauses (IF NOT EXISTS
of CREATE TABLE, SEQUENCE, SCHEMA, EXTENSION, MATERIALIZED VIEW and of ADD COLUMN, IF EXISTS
of DROP COLUMN and of some ALTERs). The forms
have a meaning for them, `Guarded`. `StatementsUnderstood` leaves that one field out: no word of
the clause may be taken for a name or anything else. `ExistenceClausesKept`
asks for it too, and `parse_exists` shows that it is false. Without a
meaning are only clauses that the coverage document says are ignored: ONLY and OWNER TO
of ALTER TABLE, CASCADE and RESTRICT of a DROP, CONTINUE IDENTITY, USING of a new type.

`NothingLostOnWrite` compares the file that was written with the schema, object
by object. In `merge` all renames are legal: TLC finds no state with `RenamesLegal`
or `ReferencesStand` false, the hypotheses of `SchemaAlwaysCoherent` and
`OutputAlwaysOrdered`. The constants of the two
`merge` runs that say what statements are made of (`Token`, `ActionList` and so on)
are taken from the contents of the files, so that TLC evaluates the assumptions
of section 4 on them.

Each property is also run against a deliberate mistake in the code it is about
(the operators commented "Mistake"), which must violate it.

The bounds are not cut off at random: every handler does at most one removal
and re-index per name, so what can go wrong between a slice and its map shows
with an element before, at and behind the gap, which three elements give. The
legal runs have names enough for a rename while two definitions are there.

What the properties take for granted, besides legal input where the run says
so: `ReferencesResolve` is about self references that stand first in their
inline constraint, of tables whose names are no part of the word REFERENCES;
`IndexesHaveTables` about the indexes on tables, not on partitions;
`NumericOrder` about numbers that fit an int; `RemergeStable` about outputs
without an ENUM (`merge_enum` shows where an ENUM ends up).
`SplitsAtSemicolons` is about texts whose dollars open dollar quotes and whose
comments are not nested; `SplitStable` also asks that a removed comment had
a blank on one side. The forms of `parse` have one space within `NOT NULL`,
between the first words of a statement and behind a keyword that a search
needs it for, no newline where a pattern stops at one (the actions of ALTER TABLE and ALTER TYPE,
the labels of an ENUM, the list of DROP TABLE, the options of ALTER SEQUENCE), and no
names that begin with a keyword. Of the statements the coverage document lists,
DROP INDEX CONCURRENTLY and ON DELETE SET NULL within a column are not among the
forms, because the parser does not understand them, nor is
TRUNCATE ONLY. What the code does beyond that is
listed under "known deviations".

`MergeEnds` assumes weak fairness of `Run`: the program is one sequential
process that always takes its next step until it ends. Nothing is assumed of
`Remerge`, the user starting it once more. In the same way `ScanEnds` assumes
weak fairness of `Scan`, the loop of `Split`, and nothing of `Output`.

### What the code does otherwise than it says

Four runs that TLC must find violated; the findings in `PROJECT.json` quote
the document or comment.

| run | what happens |
|---|---|
| `type_quoted` | `ALTER TYPE a RENAME TO "a"` files a composite type under a key that the re-index of a later DROP does not use; the next use of the left-over entry is out of range |
| `obj_rename` | a renamed view is emitted under its old name |
| `merge_enum` | an ENUM over several lines, which is how the emitter itself writes it, goes to the end of the output, behind the tables |
| `parse_exists` | CREATE TABLE IF NOT EXISTS is taken for CREATE TABLE, so that `schema.go:79` refuses to repeat it. The other existence clauses without a field (coverage document lines 45, 276 and 277 among them) are lost in the same way |

### Known deviations

Met while modelling, most of them by a counterexample of the models above with
one more property or input, and not kept as runs. In the schema and the output:

* RENAME TO of a table leaves the foreign keys of other tables, and inline ones
  behind another clause, with the old name (`schema.go:202`, `:211`), and cuts
  into the word REFERENCES when the table's name is a part of it (`:205`).
* DROP COLUMN leaves the constraints about the column (`:136`), RENAME COLUMN
  the indexes on it (`:193`). RENAME COLUMN does rewrite the texts of table
  constraints, README.md:108 says it does not.
* DROP IDENTITY removes a PRIMARY KEY that follows GENERATED (`:811`); DROP
  CONSTRAINT of an automatic name succeeds with nothing to remove (`:872`).
* The indexes of a dropped partition (`:341`), the partitions of a dropped or
  renamed table (`:354`) and TRUNCATEs of it (`:676`) stay in the output.
* A second CREATE VIEW is an error (`:583`); the documentation says the later
  one wins.
* OWNED BY is emitted before its table (`emitter.go:49`).
* Numbers too long for an int all count as the largest one (`sorter.go:38`).
* Quoted names that differ in case are one name to `normIdent` (`schema.go:19`).
* RENAME COLUMN to a quoted name doubles the quotes of a name that stands in quotes in a
  constraint (`:192`); in the model the word is replaced with its quotes.

In the parser (`parser.go`; the coverage document is
`docs/postgres-command-coverage.md`):

* Patterns without `(?s)` end at a newline: the actions of ALTER TABLE (`:14`),
  ADD CONSTRAINT and CONSTRAINT lines, the list of DROP TABLE (`:15`), the body of
  an index (`:16`), the options of ALTER SEQUENCE (`:21`), an ENUM (`:23`). What
  follows is dropped without an error, or the statement passed through: of an ALTER
  TABLE with two actions on two lines (line 289) the second is lost.
* DROP INDEX CONCURRENTLY drops an index of the name CONCURRENTLY (`:17`; line 38 lists it
  as supported).
* ` NULL` is removed from a column wherever it stands first (`:373`): REFERENCES ... ON DELETE
  SET NULL loses its last word, though lines 227 and 251 say it is kept verbatim; the same in DEFAULT
  NULL and DEFAULT nullif(...), in UNIQUE NULLS NOT DISTINCT. NOT NULL is
  removed from a CHECK as well (`:366`). ON DELETE SET DEFAULT before another clause
  becomes a default (`:379`). Keywords are found in string literals
  and within words.
* A part of CREATE TABLE is a constraint if it begins with the letters of
  a keyword (`:328`): columns `checksum`, `like_count`, `unique_id`. A `CONSTRAINT x`
  within a column stays in its type; ADD of a column without the word COLUMN
  is skipped; a quoted column loses its quotes (`extractIdent`, `:403`).
* More than one blank, or a newline, between the leading keywords makes
  a statement unknown. `NOT NULL`, `CHECK (`, `REFERENCES `, `DEFAULT `, `OR REPLACE`
  and `IF EXISTS` are searched with one space; the last two anywhere in the text
  (`:949`, `:974`).
* ALTER TABLE IF EXISTS takes IF for the name. ONLY of TRUNCATE is dropped (`:1081`),
  so that the output truncates the partitions too. CREATE TABLESPACE takes
  the branch of tables and ends the merge; line 148 lists it as passed through.
* DROP VIEW of two names, DROP FUNCTION f CASCADE, CREATE VIEW v(a, b) and
  CREATE INDEX ... ON t(a) without a space are not recognised as written.

In the splitter:

* Anything up to the next `$` is a tag (`splitter.go:42`), so the text between
  $1 and a second $1 is a dollar quote. A comment is removed without a trace (`:93`), so what stands
  on both sides is joined. Nested comments end at the first `*/`. Semicolons in
  quoted identifiers, BEGIN ATOMIC bodies and the action lists of rules end
  a statement.

## 4. Proofs

Every theorem is for every set of names, texts, labels, options, tables and
lists of actions, and for every bound. What a run checks on three elements is
proved here for any number of them and for histories of any length.

### What is assumed

The constants have named assumptions, in the modules that declare them; TLC
evaluates them in every run.

| assumption | says |
|---|---|
| `TokenAssumption` | a token is its letters, its case and its quotes |
| `KindAssumption` | the kinds of objects are constants of `parser.ObjectKind` |
| `OptionAssumption` | an option of a sequence has a kind of the table `seqBodySpecs` |
| `TableAssumption` | CREATE TABLE and the actions of ALTER TABLE are records as the parser builds them: no empty chunk of inline constraints, an action of a known kind with the column or constraint it is about |
| `CharAssumption`, `TextsAssumption` | a text is a sequence of the characters the scan tells apart |
| `MergeAssumption` | a directory is finite and has no two entries of one name; a file is a list of texts, each of which parses to a statement `Apply` has a handler for, or is refused |

Some theorems have a hypothesis of their own:

* `PlainTokens`, no name is quoted. The run `type_quoted` is the counterexample
  without it: composite types are filed under two keys that differ for quoted
  names. Whatever speaks of `objectIdx` together with types needs it. The
  registries of sequences, ENUMs and tables do not.
* `NumbersFit`, the numbers of the files fit an int. Behind that they are
  clamped, and the names decide alone. `EveryFileListedOnce` does without.
* `RenamesLegal`, no statement about to be applied renames to a name in use.
  PostgreSQL refuses such a rename, and the handlers do not look. It is the
  hypothesis of a temporal formula, `MergeSpec /\ []RenamesLegal => ...`; the
  `...LegalNext` relations of the registries say the same of theirs.
* `ReferencesStand`, the statement about to be applied speaks of what the statements
  before it created, under the name it got (`RefersToDefined`): an index or a
  partition has its table, an ALTER that is kept has an object that was not renamed,
  a table is renamed or dropped without partitions, a partition is dropped
  without indexes. PostgreSQL refuses an index, a partition or an ALTER of
  something that does not exist. The rest excludes known deviations: the handlers
  leave the text of a partition and of the ALTERs as they are when the name changes, and
  DROP TABLE of a partition leaves its indexes; after that the output really is out of
  order. The histories of the run `merge` satisfy it: TLC finds no state in which it is false.
* `round = 1`: the theorems on the schema during a merge are about the run on the
  migrations. Of the second run one would have to know that Parse takes back
  what Emit wrote, which is checked by TLC (`RemergeAccepted`, `OutputUnderstood`)
  and is about recursive definitions over texts.

### What is proved

| theorem | for | says |
|---|---|---|
| `SeqIndexAlwaysSound`, `SequencesAlwaysTyped` | `SeqSpec` | `[](SeqTypeOK /\ SeqIndexSound)` |
| `OneOptionPerFamilyAlways` | `SeqSpec` | `[]OneOptionPerFamily` |
| `SeqIndexAlwaysCoherent` | `SeqLegalSpec` | `[]SeqIndexCoherent` |
| `SeqOrderAlwaysKept` | `SeqLegalSpec` | the action property `SeqOrderKept` |
| `SequencesImplementCatalog` | `SeqLegalSpec` | refinement of `Catalog!Spec` |
| `ObjIndexAlwaysCoherent`, `ObjectsAlwaysTyped` | `ObjLegalSpec` | `[](ObjTypeOK /\ ObjectIndexCoherent)` |
| `AltersAlwaysStayPut` | `ObjLegalSpec` | the action property `AltersStayPut`: a step changes the list of ALTERs of one object, and only its own |
| `ObjectsImplementCatalog` | `ObjLegalSpec` | refinement of `Catalog!Spec` |
| `TypeIndexAlwaysSound` | `TypeSpec` | `[]TypeIndexSound`, quoted names included |
| `TypeObjectsAlwaysNamed`, `TypesAlwaysTyped`, `TypeObjectsAlwaysFound` | `TypeSpec`, `PlainTokens` | `[](TypeTypeOK /\ ObjectIndexSound /\ CompositeTextNamed)` |
| `EnumsAlwaysCoherent`, `EnumsAlwaysFound` | `TypeLegalSpec` | `[](TypeIndexCoherent /\ LabelsDistinct)` |
| `LabelOrderAlwaysKept` | `TypeLegalSpec` | the action property `LabelOrderKept` |
| `EnumsImplementCatalog` | `TypeLegalSpec` | refinement of `Catalog!Spec` |
| `TableMapsAlwaysSound` | `TableSpec` | `[]TableMapsSound`, half-done DROP TABLEs and quoted names included |
| `TablesAlwaysTyped` | `TableSpec` | `[]TableTypeOK`: every list of actions leaves a table that can be printed |
| `TableMapsAlwaysCoherent` | `TableLegalSpec` | `[]TableMapsCoherent` |
| `NamesAlwaysDistinct` | `TableLegalSpec` | `[]NamesDistinct` |
| `IndexesAlwaysHaveTables` | `TableLegalSpec` | `[]IndexesHaveTables` |
| `IndexesAlwaysFollowTables`, `TableOrderAlwaysKept` | `TableLegalSpec` | the action properties of these names |
| `FilesAlwaysInOrder` | `MergeSpec`, `NumbersFit` | `[]NumericOrder` |
| `EveryFileListedOnce` | every directory | the sorted list holds each SQL file exactly once |
| `SchemaMapsAlwaysSound` | `MergeSpec`, `PlainTokens` | `[](round = 1 => SchemaMapsSound)` |
| `SchemaAlwaysCoherent` | `MergeSpec`, `PlainTokens`, `[]RenamesLegal` | `[](round = 1 => SchemaCoherent)` |
| `NothingEverLostOnWrite` | `MergeSpec`, `PlainTokens` | `[](round = 1 => NothingLostOnWrite)` |
| `OutputAlwaysOrdered` | `MergeSpec`, `PlainTokens`, `[]ReferencesStand` | `[](round = 1 => OutputOrdered)` |
| `ScanStaysInText` | `SplitSpec` | `[]SplitTypeOK`: no position outside of the text |
| `SplitsAlwaysAtSemicolons` | `SplitSpec` | `[]SplitsAtSemicolons`, for every text |
| `ScansReadText` | `SplitSpec` | `[]ScanInv`: at every character of both scans, the state is that of the element it lies in |

### Along which argument

*Slices and maps.* `KeyedSlicesProofs` says what stands where after an element is
replaced, removed or inserted, and from that what the map updates do to `Sound`
and `Complete`, for arbitrary keys: adding at the end, replacing an element of the
same key, renaming, removing with re-indexing behind. Each registry has a lemma
per handler that cites one of them per outcome, a step per action, and PTL at the
end.

* Soundness of an entry survives a removal only if the positions have the
  right type, and the type of the changed element follows from soundness of
  the position looked up. So type and soundness are one invariant (`SeqTypeOK /\
  SeqIndexSound`; `EnumInv` for ENUMs; `ObjInv` for objects; `TableInv`).
* Coherence (`SeqComplete`, `EnumComplete`, `ObjComplete`, `TableFull`) needs in
  addition that a rename finds the new key free; with soundness alone a removal
  would not give completeness of what moved up.
* `ObjInv` also says of a composite or range type that its text has the name of
  the element, because the rename replaces the name only where it matches; and
  of an object with ALTERs that its kind is one whose ALTERs are kept, which is
  what Emit relies on (`StoredObject`).

*DROP TABLE of a list.* `dropTables` is a recursive function on the positions of
the list. `DropTablesFacts` shows that such a function exists and is the loop it
says, without an induction theorem: the positions up to which the loop can be
run have no smallest gap. `AlongList` carries an invariant along it the same
way, so `TableInv` holds after every name, the refused one included. What is said of the
whole list (`IndexesHaveTables`, the order of the tables) follows from what one
name does. ALTER TABLE with its list of actions goes the same way
(`ApplyActionsFacts`), with one lemma per action in `TableDefProofs`: a table stays
well formed, and, where the action is one PostgreSQL accepts, no two columns and
no two named constraints of it share a name (`DistinctParts`).

*Order.* `SeqOrderKept` and `TableOrderKept` speak of two positions before
and two after a step. The lemmas `Found...` give, for each of the four
ways a handler changes slice and map (create, drop, rename, change), where an
element that stays is found afterwards; the action properties follow, as removing one
element moves no two past each other. `AltersStayPut` speaks of the lists of ALTERs by the
key of their object, so each handler has to be one of the changes it allows. It is
shown with the refinement: the `...Implements` lemmas say of each handler which
definition it changes, and a definition includes the list of its ALTERs.

*Refinement.* `...CatalogOK` says that the dictionary read off slice and map has a
definition for every key. The same four ways are `Define`, `Remove`, `Rename` and
`Redefine` of `Catalog`, a refused statement is `Refuse`, and an ALTER that is passed through is
a stutter; each `...Implements` lemma takes one handler to one of them. Coherence is
needed for it: a rename onto a key in use would drop a definition from the
dictionary without being a step of it.

*The files.* A file's place in the sorted list is the number of files that are less.
`FileLess` is a strict total order, however the numbers are clamped
(`FileOrder`), so different files have different ranks, and a finite set has as many
ranks as files: every place is taken, by one file (`RanksAreAllTaken`).
`RunInv` says that what is left of the list is sorted.

*The whole merge.* `SchemaInv` is the conjunction of the registries' invariants,
`SchemaFull` that of their completeness. For each arm of the type switch of
`Apply` a lemma shows that its handler keeps the invariant of its own registry
(the lemmas of the registries) and leaves the variables of the others alone,
except where it does not: DROP TYPE and RENAME of a type reach into `Objects`, DROP TABLE removes
partitions. `TextsParse` says that what is still to be applied are statements.

*The output.* `FlattenFacts` and `ConcatFacts` say that a concatenation has the
elements of its parts, `SectionFacts` what a section of Emit prints. That nothing is
lost is then a matter of kinds: each kind of `parser.ObjectKind` has a section, and
each kind whose ALTERs a handler keeps has one that prints them. A new kind
without a section, or a handler that keeps ALTERs for another kind, breaks the proof.

*The order of the output.* `OutputOrdered` speaks of the file; what keeps it true is
a property of the schema, `UsesPlaced`: every index has a table or a partition,
every partition a table or a partition *before* it in `Objects`, and
the ALTERs kept with an object bear the name of its text. Three things follow each
other in the proof.

* `EmitOrdered`: Emit of such a schema is in order. A part of the output is judged
  by what stands in front of it (`Behind`), and `BehindConcat`, `BehindFlatten`
  put parts together. Sections without uses in them are in order whatever stands in front
  (`SectionsStandAlone`); only partitions need their place within their own section.
* `Placed...`: what the changes of the slices do to it. Removing an object keeps it only if no
  partition and no index stands on it, replacing one only if it keeps kind and name.
* One lemma per handler (`...Placed`), from these. In DROP TABLE the list is walked
  with a half-done state that has lost some of its tables: the invariant
  of the walk (`DropPlaced`) says that an index of a table still to be dropped has that
  table, and `dropOneTable` takes the two away together. RENAME TO moves the indexes in the same step.

The hypothesis is used where a use is added or what it stands on is taken away, and
nowhere else: dropping or replacing objects, and all of ALTER TABLE, need none.

*The scan.* `SplitTypeOK` is inductive. The step that matters is a dollar quote,
where the position moves on by a length computed from two searches: that the
closing tag lies behind the opening one and within the text.

*What the scan finds.* `SplitsAtSemicolons` speaks of a scan that has ended. The
inductive invariant `ScanInv` says what holds at each character: in state normal the
position is a boundary of `SqlText`'s elements; in a string or a comment there is
an element that starts before the position, has the opening of this state, and whose
closing is not yet passed (`InElement`); `buf` is the text since the last end of a
statement, without its comments, and `stmts` the statements that ended before (`Reading`).
A step that stays in an element moves on within it (`InsideElement`); one that
leaves it has reached its end (`QuoteElement`, `BlockElement`, ...), and what comes next
is a boundary again (`NextBoundary`). Two places need care. A doubled quote is two
elements for `SqlText` and one step of the scan that stays in its string
(`EscapedQuoteReads`). And a dollar has to open a dollar quote (`PlainDollars`): the scan
takes any two dollars for a tag, a known deviation; with the hypothesis the tag
the scan finds is the tag of the element (`DollarReads`). `FlatComments`, which the run
needs for PostgreSQL's nested comments, the proof does not: both
sides end a comment at the first closing.

`SqlText` gives its elements and statements per position, without recursion but
for `Cover`, where each position looks at the one before. That such a function
exists is again shown without an induction theorem, by the smallest gap
(`CoverSteps`).

### Only model-checked

* `ReferencesResolve` and `ConstraintsFollowColumns`. They are false for arbitrary
  tables and lists of actions (known deviations), so a theorem would have to
  assume the form of the tables the runs have, statement by statement.
* `RemergeAccepted`, `RemergeStable`: what Parse makes of Emit's output, for whole schemas.
* `StatementsUnderstood`, `OutputUnderstood`: what the parser makes of a text. Their
  reference definitions are recursive over the text, and what such a definition
  computes for every input needs an induction the provers cannot instantiate.
* `SplitStable`. `ScansReadText` holds for the second scan too, so what is missing is
  a fact without a scan: the statements of a text, written one after another
  without their comments, have those same statements.
* `MergeEnds` and `ScanEnds`: liveness under fairness.

## 5. Not modelled

The flags of `main` and its messages, warnings of the schema, layout of the
output, the integration tests' use of Docker. Of the patterns: a keyword that
is only a part of a word or stands in a string literal, and PostgreSQL syntax
the coverage document does not list. Of the file system, anything beyond
a read that fails and a write that stops half way. What PostgreSQL would hold
after the same statements is used in the abstract specifications only as far as
names, labels, options and order go.

## 6. Plan

1. *Done*: identifiers, slices and maps, all registries, `Schema`, `Emitter`,
   `Merge`, `Splitter`, `Parser`, each with its runs.
2. *Done*: proofs for all registries (types, maps, order, refinement), for the order of the files,
   and for the schema and the output of a merge (complete, and in order).
3. Proofs: no statement is lost by the order of the steps of a merge (what has been
   applied is the concatenation of the files read so far); the options and
   the labels of a definition through Emit; `ObjTargetFree` and its siblings for
   histories in which every name is used once.
4. *Done*: `SplitsAtSemicolons` for every text, with the reference definition given
   per position. Left: that written statements are found again (`SplitStable`).
5. Fidelity: what PostgreSQL would hold after the same statements, compared with
   the output.
