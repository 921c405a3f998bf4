------------------------------ MODULE SqlForms ------------------------------
(***************************************************************************)
(* Statements as PostgreSQL's grammar writes them, each with what it       *)
(* means: the reference for the parser.  In a text "~" stands for blanks   *)
(* of any kind, "|" for a space where PostgreSQL takes any blank and the   *)
(* parser no newline, and "sp" for one space, which the parser needs       *)
(* (README, known deviations).                                             *)
(*                                                                         *)
(* Without a meaning are the clauses that the coverage document says are   *)
(* ignored: ONLY and OWNER TO of ALTER TABLE, CASCADE and RESTRICT of a    *)
(* DROP, CONTINUE IDENTITY, and USING of a new type.  The forms are not    *)
(* all that the document lists: DROP INDEX CONCURRENTLY and ON DELETE SET  *)
(* NULL within a column, which the parser gets wrong, are not among them   *)
(* (README).                                                               *)
(***************************************************************************)
EXTENDS EmitText

Form(t, m) == [text |-> t, means |-> m]

(* The parts that are there, with blanks between them                      *)
Loose(parts) == Joined(NonEmpty(parts), <<"~">>)
Single(words) == [k \in DOMAIN words |-> <<words[k]>>]
LooseWords(words) == Loose(Single(words))

Either(words) == {<<>>, LooseWords(words)}
MayExist == Either(<<"IF", "EXISTS">>)
MayNotExist == Either(<<"IF", "NOT", "EXISTS">>)

(* Statements that may be guarded by an existence clause for which the     *)
(* parser has no field: what they mean has one.                            *)
IfThere(guarded) == IF guarded THEN LooseWords(<<"IF", "EXISTS">>) ELSE <<>>
UnlessThere(guarded) == IF guarded THEN LooseWords(<<"IF", "NOT", "EXISTS">>) ELSE <<>>

Guard(means, guarded) == IF guarded THEN means @@ [Guarded |-> TRUE] ELSE means
Unguarded(means) == Restrict(means, DOMAIN means \ {"Guarded"})

(* Three spellings of one name, and another name                           *)
Spelling == {<<"v">>, <<"V">>, <<"quote", "v", "quote">>}
Other == <<"w">>

NameLists == {<<n>> : n \in Spelling} \cup {<<n, Other>> : n \in Spelling}

-----------------------------------------------------------------------------
DropTables ==
  {Form(Loose(<<Spaced(<<"DROP", "TABLE">>), exists, Joined(names, comma) \o behaviour>>),
        [Type |-> "DropTable", TableNames |-> names, IfExists |-> exists # <<>>]) :
     exists \in MayExist, names \in NameLists, comma \in {<<",">>, <<",", "|">>},
     behaviour \in {<<>>, <<"sp", "CASCADE">>, <<"sp", "RESTRICT">>}}

Truncates ==
  {Form(Loose(<<<<"TRUNCATE">>, table \o Joined(names, <<",", "~">>)
                                      \o star \o identity \o behaviour>>),
        [Type |-> "Truncate", Tables |-> names,
         RestartIdentity |-> "RESTART" \in Range(identity),
         Cascade |-> "CASCADE" \in Range(behaviour)]) :
     table \in {<<>>, <<"TABLE", "sp">>}, names \in NameLists, star \in {<<>>, <<"~", "*">>},
     identity \in {<<>>, <<"sp", "RESTART", "sp", "IDENTITY">>,
                   <<"sp", "CONTINUE", "sp", "IDENTITY">>},
     behaviour \in {<<>>, <<"sp", "CASCADE">>, <<"sp", "RESTRICT">>}}

CreateIndexes ==
  {Form(Loose(<<Spaced(<<"CREATE">> \o unique \o <<"INDEX">>), concurrently, exists,
                name, <<"ON">>, Other, body>>),
        [Type |-> "CreateIndex", Unique |-> unique # <<>>,
         Concurrently |-> concurrently # <<>>, IfNotExists |-> exists # <<>>,
         IndexName |-> name, TableName |-> Other, Body |-> body]) :
     unique \in {<<>>, <<"UNIQUE">>}, concurrently \in Either(<<"CONCURRENTLY">>),
     exists \in MayNotExist, name \in Spelling,
     body \in {<<"(", "a", ",", "b", ")">>,
               Spaced(<<"USING", "btree", "(", "a", ")", "WHERE", "a">>)}}

Drops ==
  {Form(Loose(<<Spaced(<<"DROP", what[1]>>), exists, name, behaviour>>),
        [Type |-> what[2], Name |-> name, IfExists |-> exists # <<>>]) :
     what \in {<<"INDEX", "DropIndex">>, <<"SEQUENCE", "DropSequence">>,
               <<"TYPE", "DropType">>},
     exists \in MayExist, name \in Spelling, behaviour \in Either(<<"CASCADE">>)}

Renames(guarded) ==
  {Form(Loose(<<Spaced(<<"ALTER", what[1]>>), IfThere(guarded), name,
                LooseWords(<<"RENAME", "TO">>), Other>>),
        Guard([Type |-> what[2], OldName |-> name, NewName |-> Other], guarded)) :
     what \in {<<"INDEX", "AlterIndex">>, <<"SEQUENCE", "AlterSequence">>},
     name \in Spelling}

-----------------------------------------------------------------------------
(* An option of a sequence: what it is about, how it is written, and what  *)
(* it means                                                                *)
Opt(about, written, kind, value) ==
  [about |-> about, written |-> written, means |-> [Kind |-> kind, Value |-> value]]

OptWithNumber(kind, noise) ==
  {Opt(Head(kind), <<Head(kind)>> \o word \o <<"1">>, kind, <<"1">>) :
     word \in {<<>>, <<noise>>}}

SequenceOptions ==
  {Opt(x, <<"NO", x>>, <<"NO", x>>, <<>>) : x \in {"MINVALUE", "MAXVALUE", "CYCLE"}}
  \cup {Opt(x, <<x, "1">>, <<x>>, <<"1">>) : x \in {"MINVALUE", "MAXVALUE", "CACHE"}}
  \cup {Opt(x, <<x>>, <<x>>, <<>>) : x \in {"CYCLE", "RESTART"}}
  \cup OptWithNumber(<<"INCREMENT", "BY">>, "BY")
  \cup OptWithNumber(<<"START", "WITH">>, "WITH")
  \cup OptWithNumber(<<"RESTART">>, "WITH")
  \cup {Opt("AS", <<"AS", "int">>, <<"AS">>, <<"int">>),
        Opt("OWNED", <<"OWNED", "BY", "w.a">>, <<"OWNED", "BY">>, <<"w.a">>),
        Opt("LOGGED", <<"SET", "LOGGED">>, <<"SET">>, <<"LOGGED">>)}

CreateSequences(guarded) ==
  {Form(Loose(<<Spaced(<<"CREATE", "SEQUENCE">>), UnlessThere(guarded), name,
                LooseWords(o.written)>>),
        Guard([Type |-> "CreateSequence", SeqName |-> name, Body |-> Spaced(o.written)],
              guarded)) :
     name \in Spelling, o \in SequenceOptions}

AlterSequences(guarded) ==
  {Form(Loose(<<Spaced(<<"ALTER", "SEQUENCE">>), IfThere(guarded), Other,
                Joined(Single(op[1].written \o op[2].written), <<"|">>)>>),
        Guard([Type |-> "AlterSequenceOpts", SeqName |-> Other,
               Opts |-> <<op[1].means, op[2].means>>], guarded)) :
     op \in {pair \in SequenceOptions \X SequenceOptions : pair[1].about # pair[2].about}}

-----------------------------------------------------------------------------
Quoted(label) == <<"'">> \o label \o <<"'">>
Labels == {<<"x">>, <<"x", ",", "sp", "y">>}

CreateTypes ==
  {Form(Loose(<<Spaced(<<"CREATE", "TYPE">>), name, LooseWords(<<"AS", "ENUM">>),
                <<"(">> \o Quoted(label) \o <<",", "|">> \o Quoted(<<"z">>) \o <<")">>>>),
        [Type |-> "CreateType", TypeName |-> name, Labels |-> <<label, <<"z">>>>]) :
     name \in Spelling, label \in Labels}
  \cup {Form(Loose(<<Spaced(<<"CREATE", "TYPE">>), name, LooseWords(as), <<"(", "~", "a", "~", ")">>>>),
             CreateObject("TYPE", <<"v">>, FALSE, <<>>)) :
          name \in Spelling, as \in {<<"AS">>, <<"AS", "RANGE">>}}

(* What ALTER TYPE does, as the words and the action                       *)
TypeActions ==
  {Form(<<"ADD", "|", "VALUE", "|">> \o (IF unlessThere THEN <<"IF", "|", "NOT", "|", "EXISTS", "|">> ELSE <<>>)
          \o Quoted(<<"x">>) \o place.text,
        [Kind |-> "AddValue", Value |-> <<"x">>, IfNotExists |-> unlessThere] @@ place.means) :
     unlessThere \in BOOLEAN,
     place \in {Form(<<"|", w, "|">> \o Quoted(<<"z">>), [Place |-> w, Other |-> <<"z">>]) :
                  w \in {"BEFORE", "AFTER"}}
               \cup {Form(<<>>, [Place |-> "END", Other |-> <<>>])}}
  \cup {Form(<<"RENAME", "|", "VALUE", "|">> \o Quoted(<<"x">>) \o <<"|", "TO", "|">> \o Quoted(<<"z">>),
             [Kind |-> "RenameValue", Value |-> <<"x">>, NewValue |-> <<"z">>]),
        Form(<<"RENAME", "|", "TO", "|">> \o Other, [Kind |-> "RenameTo", NewName |-> Other])}

AlterTypes ==
  {Form(Loose(<<Spaced(<<"ALTER", "TYPE">>), name, action.text>>),
        [Type |-> "AlterType", TypeName |-> name, Action |-> action.means]) :
     name \in Spelling, action \in TypeActions}

-----------------------------------------------------------------------------
(* The objects that are kept verbatim                                      *)
KeyOf(kind) == IF kind \in OfTable THEN <<"v", "_on_", "w">> ELSE <<"v">>

Definition(kind, name) ==
  CASE kind \in Routine -> Loose(<<name \o <<"(", "a", ")">>, LooseWords(<<"AS", "a">>)>>)
    [] kind = "TRIGGER" -> Loose(<<name, LooseWords(<<"AFTER", "INSERT", "ON">>), Other>>)
    [] kind = "POLICY" -> Loose(<<name, <<"ON">>, Other, LooseWords(<<"USING", "(", "a", ")">>)>>)
    [] kind = "RULE" -> Loose(<<name, LooseWords(<<"AS", "ON", "INSERT", "TO">>), Other,
                                LooseWords(<<"DO", "NOTHING">>)>>)
    [] kind = "DOMAIN" -> Loose(<<name, LooseWords(<<"AS", "int">>)>>)
    [] kind \in {"VIEW", "MATERIALIZED VIEW"} -> Loose(<<name, LooseWords(<<"AS", "SELECT", "a">>)>>)
    [] OTHER -> name

Guardable == {"MATERIALIZED VIEW", "SCHEMA", "EXTENSION"}

CreateObjects(guarded) ==
  UNION {{Form(Loose(<<Spaced(<<"CREATE">> \o replace \o KindWords(kind)),
                       UnlessThere(guarded), Definition(kind, name)>>),
               Guard(CreateObject(kind, KeyOf(kind), replace = <<"OR", "REPLACE">>, <<>>),
                     guarded)) :
            name \in Spelling,
            replace \in {<<>>} \cup (IF kind \in Replaceable THEN {<<"OR", "REPLACE">>} ELSE {})
                               \cup (IF kind = "TRIGGER" THEN {<<"CONSTRAINT">>} ELSE {})} :
         kind \in IF guarded THEN Guardable ELSE ObjectKinds}

(* How an object is referred to                                            *)
Reference(kind, name) ==
  CASE kind \in Routine -> name \o <<"(", "a", ")">>
    [] kind \in OfTable -> Loose(<<name, <<"ON">>, Other>>)
    [] OTHER -> name

DropObjects ==
  {Form(Loose(<<Spaced(<<"DROP">> \o KindWords(kind)), exists, Reference(kind, name)>>),
        [Type |-> "DropObject", Kind |-> kind, Name |-> KeyOf(kind),
         IfExists |-> exists # <<>>]) :
     kind \in ObjectKinds, name \in Spelling, exists \in {<<>>, <<"IF", "sp", "EXISTS">>}}

AlterObjects ==
  {Form(Loose(<<Spaced(<<"ALTER">> \o KindWords(kind)), Reference(kind, name),
                LooseWords(<<"RENAME", "TO">>), Other>>),
        [Type |-> "AlterObject", Kind |-> kind, OldName |-> KeyOf(kind),
         NewName |-> <<"w">> \o Tail(KeyOf(kind))]) :
     kind \in ObjectKinds, name \in Spelling}
  \cup {Form(Loose(<<Spaced(<<"ALTER">> \o KindWords(kind)), Reference(kind, name),
                     IF kind = "EXTENSION" THEN <<"UPDATE">> ELSE LooseWords(<<"SET", "a">>)>>),
             KeptAlter(kind, KeyOf(kind), <<>>)) :
          kind \in KeepsAlters, name \in Spelling}
=============================================================================
