------------------------------ MODULE MCParser ------------------------------
(* The forms of statements, and the layouts they are tried in.             *)
EXTENDS TableForms

MCLowerCase == "V" :> "v"

MCGaps == {<<"sp">>, <<"nl">>, <<"sp", "nl">>}

(* Where a pattern ends at a newline there is a space: what stands on the  *)
(* following lines is lost (README, known deviations).                     *)
MCSpace == {<<"sp">>}

MCForms ==
  DropTables \cup Truncates \cup CreateIndexes \cup Drops \cup CreateTypes \cup AlterTypes
    \cup DropObjects \cup AlterObjects \cup PassThrough
    \cup TablesOfColumn(Inline) \cup AlterTables(TableActions)
    \cup AlterTables(ColumnActions(TRUE))
    \cup UNION {Renames(guarded) \cup CreateSequences(guarded) \cup AlterSequences(guarded)
                  \cup CreateObjects(guarded) \cup CreateTables(guarded) : guarded \in BOOLEAN}

MCGuardedTables == {form \in CreateTables(TRUE) : form.means.Type = "CreateTable"}
=============================================================================
