---------------------------- MODULE Identifiers ----------------------------
(***************************************************************************)
(* SQL identifiers as the parser cuts them out of a statement, and the two *)
(* key functions of merger/schema/schema.go.  A token is abstracted to     *)
(* what the key functions tell apart: the letters up to case, whether one  *)
(* of them is upper case, and whether the token stands between quotes.     *)
(***************************************************************************)

CONSTANT Token      \* the identifier tokens that occur in the statements

ASSUME TokenAssumption ==
  \A t \in Token :
    t \in [letters : {t.letters}, upper : BOOLEAN, quoted : BOOLEAN]

(* strings.ToLower *)
ToLower(t) == [t EXCEPT !.upper = FALSE]

(* TrimSpace, strip the double quotes, lower the case. *)
normIdent(t) == [letters |-> t.letters, upper |-> FALSE, quoted |-> FALSE]

NormalToken == {normIdent(t) : t \in Token}

(* "KIND:name": the name is lowered, and its quotes stay. *)
objectKey(kind, t) == <<kind, ToLower(t)>>

(* The keys of the elements of a slice, in the order of the slice.          *)
normKeys(slice) == [i \in DOMAIN slice |-> normIdent(slice[i].Name)]
objectKeys(slice) ==
  [i \in DOMAIN slice |-> objectKey(slice[i].Kind, slice[i].Name)]

(* The tokens a and "a". *)
plain(l) == [letters |-> l, upper |-> FALSE, quoted |-> FALSE]
quoted(l) == [letters |-> l, upper |-> FALSE, quoted |-> TRUE]
=============================================================================
