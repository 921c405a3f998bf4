--------------------------- MODULE MCTypeRegistry ---------------------------
(* A quoted name matters where a composite type is renamed or dropped; it  *)
(* stays out of the run that is about the two maps together.               *)
EXTENDS TypeRegistry

CONSTANTS a, b, c, text

MCQuotedToken == {plain(a), quoted(a), plain(b)}

(* The third name is for a rename while two types are there. *)
MCThreeToken == {plain(a), plain(b), plain(c)}
=============================================================================
