------------------------------ MODULE Catalog ------------------------------
(***************************************************************************)
(* What one registry of merger/schema promises its callers, whatever slice *)
(* and index it keeps: a dictionary from names to definitions, changed one *)
(* name at a time, that refuses some requests.  The detailed registries    *)
(* (SequenceRegistry, TypeRegistry, ObjectRegistry) are shown to implement *)
(* it.                                                                     *)
(***************************************************************************)
CONSTANTS Key, Definition

VARIABLES
  catalog,    \* name -> definition, for the names that exist
  failed      \* a request was refused: the merge is over

vars == <<catalog, failed>>

TypeOK ==
  /\ DOMAIN catalog \subseteq Key
  /\ \A k \in DOMAIN catalog : catalog[k] \in Definition
  /\ failed \in BOOLEAN

Init ==
  /\ DOMAIN catalog = {}
  /\ failed = FALSE

Untouched(S) == \A k \in DOMAIN catalog \ S : catalog'[k] = catalog[k]

Define(k) ==
  /\ k \notin DOMAIN catalog
  /\ DOMAIN catalog' = DOMAIN catalog \cup {k}
  /\ catalog'[k] \in Definition
  /\ Untouched({})
  /\ UNCHANGED failed

Redefine(k) ==
  /\ k \in DOMAIN catalog
  /\ DOMAIN catalog' = DOMAIN catalog
  /\ catalog'[k] \in Definition
  /\ Untouched({k})
  /\ UNCHANGED failed

Remove(k) ==
  /\ k \in DOMAIN catalog
  /\ DOMAIN catalog' = DOMAIN catalog \ {k}
  /\ Untouched({k})
  /\ UNCHANGED failed

(* A rename carries the definition over to a name nothing else has. *)
Rename(k, new) ==
  /\ k \in DOMAIN catalog
  /\ new \notin DOMAIN catalog
  /\ DOMAIN catalog' = (DOMAIN catalog \ {k}) \cup {new}
  /\ catalog'[new] = catalog[k]
  /\ Untouched({k})
  /\ UNCHANGED failed

Refuse ==
  /\ failed' = TRUE
  /\ UNCHANGED catalog

Next ==
  /\ ~ failed
  /\ \/ \E k \in Key : Define(k) \/ Redefine(k) \/ Remove(k)
     \/ \E k, new \in Key : Rename(k, new)
     \/ Refuse

Spec == Init /\ [][Next]_vars
=============================================================================
