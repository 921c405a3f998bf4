------------------------------ MODULE Outcome ------------------------------
(***************************************************************************)
(* merger.Run applies statements until the first one that Parse or Apply   *)
(* refuses, and then returns the error: nothing is applied after it and    *)
(* nothing is written.  Every registry of merger/schema shares this flag.  *)
(***************************************************************************)
VARIABLE failed

Succeed == UNCHANGED failed

Refused == failed' = TRUE
=============================================================================
