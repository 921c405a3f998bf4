------------------------------ MODULE GoStrings ------------------------------
(***************************************************************************)
(* What Split and Parse use of Go's strings package, on texts that are     *)
(* sequences: of characters for Split, of lexemes for Parse.  "nl" and     *)
(* "sp" are the newline and the space.  Positions count from 1.            *)
(***************************************************************************)
EXTENDS Naturals, Sequences, SequencesExt

Blank == {"nl", "sp"}

(* strings.Trim; strings.TrimSpace                                         *)
Trim(s, cutset) ==
  LET kept == {p \in DOMAIN s : s[p] \notin cutset} IN
  IF kept = {} THEN <<>> ELSE SubSeq(s, Min(kept), Max(kept))

TrimSpace(s) == Trim(s, Blank)

(* strings.TrimSuffix                                                      *)
TrimSuffix(s, suffix) ==
  IF IsSuffix(suffix, s) THEN SubSeq(s, 1, Len(s) - Len(suffix)) ELSE s

(* strings.Index, as the positions from `from' on where pat stands in t    *)
Places(t, pat, from) ==
  {p \in from..(Len(t) - Len(pat) + 1) : SubSeq(t, p, p + Len(pat) - 1) = pat}

(* strings.HasPrefix of one word of the texts by another                   *)
BeginsWith(lexeme, word) ==
  \/ lexeme = word
  \/ <<word, lexeme>> \in {<<"TABLE", "TABLESPACE">>, <<"CHECK", "checksum">>}
=============================================================================
