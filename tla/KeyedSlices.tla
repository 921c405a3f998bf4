---------------------------- MODULE KeyedSlices ----------------------------
(***************************************************************************)
(* merger/schema keeps every kind of definition twice: in a slice, whose   *)
(* order is the order of emission, and in a map from the normalised name   *)
(* to the position in that slice (model.go: "normalized name -> index in   *)
(* Tables").  Every handler of schema.go updates the two by hand.  This    *)
(* module holds the map updates those handlers are written with, and the   *)
(* two relations a slice and its map can be in.                            *)
(*                                                                         *)
(* A slice is known here by `keys', the sequence of the keys of its        *)
(* elements; positions count from 1.                                       *)
(***************************************************************************)
EXTENDS Naturals, Sequences, SequencesExt

(* A slice whose elements are of no type that could be named, as the       *)
(* columns a table has after its ALTERs, is a sequence of what it holds.   *)
IsSlice(s) == s \in Seq(Range(s))

(* m[k] = i *)
Put(m, k, i) == [x \in DOMAIN m \cup {k} |-> IF x = k THEN i ELSE m[x]]

(* Mistake: the entry of the old name is left in the map. *)
DeleteForgotten(m, k) == m

(* delete(m, k) *)
Delete(m, k) == [x \in DOMAIN m \ {k} |-> m[x]]

Distinct(s) == \A i, j \in DOMAIN s : s[i] = s[j] => i = j

(* The positions from `from' on whose element has key k. *)
Occurrences(keys, k, from) == {i \in from..Len(keys) : keys[i] = k}

(* Mistake: the loop starts behind the first element that moved. *)
ReindexLate(m, keys, from) ==
  [k \in DOMAIN m \cup {keys[i] : i \in (from + 1)..Len(keys)} |->
     IF Occurrences(keys, k, from + 1) # {}
       THEN Max(Occurrences(keys, k, from + 1))
       ELSE m[k]]

(* Mistake: the loop ends at the number of entries of the map, which is    *)
(* that of the elements until a rename takes a name in use.                *)
ReindexByCount(m, keys, from) ==
  LET counted == SubSeq(keys, 1, Cardinality(DOMAIN m)) IN
  [k \in DOMAIN m \cup {counted[i] : i \in from..Len(counted)} |->
     IF Occurrences(counted, k, from) # {}
       THEN Max(Occurrences(counted, k, from))
       ELSE m[k]]

(* for i := from; i < len(slice); i++ { m[key of slice[i]] = i }           *)
(* Of two elements with one key, the later one is written last.            *)
Reindex(m, keys, from) ==
  [k \in DOMAIN m \cup {keys[i] : i \in from..Len(keys)} |->
     IF Occurrences(keys, k, from) # {}
       THEN Max(Occurrences(keys, k, from))
       ELSE m[k]]

-----------------------------------------------------------------------------
(* Every entry of the map points at an element that has the entry's key:   *)
(* no lookup reaches past the slice or returns another definition.         *)
Sound(m, keys) ==
  \A k \in DOMAIN m : m[k] \in 1..Len(keys) /\ keys[m[k]] = k

(* Every element is found under its key, so it can be altered and dropped. *)
Complete(m, keys) ==
  \A i \in 1..Len(keys) : keys[i] \in DOMAIN m /\ m[keys[i]] = i

Coherent(m, keys) == Sound(m, keys) /\ Complete(m, keys)
=============================================================================
