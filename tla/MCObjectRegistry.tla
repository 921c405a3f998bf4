-------------------------- MODULE MCObjectRegistry --------------------------
(* Two names of objects.                                                     *)
EXTENDS ObjectRegistry

CONSTANTS a, b, text

MCToken == {plain(a), plain(b)}
=============================================================================
