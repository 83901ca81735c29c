---------------------------- MODULE MCSearchIndex ----------------------------
(* Instance of SearchIndex for TLC. *)
EXTENDS SearchIndex

CONSTANTS w1, w2

SomeTexts == {{w1}, {w1, w2}}
SomeQueries == {{w1, w2}}
=============================================================================
