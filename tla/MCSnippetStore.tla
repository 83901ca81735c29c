--------------------------- MODULE MCSnippetStore ---------------------------
(* Instances of SnippetStore for TLC. *)
EXTENDS SnippetStore, TLC

(* Calls, titles and identifiers are interchangeable. *)
Symmetry ==
    Permutations(Requests) \cup Permutations(Snippets)
        \cup Permutations(ShortIds) \cup Permutations(Users)
        \cup Permutations(Titles)
=============================================================================
