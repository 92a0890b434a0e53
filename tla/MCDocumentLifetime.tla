------------------------- MODULE MCDocumentLifetime -------------------------
(***************************************************************************)
(* Small texts and options that tell the checks of a parse apart.          *)
(***************************************************************************)
EXTENDS DocumentLifetime, TLC

\* A small scalar, a text of two levels, one that needs more capacity, a malformed one.
MCTexts ==
  {[size |-> 1, depth |-> 1, wellFormed |-> TRUE],
   [size |-> 40, depth |-> 2, wellFormed |-> TRUE],
   [size |-> 3, depth |-> 3, wellFormed |-> TRUE],
   [size |-> 1, depth |-> 1, wellFormed |-> FALSE]}

MCOptions ==
  {[maxInput |-> 40, maxDepth |-> 3, enforce |-> TRUE],
   [maxInput |-> 2, maxDepth |-> 1, enforce |-> TRUE],
   [maxInput |-> 40, maxDepth |-> 2, enforce |-> FALSE]}

Symmetry == Permutations(States) \cup Permutations(Parsers) \cup Permutations(Handles)
=============================================================================
