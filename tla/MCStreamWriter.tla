--------------------------- MODULE MCStreamWriter ---------------------------
(***************************************************************************)
(* A small StreamWriter for TLC: a compact and a pretty configuration,     *)
(* limits a short session of calls reaches, and one refused configuration. *)
(***************************************************************************)
EXTENDS StreamWriterProps

Limits == [pretty |-> FALSE, indentWidth |-> 2, maxOutput |-> 20, maxDepth |-> 3,
           maxNodes |-> 6, maxItems |-> 2, maxMembers |-> 2, maxString |-> 2, maxKey |-> 1]

MCOptions ==
  {Limits,
   [Limits EXCEPT !.pretty = TRUE, !.maxOutput = 24, !.maxNodes = 4],
   [Limits EXCEPT !.indentWidth = 5]}

\* Empty, one plain byte, a plain byte and an escape, and bytes that are not UTF-8.
MCTexts ==
  {[size |-> 0, valid |-> TRUE, pieces |-> << >>],
   [size |-> 2, valid |-> TRUE, pieces |-> <<1, 2>>],
   [size |-> 1, valid |-> FALSE, pieces |-> <<1>>]}

\* The fragments 7, [[]] and a malformed one.
MCFragments ==
  {[size |-> 1, valid |-> TRUE, nodes |-> 1, depth |-> 1],
   [size |-> 4, valid |-> TRUE, nodes |-> 2, depth |-> 2],
   [size |-> 1, valid |-> FALSE, nodes |-> 1, depth |-> 1]}
=============================================================================
