--------------------------- MODULE MCTomlDocument ---------------------------
(***************************************************************************)
(* Two keys; a scalar, an inline table and an array of one inline table.   *)
(***************************************************************************)
EXTENDS TomlDocumentProps

CONSTANTS a, b

MCKeys == {a, b}
MCPaths == {<<a>>, <<b>>, <<a, a>>, <<a, b>>, <<a, a, a>>}

InlineTable == Marked(Table("implicit"))

MCValues ==
  {[content |-> [x \in {<<>>} |-> Leaf], count |-> 1, depth |-> 1],
   [content |-> [x \in {<<>>, <<a>>} |-> IF x = <<>> THEN InlineTable ELSE Marked(Leaf)],
    count |-> 2, depth |-> 2],
   [content |-> [x \in {<<>>, <<1>>, <<1, b>>} |->
                   IF x = <<>> THEN Array(1) ELSE IF x = <<1>> THEN InlineTable ELSE Marked(Leaf)],
    count |-> 3, depth |-> 3]}
=============================================================================
