---------------------------- MODULE MCTomlValues ----------------------------
(***************************************************************************)
(* One key, two dotted keys that lead through it, and one that is too long.*)
(***************************************************************************)
EXTENDS TomlValuesProps

CONSTANTS a, b

MCKeys == {a, b}
MCPaths == {<<a>>, <<a, a>>, <<a, b>>, <<a, a, a, a>>}
=============================================================================
