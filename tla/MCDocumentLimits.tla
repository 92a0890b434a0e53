-------------------------- MODULE MCDocumentLimits --------------------------
(***************************************************************************)
(* Documents of five values; two inline places, so that an object of two   *)
(* members just fits and one of three spills; limits that are wide, just   *)
(* met and exceeded.                                                       *)
(***************************************************************************)
EXTENDS DocumentLimits, TLC

CONSTANTS a, b, c

MCKeys == {a, b, c}
MCKeySize(k) == IF k = c THEN 4 ELSE 1

Limits(n, depth, string, key, items, members) ==
  [maxNodes |-> n, maxDepth |-> depth, maxString |-> string, maxKey |-> key,
   maxItems |-> items, maxMembers |-> members]
With(limits, reject, enforce) ==
  [maxNodes |-> limits.maxNodes, maxDepth |-> limits.maxDepth, maxString |-> limits.maxString,
   maxKey |-> limits.maxKey, maxItems |-> limits.maxItems, maxMembers |-> limits.maxMembers,
   reject |-> reject, enforce |-> enforce]

\* No limit in reach but the depth; texts of ten bytes and less exceed none; all tight.
Wide == Limits(99, 3, 99, 99, 99, 99)
Middle == Limits(10, 2, 10, 10, 10, 10)
ShortKeys == Limits(99, 3, 99, 3, 99, 99)
Tight == Limits(4, 2, 1, 3, 1, 3)

MCOptions ==
  {With(Wide, TRUE, TRUE), With(Middle, FALSE, TRUE), With(ShortKeys, FALSE, TRUE),
   With(Tight, TRUE, TRUE), With(Tight, TRUE, FALSE), With(Tight, FALSE, FALSE)}

Symmetry == Permutations({a, b})
=============================================================================
