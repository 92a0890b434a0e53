-------------------------- MODULE TomlValuesProps ---------------------------
(***************************************************************************)
(* What a value under construction is to be.                               *)
(***************************************************************************)
EXTENDS TomlValues, FiniteSets

Said == {said[i] : i \in 1 .. Len(said)}

Prefixes(x) == {SubSeq(x, 1, i) : i \in 0 .. Len(x)}

\* The types, and the shape of every content: no std::get of insertValueAt()
\* finds another alternative than a table (line 1040).
TypeOK ==
  /\ doing \in {"value", "item", "put", "next", "done", "limit", "conflict", "malformed"}
  /\ \A i \in 1 .. Len(frames) :
       /\ IsTree(frames[i].content) /\ frames[i].content[<<>>].kind # "leaf"
       /\ frames[i].path \in Paths \cup {<<>>} /\ frames[i].previous \in BOOLEAN
  /\ doing \in {"put", "done"} => IsTree(parsed)
  /\ depth \in 0 .. MaxDepth /\ nodes \in 0 .. MaxNodes
  /\ newlines \in BOOLEAN /\ clash \in BOOLEAN /\ said \in Seq(Address)

\* A member is refused exactly when its path and that of an earlier member of the
\* table are equal or one leads through the other, in whatever order, and however
\* the tables on the way came to be (lines 1031-1042, 1612).
ConflictsExact == clash <=> doing = "conflict"

\* The value is made of all the values read in it, each where the text has it, and
\* of the tables that dotted keys imply; nothing has replaced anything, and whatever
\* is not such a table has been counted (lines 1024-1046, 1204-1218).
NothingLost ==
  doing = "done" =>
    /\ DOMAIN parsed = UNION {Prefixes(x) : x \in Said}
    /\ \A x \in DOMAIN parsed : parsed[x].kind # "table" => x \in Said

\* What a later line may not add to is marked, and nothing else: all of an inline
\* table, whether a dotted key, an array or another inline table holds it, and no
\* table is left that is not in one (lines 404-417; what TomlDocument relies on).
Sealed ==
  doing = "done" =>
    /\ IsValue([content |-> parsed, count |-> nodes, depth |-> depth])
    /\ \A x \in DOMAIN parsed :
         /\ parsed[x].inline <=> \E y \in Prefixes(x) : parsed[y].kind = "table"
         /\ parsed[x].inline <=> parsed[x].definition = "inline_table"

\* The counts of ParseContext: a level for each container that is open, a node for
\* each value that has ended.
Counted == depth = Len(frames) /\ nodes = Len(said)

\* The counts are those of the text; a value that is accepted keeps within the
\* limits all together (lines 1204-1218, 1524, 1599).
LimitsExact ==
  /\ Counted
  /\ doing = "done" =>
       /\ \A x \in Said : Cardinality(Said \cap Prefixes(x)) <= MaxDepth
       /\ \A x \in DOMAIN parsed : parsed[x].size <= MaxItems

\* Line breaks may stand before a value exactly when its container is an array,
\* whatever has been read and left before it (lines 1511, 1606).
LineBreaks == doing = "value" => newlines = (frames = <<>> \/ InArray)
=============================================================================
