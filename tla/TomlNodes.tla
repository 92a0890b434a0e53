----------------------------- MODULE TomlNodes ------------------------------
(***************************************************************************)
(* The tree of a TOML document as a function from addresses to nodes.  An  *)
(* address is the way from the root to a node: keys, and the indices of    *)
(* array elements.                                                         *)
(***************************************************************************)
EXTENDS Integers, Sequences, FiniteSets

CONSTANT Keys

Address == Seq(Keys \cup Nat)

\* The keys of address x, without the indices.
KeysTo(x, i) == {j \in 1 .. i : x[j] \in Keys}
Names(x) ==
  [k \in 1 .. Cardinality(KeysTo(x, Len(x))) |->
     x[CHOOSE i \in KeysTo(x, Len(x)) : Cardinality(KeysTo(x, i)) = k]]

\* Address x takes the last element of every array on its way.
Latest(t, x) == \A i \in 1 .. Len(x) : x[i] \in Nat => x[i] = t[SubSeq(x, 1, i - 1)].size

Definitions == {"implicit", "dotted_key", "explicit_table", "array_element", "inline_table"}

\* size: the number of elements of an array.
Node == [kind : {"table", "array", "leaf"}, inline : BOOLEAN, arrayTable : BOOLEAN,
         definition : Definitions, size : Nat]

Table(definition) == [kind |-> "table", inline |-> FALSE, arrayTable |-> FALSE,
                      definition |-> definition, size |-> 0]
ArrayTable(size) == [kind |-> "array", inline |-> FALSE, arrayTable |-> TRUE,
                     definition |-> "implicit", size |-> size]
Array(size) == [ArrayTable(size) EXCEPT !.arrayTable = FALSE]
Leaf == [Array(0) EXCEPT !.kind = "leaf"]

\* A node of an inline table that is closed.
Marked(n) == [n EXCEPT !.inline = TRUE, !.definition = "inline_table"]

NoNodes == [x \in {} |-> x]

Put(t, x, n) == [y \in DOMAIN t \cup {x} |-> IF y = x THEN n ELSE t[y]]

\* Tree t with the nodes of content c at and below address x.
Graft(t, x, c) ==
  LET below == {x \o y : y \in DOMAIN c}
  IN [y \in DOMAIN t \cup below |->
        IF y \in below THEN c[SubSeq(y, Len(x) + 1, Len(y))] ELSE t[y]]

\* Node n may hold something under key or index k.
MayHold(n, k) == IF k \in Keys THEN n.kind = "table" ELSE n.kind = "array" /\ k \in 1 .. n.size

\* All that leads to a node is there and may hold it, and arrays are complete.
IsTree(t) ==
  /\ <<>> \in DOMAIN t
  /\ \A x \in DOMAIN t :
       /\ x \in Address /\ t[x] \in Node
       /\ \A i \in 0 .. Len(x) - 1 :
            SubSeq(x, 1, i) \in DOMAIN t /\ MayHold(t[SubSeq(x, 1, i)], x[i + 1])
       /\ t[x].kind = "array" => \A i \in 1 .. t[x].size : Append(x, i) \in DOMAIN t

\* A parsed value: its nodes, at addresses relative to its own, and what
\* ParseContext counted: the values in it and how deep they are nested.
IsValue(v) ==
  /\ IsTree(v.content)
  /\ \A x \in DOMAIN v.content :
       ~ v.content[x].arrayTable /\ (v.content[x].kind = "table" => v.content[x].inline)
  /\ v.count \in Nat /\ v.depth \in Nat
=============================================================================
