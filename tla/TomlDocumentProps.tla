-------------------------- MODULE TomlDocumentProps -------------------------
(***************************************************************************)
(* What the tables of a document under construction are to be.             *)
(***************************************************************************)
EXTENDS TomlDocument, FiniteSets

\* The types, and the shape of the tree: what is below a node is what the node
\* may hold, and an array of tables holds open tables, so that no std::get of
\* open_table(), open_array_table() or insertValueAt() finds another alternative
\* (toml.hpp:1040, 2031, 2038, 2066).
TypeOK ==
  /\ IsTree(tree)
  /\ \A x \in DOMAIN tree :
       tree[x].arrayTable =>
         /\ tree[x] = ArrayTable(tree[x].size) /\ tree[x].size # 0
         /\ \A i \in 1 .. tree[x].size :
              tree[Append(x, i)].kind = "table" /\ ~ tree[Append(x, i)].inline
  /\ \A x \in {<<>>, current, table} : x \in DOMAIN tree /\ tree[x].kind = "table"
  /\ doing \in {"idle", "malformed", "finished"} \cup DOMAIN Refusal
               \cup {Refusal[c] : c \in DOMAIN Refusal}
  /\ path \in Seq(Keys) /\ header \in Seq(Keys)
  /\ \A x \in DOMAIN value : x \in Address /\ value[x] \in Node
  /\ nodes \in 0 .. MaxNodes /\ lines \in 0 .. MaxLines

\* Assignments go to the table that the last header names, in the last elements
\* of the arrays of tables on the way, and the pointer to it has stayed good: no
\* array has grown, and moved its elements, since it was taken (lines 1772-1797, 2067).
LinesGoUnderHeader ==
  doing \in {"idle", "insert"} =>
    /\ IsOpenTable(current)
    /\ Names(current) = header
    /\ Latest(tree, current) /\ Latest(tree, table)

\* Nothing that a line has said is lost: nodes stay, and stay what they are; an
\* array gets more elements, a table that a header implied may be defined.
Keeps ==
  [][\A x \in DOMAIN tree :
       /\ x \in DOMAIN tree'
       /\ tree'[x] = tree[x]
          \/ /\ tree[x].definition = "implicit" /\ ~ tree[x].inline
             /\ \/ tree'[x] = [tree[x] EXCEPT !.definition = "explicit_table"]
                \/ tree[x].arrayTable /\ tree'[x] = [tree[x] EXCEPT !.size = @ + 1]]_vars

\* What a line adds is below tables that may still be added to: never in an
\* inline table, in an array that is a value, or in an earlier element of an
\* array of tables (docs/toml-README.md:70, "重新打开内联表").
AddsBelowOpen ==
  [][\A x \in DOMAIN tree' \ DOMAIN tree :
       \A i \in 0 .. Len(x) - 1 :
         LET y == SubSeq(x, 1, i)
         IN y \in DOMAIN tree =>
              /\ ~ tree[y].inline
              /\ tree[y].kind = "table" \/ tree[y].arrayTable
              /\ x[i + 1] \in Nat => x[i + 1] = tree'[y].size]_vars

\* No [header] defines a table that a [header] or an element of an array of
\* tables has defined (docs/toml-README.md:70, "重复表定义").
DefinesOnce ==
  [][doing = "open" /\ doing' = "idle" =>
       current' \notin opened /\ tree[current'].definition # "array_element"]_vars

\* A table that a dotted key has defined is defined again by no [header]: the
\* definition that insertValueAt() records is there for open_table() to see.
DefinesDottedOnce ==
  [][doing = "open" /\ doing' = "idle" => current' \notin dotted]_vars

-----------------------------------------------------------------------------
(* A line at a time.                                                       *)

\* What has come of the document, and of the path of the line it ended with.
Outcome ==
  LET key == SubSeq(table, Len(current) + 1, Len(table)) \o path
  IN IF doing \in {"malformed", "finished"} THEN <<doing, <<>>>>
     ELSE IF doing = "cannotInsert" THEN <<doing, key>>
     ELSE IF doing \in {"cannotOpen", "cannotAppend"} THEN <<doing, header>>
     ELSE <<"open", <<>>>>

\* A line that has yet to end has done nothing, and so has one that conflicts.
Told == IF doing \in {"idle", "malformed", "finished"} THEN tree ELSE before

Statements ==
  INSTANCE TomlStatements WITH
    Contents <- {v.content : v \in Values}, tree <- Told, outcome <- Outcome

\* Component by component the calls do what their statement says at once: they
\* refuse it exactly when it conflicts (lines 1024-1043, 2011-2070).
Implements == Statements!Spec

\* The scalars and arrays that have been read as values, the tables left out that only
\* keys have brought about; each of a value's has been counted.
ValuesIn(t) == {x \in DOMAIN t : t[x].kind # "table" /\ ~ t[x].arrayTable}

ASSUME CountAssumption ==
  \A v \in Values : /\ IsFiniteSet(ValuesIn(v.content))
                    /\ Cardinality(ValuesIn(v.content)) <= v.count

\* max_nodes bounds the values of the document, not of each line (line 1215).
BoundedValues == Cardinality(ValuesIn(tree)) <= MaxNodes
=============================================================================
