--------------------------- MODULE TomlStatements ---------------------------
(***************************************************************************)
(* The tables of a TOML document, one statement a step: what a header or   *)
(* an assignment adds to the tree, and when it conflicts with what earlier *)
(* statements have said.  A statement adds everything it is to add or,     *)
(* when it conflicts, nothing.                                             *)
(***************************************************************************)
EXTENDS TomlNodes, SequencesExt

CONSTANTS Paths, Contents

VARIABLES tree, current, outcome

vars == <<tree, current, outcome>>

Merge(t, u) == [x \in DOMAIN t \cup DOMAIN u |-> IF x \in DOMAIN u THEN u[x] ELSE t[x]]

Tables(D, definition) == [x \in D |-> Table(definition)]

Open(x) == tree[x].kind = "table" /\ ~ tree[x].inline

\* The last open table on the way of path p from the root.
Furthest(p) ==
  LET way == {x \in DOMAIN tree : Open(x) /\ Latest(tree, x) /\ IsPrefix(Names(x), p)}
  IN CHOOSE x \in way : \A y \in way : Len(Names(y)) <= Len(Names(x))

\* What is left of the path there, and the addresses it leads along.
Left(x, p) == SubSeq(p, Len(Names(x)) + 1, Len(p))
Along(x, p) == {x \o SubSeq(p, 1, i) : i \in 1 .. Len(p)}

\* The way goes on from table x when the next key is new there.
Free(x, p) == Left(x, p) # <<>> => Append(x, Head(Left(x, p))) \notin DOMAIN tree

\* The tree with new tables for what is left of the path.
Opened(x, p) == Merge(tree, Tables(Along(x, Left(x, p)), "implicit"))

-----------------------------------------------------------------------------
\* [p]: what it names is new, or a table that a longer header implied.
MayOpen(x, p) ==
  /\ Free(x, p)
  /\ Left(x, p) = <<>> => tree[x].definition = "implicit"

OpenTable(p) ==
  /\ outcome = <<"open", <<>>>> /\ outcome' = outcome
  /\ LET x == Furthest(p)
         target == x \o Left(x, p)
     IN /\ current' = target
        /\ MayOpen(x, p)
        /\ tree' = Merge(Opened(x, p), Tables({target}, "explicit_table"))

\* [[p]]: the array it names is new, or one of tables.
ArrayOf(x, p) == Append(x \o Left(x, Front(p)), p[Len(p)])

MayAppend(x, p) ==
  /\ Free(x, Front(p))
  /\ ArrayOf(x, p) \in DOMAIN tree => tree[ArrayOf(x, p)].arrayTable

Appended(array) ==
  [kind |-> "array", inline |-> FALSE, arrayTable |-> TRUE, definition |-> "implicit",
   size |-> IF array \in DOMAIN tree THEN tree[array].size + 1 ELSE 1]

OpenArrayTable(p) ==
  /\ outcome = <<"open", <<>>>> /\ outcome' = outcome
  /\ LET x == Furthest(Front(p))
         array == ArrayOf(x, p)
         element == Append(array, Appended(array).size)
     IN /\ current' = element
        /\ MayAppend(x, p)
        /\ tree' = Merge(Opened(x, Front(p)),
                         [y \in {array, element} |->
                            IF y = element THEN Table("array_element") ELSE Appended(array)])

\* p = c: the tables on its way are open or new, and what it names is new.
MayAssign(p) ==
  /\ \A x \in Along(current, Front(p)) \cap DOMAIN tree : Open(x)
  /\ current \o p \notin DOMAIN tree

Assign(p, c) ==
  /\ outcome = <<"open", <<>>>> /\ UNCHANGED <<current, outcome>>
  /\ MayAssign(p)
  /\ tree' = Merge(Merge(Tables(Along(current, Front(p)), "dotted_key"), tree),
                   [x \in {current \o p \o y : y \in DOMAIN c} |->
                      c[SubSeq(x, Len(current \o p) + 1, Len(x))]])

\* A statement that conflicts is the last, and nothing of it is seen.
Conflict(p) ==
  /\ outcome = <<"open", <<>>>>
  /\ \/ outcome' = <<"cannotOpen", p>> /\ ~ MayOpen(Furthest(p), p)
     \/ outcome' = <<"cannotAppend", p>> /\ ~ MayAppend(Furthest(Front(p)), p)
     \/ outcome' = <<"cannotInsert", p>> /\ ~ MayAssign(p)
  /\ UNCHANGED <<tree, current>>

End ==
  /\ outcome = <<"open", <<>>>>
  /\ outcome' \in {"malformed", "finished"} \X {<<>>}
  /\ UNCHANGED <<tree, current>>

Init ==
  /\ tree = Tables({<<>>}, "implicit")
  /\ current = <<>> /\ outcome = <<"open", <<>>>>

Next ==
  \/ \E p \in Paths : \/ OpenTable(p) \/ OpenArrayTable(p) \/ Conflict(p)
                      \/ \E c \in Contents : Assign(p, c)
  \/ End

Spec == Init /\ [][Next]_vars
=============================================================================
