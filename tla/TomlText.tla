------------------------------ MODULE TomlText ------------------------------
(***************************************************************************)
(* The lines that appendTable() writes of a tree of nodes, one a step, and *)
(* the tables that the parser makes of each.  The loops and recursive      *)
(* calls that are under way are the lines they still have to write, a loop *)
(* over the elements of an array being the line of the next one.           *)
(*                                                                         *)
(* at is history: the address of the table whose loop the line is of.      *)
(***************************************************************************)
EXTENDS TomlNodes, SequencesExt, Functions

CONSTANT InOrder(_)   \* a set of keys, as std::map orders them

ASSUME TextAssumption ==
  /\ Keys \cap Nat = {}
  /\ \A keys \in SUBSET Keys :
       IsFiniteSet(keys) => /\ InOrder(keys) \in Seq(keys) /\ IsInjective(InOrder(keys))
                            /\ \A k \in keys : \E i \in 1 .. Len(InOrder(keys)) : InOrder(keys)[i] = k

VARIABLES
  todo,             \* the lines still to be written of the calls under way
  tree, current, outcome   \* the tables that have been read

textVars == <<todo, tree, current, outcome>>

Reader == INSTANCE TomlStatements WITH Paths <- {}, Contents <- {}

IsSection(n) == n[1] = "table" /\ ~ n[3]

\* tableArray()
TableArray(n) ==
  n[1] = "array" /\ n[3] /\ n[2] # <<>> /\ \A i \in 1 .. Len(n[2]) : IsSection(n[2][i])

\* Mutant: the loop that writes the assignments does not leave out the tables.
TablesToo(n) == ~ TableArray(n)

IsInline(n) == ~ IsSection(n) /\ ~ TableArray(n)

\* One of the three loops over the members of a table, section being its path.
Loop(call, keys, table, section, at) ==
  LET order == InOrder(keys)
  IN [i \in 1 .. Len(order) |->
        [call |-> call, key |-> order[i], node |-> table[order[i]], number |-> 1,
         section |-> section, at |-> at]]

Assignments(table, section, at) ==
  Loop("assign", {k \in DOMAIN table : IsInline(table[k])}, table, section, at)
Sections(table, section, at) ==
  Loop("open", {k \in DOMAIN table : IsSection(table[k])}, table, section, at)
ElementSections(table, section, at) ==
  Loop("append", {k \in DOMAIN table : TableArray(table[k])}, table, section, at)

\* Mutant: the tables are written before the assignments.
SectionsFirst(table, section, at) ==
  Sections(table, section, at) \o Assignments(table, section, at)
    \o ElementSections(table, section, at)

\* appendTable()
Lines(table, section, at) ==
  Assignments(table, section, at) \o Sections(table, section, at)
    \o ElementSections(table, section, at)

\* The content of a value, as far as the headers that follow can tell.
Content(n) ==
  [x \in {<<>>} |->
     [kind |-> IF n[1] \in {"array", "table"} THEN n[1] ELSE "leaf", inline |-> n[1] = "table",
      arrayTable |-> FALSE, definition |-> "implicit",
      size |-> IF n[1] = "array" THEN Len(n[2]) ELSE 0, value |-> n]]

-----------------------------------------------------------------------------
InitText == todo = <<>> /\ Reader!Init

\* serialize() of a document.
Begin(root) ==
  /\ InitText
  /\ todo' = Lines(root[2], <<>>, <<>>)
  /\ UNCHANGED <<tree, current, outcome>>

IsNext(call) == todo # <<>> /\ Head(todo).call = call

\* key = value; n is what the text of the value parses to.
WriteAssignment(n) ==
  /\ IsNext("assign")
  /\ Reader!Assign(<<Head(todo).key>>, Content(n))
  /\ todo' = Tail(todo)

\* The path that a header names, and the address of what it opens.
Header(l) == Append(l.section, l.key)
Slot(l) == Append(l.at, l.key)

WriteHeader ==
  /\ IsNext("open")
  /\ LET l == Head(todo)
     IN /\ Reader!OpenTable(Header(l))
        /\ todo' = Lines(l.node[2], Header(l), Slot(l)) \o Tail(todo)

\* Mutant: the last element is left out.
AllButLast(l) ==
  IF l.number < Len(l.node[2]) - 1 THEN <<[l EXCEPT !.number = @ + 1]>> ELSE <<>>

\* What is left of a loop over elements.
NextElements(l) ==
  IF l.number < Len(l.node[2]) THEN <<[l EXCEPT !.number = @ + 1]>> ELSE <<>>

WriteElementHeader ==
  /\ IsNext("append")
  /\ LET l == Head(todo)
     IN /\ Reader!OpenArrayTable(Header(l))
        /\ todo' = Lines(l.node[2][l.number][2], Header(l), Append(Slot(l), l.number))
                     \o NextElements(l) \o Tail(todo)

WriteText(n) == WriteAssignment(n) \/ WriteHeader \/ WriteElementHeader
=============================================================================
