---------------------------- MODULE TomlDocument ----------------------------
(***************************************************************************)
(* How toml::deserialize builds the tables of a document: DocumentParser,  *)
(* line by line, and open_table(), open_array_table() and insertValueAt(), *)
(* component by component of a key path, which create tables as they walk. *)
(*                                                                         *)
(* A pointer to a table is its address.  header, opened, dotted and before *)
(* are history variables: the last header, the tables that headers and     *)
(* dotted keys have defined, the tree before this line.                    *)
(***************************************************************************)
EXTENDS TomlNodes

CONSTANTS
  Paths,      \* the key paths of the lines
  Values,     \* what the values of the lines parse to
  MaxDepth, MaxNodes,   \* of ParseOptions
  MaxLines    \* bounds the lines of the document

ASSUME DocumentAssumption ==
  /\ Keys \cap Nat = {}
  /\ Paths \subseteq Seq(Keys) \ {<<>>}
  /\ \A v \in Values : IsValue(v)
  /\ {MaxDepth, MaxNodes, MaxLines} \subseteq Nat

VARIABLES
  tree,      \* the node at each address
  current,   \* current_table
  doing,     \* the call in progress, or what has come of the document
  path,      \* the components that the call has yet to walk
  table,     \* the table that it has come to
  value,     \* the content it is to insert
  nodes,     \* ParseContext::nodes
  lines,
  header, opened, dotted, before

walkVars == <<path, table, value>>
vars == <<tree, current, doing, walkVars, nodes, lines, header, opened, dotted, before>>

-----------------------------------------------------------------------------
(* The tree.                                                               *)

Exists(x) == x \in DOMAIN tree

\* Mutant: an inline table is a table like any other.
IsAnyTable(x) == Exists(x) /\ tree[x].kind = "table"

\* A table that headers and dotted keys may add to.
IsOpenTable(x) == Exists(x) /\ tree[x].kind = "table" /\ ~ tree[x].inline

\* Mutant: array->front().
FirstElement(x) == Append(x, 1)

LastElement(x) == Append(x, tree[x].size)

IsTableArray(x) ==
  /\ Exists(x) /\ tree[x].arrayTable /\ tree[x].kind = "array" /\ tree[x].size # 0
  /\ tree[LastElement(x)].kind = "table"

\* The node that the next component of the path names, at the table reached.
Target == Append(table, Head(path))

\* The table that a [header] is to define.
Terminal == doing = "open" /\ Len(path) = 1

\* Mutants: any table may be defined, or only one that is not there yet.
MayDefineAgain(x) == TRUE
MayDefineNew(x) == FALSE

MayDefine(x) == tree[x].definition = "implicit"

\* Mutant: any array may become an array of tables.
MayAppendToAny(x) == Exists(x) => tree[x].kind = "array"

MayAppend(x) == Exists(x) => tree[x].arrayTable

\* Mutant: a value replaces the one that is there.
MayReplace(x) == TRUE

MayEmplace(x) == ~ Exists(x)

-----------------------------------------------------------------------------
(* Lines.                                                                  *)

StartLine ==
  /\ doing = "idle" /\ lines < MaxLines
  /\ lines' = lines + 1
  /\ before' = tree

Ends(outcome) ==
  /\ doing' = outcome
  /\ UNCHANGED <<tree, current, walkVars, nodes, header, opened, dotted>>

Refusal == [open |-> "cannotOpen", openArray |-> "cannotAppend", insert |-> "cannotInsert"]

Conflict == Ends(Refusal[doing]) /\ UNCHANGED <<lines, before>>

\* The call returns to parse().
Return ==
  /\ doing' = "idle"
  /\ path' = <<>> /\ table' = <<>> /\ value' = NoNodes
  /\ UNCHANGED <<nodes, lines, header, before>>

\* parse_header(): the path is parsed, then the table opened.
ParseHeader(call, p) ==
  /\ StartLine
  /\ \/ Len(p) > MaxDepth /\ Ends("malformed")
     \/ /\ Len(p) <= MaxDepth
        /\ doing' = call /\ path' = p /\ table' = <<>>
        /\ header' = p
        /\ UNCHANGED <<tree, current, value, nodes, opened, dotted>>

\* Mutant: each value has a context of its own.
CountedAfresh(v) == v.count

Counted(v) == nodes + v.count

\* parse_assignment(): the path and the value are parsed, then the value inserted.
ParseAssignment(p, v) ==
  /\ StartLine
  /\ \/ (Len(p) > MaxDepth \/ v.depth > MaxDepth \/ Counted(v) > MaxNodes) /\ Ends("malformed")
     \/ /\ Len(p) <= MaxDepth /\ v.depth <= MaxDepth /\ Counted(v) <= MaxNodes
        /\ doing' = "insert" /\ path' = p /\ table' = current /\ value' = v.content
        /\ nodes' = Counted(v)
        /\ UNCHANGED <<tree, current, header, opened, dotted>>

\* Whatever else may be wrong with the text: a key, a value, the end of a line.
Malformed == doing = "idle" /\ Ends("malformed") /\ UNCHANGED <<lines, before>>

Finish == doing = "idle" /\ Ends("finished") /\ UNCHANGED <<lines, before>>

-----------------------------------------------------------------------------
(* open_table(), which open_array_table() calls for the parent.            *)

Walking == \/ doing = "open" /\ path # <<>>
           \/ doing = "openArray" /\ Len(path) > 1

\* On to the next component, with t for the tree and x for the table.
Walk(t, x) ==
  /\ tree' = t /\ table' = x /\ path' = Tail(path)
  /\ UNCHANGED <<current, doing, value, nodes, lines, header, opened, dotted, before>>

CreateTable ==
  /\ Walking /\ ~ Exists(Target)
  /\ Walk(Put(tree, Target, Table(IF Terminal THEN "explicit_table" ELSE "implicit")), Target)

EnterTable ==
  /\ Walking /\ IsOpenTable(Target) /\ (Terminal => MayDefine(Target))
  /\ Walk(IF Terminal THEN [tree EXCEPT ![Target].definition = "explicit_table"] ELSE tree,
          Target)

EnterLastElement ==
  /\ Walking /\ IsTableArray(Target) /\ ~ Terminal
  /\ Walk(tree, LastElement(Target))

CannotOpen ==
  /\ Walking /\ Exists(Target)
  /\ ~ (IsOpenTable(Target) /\ (Terminal => MayDefine(Target)))
  /\ ~ (IsTableArray(Target) /\ ~ Terminal)
  /\ Conflict

\* Back in parse(), which makes the table the current one.
Opened ==
  /\ doing = "open" /\ path = <<>>
  /\ current' = table
  /\ opened' = opened \cup {table}
  /\ Return
  /\ UNCHANGED <<tree, dotted>>

\* open_array_table(), once the parent is open.
AppendElement ==
  /\ doing = "openArray" /\ Len(path) = 1
  /\ MayAppend(Target)
  /\ LET size == IF Exists(Target) THEN tree[Target].size + 1 ELSE 1
         element == Append(Target, size)
     IN /\ tree' = Put(Put(tree, Target, ArrayTable(size)), element, Table("array_element"))
        /\ current' = element
  /\ Return
  /\ UNCHANGED <<opened, dotted>>

CannotAppend ==
  /\ doing = "openArray" /\ Len(path) = 1
  /\ ~ MayAppend(Target)
  /\ Conflict

-----------------------------------------------------------------------------
(* insertValueAt().                                                        *)

WalkDotted ==
  /\ doing = "insert" /\ Len(path) > 1
  /\ Exists(Target) => IsOpenTable(Target)
  /\ tree' = IF Exists(Target) THEN tree ELSE Put(tree, Target, Table("dotted_key"))
  /\ table' = Target /\ path' = Tail(path)
  /\ dotted' = dotted \cup {Target}
  /\ UNCHANGED <<current, doing, value, nodes, lines, header, opened, before>>

Insert ==
  /\ doing = "insert" /\ Len(path) = 1
  /\ MayEmplace(Target)
  /\ tree' = Graft(tree, Target, value)
  /\ Return
  /\ UNCHANGED <<current, opened, dotted>>

CannotInsert ==
  /\ doing = "insert"
  /\ IF Len(path) > 1 THEN Exists(Target) /\ ~ IsOpenTable(Target) ELSE ~ MayEmplace(Target)
  /\ Conflict

-----------------------------------------------------------------------------
Init ==
  /\ tree = [x \in {<<>>} |-> Table("implicit")]
  /\ current = <<>> /\ doing = "idle"
  /\ path = <<>> /\ table = <<>> /\ value = NoNodes
  /\ nodes = 0 /\ lines = 0
  /\ header = <<>> /\ opened = {} /\ dotted = {} /\ before = tree

Next ==
  \/ \E p \in Paths : \/ ParseHeader("open", p) \/ ParseHeader("openArray", p)
                      \/ \E v \in Values : ParseAssignment(p, v)
  \/ CreateTable \/ EnterTable \/ EnterLastElement \/ CannotOpen \/ Opened
  \/ AppendElement \/ CannotAppend
  \/ WalkDotted \/ Insert \/ CannotInsert
  \/ Malformed \/ Finish

Spec == Init /\ [][Next]_vars
=============================================================================
