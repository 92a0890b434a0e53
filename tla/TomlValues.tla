---------------------------- MODULE TomlValues -----------------------------
(***************************************************************************)
(* How ValueParser reads one value of an assignment: arrays and inline     *)
(* tables nested in each other, with the limits of ParseOptions counted on *)
(* the way.  A frame stands for a call of parseArray() or                  *)
(* parseInlineTable(); which token comes next is open, the characters of   *)
(* scalars and keys are left out.                                          *)
(*                                                                         *)
(* at, assigned, said and clash are history: where a container is in the   *)
(* value, the key paths assigned in it, where values have ended, whether a *)
(* path has been assigned against another of its table.                    *)
(***************************************************************************)
EXTENDS TomlNodes

CONSTANTS
  Paths,      \* the key paths of inline tables
  Sizes,      \* the sizes of strings
  MaxDepth, MaxNodes, MaxItems, MaxString   \* of ParseOptions

ASSUME ValuesAssumption ==
  /\ Keys \cap Nat = {}
  /\ Paths \subseteq Seq(Keys) \ {<<>>} /\ Sizes \subseteq Nat
  /\ {MaxDepth, MaxNodes, MaxItems, MaxString} \subseteq Nat

VARIABLES
  doing,     \* what is read next, or what has come of the value
  frames,    \* the containers that are open, the innermost last
  parsed,    \* the content of the value that has just been read
  depth,     \* ParseContext::depth
  nodes,     \* ParseContext::nodes
  newlines,  \* allow_newlines_
  said, clash

vars == <<doing, frames, parsed, depth, nodes, newlines, said, clash>>

\* A frame: the content so far, the key path whose value is being read,
\* allow_newlines_ before the array or the member, and the history.
Top == frames[Len(frames)]
InArray == Top.content[<<>>].kind = "array"
Closed == SubSeq(frames, 1, Len(frames) - 1)
Replaced(f) == Append(Closed, f)

\* Where the next value belongs, in its container.
Slot(f) == IF f.content[<<>>].kind = "array" THEN <<f.content[<<>>].size + 1>> ELSE f.path

Position == IF frames = <<>> THEN <<>> ELSE Top.at \o Slot(Top)

\* An error: the calls that are open return, and their guards set back what they
\* have changed.
Ends(outcome) ==
  /\ doing' = outcome
  /\ frames' = <<>> /\ parsed' = NoNodes
  /\ depth' = depth - Len(frames) /\ newlines' = TRUE
  /\ UNCHANGED <<nodes, said>>

Limit == Ends("limit") /\ UNCHANGED clash

-----------------------------------------------------------------------------
(* parseValue().                                                           *)

TooDeep == doing = "value" /\ depth >= MaxDepth /\ Limit

\* The value at x has been read and is counted: it goes to rest, the frames left.
Ended(x, content, rest) ==
  /\ parsed' = content
  /\ nodes' = nodes + 1
  /\ said' = Append(said, x)
  /\ frames' = rest
  /\ doing' = IF rest = <<>> THEN "done" ELSE "put"

ReadScalar(size) ==
  /\ doing = "value" /\ depth < MaxDepth
  /\ \/ (nodes >= MaxNodes \/ size > MaxString) /\ Limit
     \/ /\ nodes < MaxNodes /\ size <= MaxString
        /\ Ended(Position, [x \in {<<>>} |-> Leaf], frames)
        /\ UNCHANGED <<depth, newlines, clash>>

OpenContainer(n, allowed) ==
  /\ doing = "value" /\ depth < MaxDepth
  /\ depth' = depth + 1
  /\ frames' = Append(frames, [content |-> [x \in {<<>>} |-> n], path |-> <<>>,
                               previous |-> newlines, at |-> Position, assigned |-> {}])
  /\ newlines' = allowed
  /\ doing' = "item"
  /\ UNCHANGED <<parsed, nodes, said, clash>>

OpenArray == OpenContainer(Array(0), TRUE)

OpenTable == OpenContainer(Table("implicit"), newlines)

\* Mutants: marks the table, but not what is in it; keeps no count of the depth.
MarkRoot(c) == [c EXCEPT ![<<>>] = Marked(@)]
DepthKept == depth

\* markInlineTable()
MarkInlineTable(c) == [x \in DOMAIN c |-> Marked(c[x])]

DepthBefore == depth - 1

\* An array may end after a comma, a table may not.
MayClose == doing = "next" \/ (doing = "item" /\ (InArray \/ Top.assigned = {}))

Close ==
  /\ MayClose
  /\ \/ nodes >= MaxNodes /\ Limit
     \/ /\ nodes < MaxNodes
        /\ Ended(Top.at, IF InArray THEN Top.content ELSE MarkInlineTable(Top.content), Closed)
        /\ depth' = DepthBefore
        /\ newlines' = IF InArray THEN Top.previous ELSE newlines
        /\ UNCHANGED clash

-----------------------------------------------------------------------------
(* parseArray() and parseInlineTable().                                    *)

Goes(next) ==
  doing' = next /\ parsed' = NoNodes /\ UNCHANGED <<depth, nodes, said>>

Element ==
  /\ doing = "item" /\ InArray
  /\ Goes("value") /\ UNCHANGED <<frames, newlines, clash>>

\* An array that is to have one element more.
Longer(c) == [c EXCEPT ![<<>>].size = @ + 1]

PutElement ==
  /\ doing = "put" /\ InArray
  /\ \/ Top.content[<<>>].size >= MaxItems /\ Limit
     \/ /\ Top.content[<<>>].size < MaxItems
        /\ frames' = Replaced([Top EXCEPT !.content = Graft(Longer(@), Slot(Top), parsed)])
        /\ Goes("next") /\ UNCHANGED <<newlines, clash>>

Key(p) ==
  /\ doing = "item" /\ ~ InArray
  /\ \/ Len(p) > MaxDepth /\ Limit
     \/ /\ Len(p) <= MaxDepth
        /\ frames' = Replaced([Top EXCEPT !.path = p, !.previous = newlines])
        /\ newlines' = FALSE
        /\ Goes("value") /\ UNCHANGED clash

\* Mutants: walks into whatever is not inline; a member replaces the one before;
\* line breaks stay forbidden once a member has been read.
MayPassOpen(n) == ~ n.inline
MayReplace(c, x) == TRUE
NewlinesInside == newlines

NewlinesAfter == Top.previous

\* A dotted key may lead through a node, or put a value at address x.
MayPass(n) == n.kind = "table" /\ ~ n.inline
MayPut(c, x) == x \notin DOMAIN c

StartsWith(p, q) == Len(q) <= Len(p) /\ SubSeq(p, 1, Len(q)) = q

\* insertValueAt()
Way(p) == {SubSeq(p, 1, i) : i \in 1 .. Len(p) - 1}
Inserts(c, p) == (\A x \in Way(p) \cap DOMAIN c : MayPass(c[x])) /\ MayPut(c, p)

\* Mutant: a dotted key begins its tables anew.
WithNewWay(c, p) ==
  [x \in {y \in DOMAIN c : \A z \in Way(p) : ~ StartsWith(y, z)} \cup Way(p) |->
     IF x \in Way(p) THEN Table("dotted_key") ELSE c[x]]

WithWay(c, p) ==
  [x \in DOMAIN c \cup Way(p) |-> IF x \in DOMAIN c THEN c[x] ELSE Table("dotted_key")]

PutMember ==
  /\ doing = "put" /\ ~ InArray
  /\ clash' = (\E q \in Top.assigned : StartsWith(q, Top.path) \/ StartsWith(Top.path, q))
  /\ \/ ~ Inserts(Top.content, Top.path) /\ Ends("conflict")
     \/ /\ Inserts(Top.content, Top.path)
        /\ frames' = Replaced([Top EXCEPT
             !.content = Graft(WithWay(@, Top.path), Top.path, parsed),
             !.assigned = @ \cup {Top.path}])
        /\ newlines' = NewlinesAfter
        /\ Goes("next")

Comma == doing = "next" /\ Goes("item") /\ UNCHANGED <<frames, newlines, clash>>

\* Whatever else may be wrong with the text.
Malformed == doing \in {"value", "item", "next"} /\ Ends("malformed") /\ UNCHANGED clash

-----------------------------------------------------------------------------
Init ==
  /\ doing = "value" /\ frames = <<>> /\ parsed = NoNodes
  /\ depth = 0 /\ nodes = 0 /\ newlines = TRUE
  /\ said = <<>> /\ clash = FALSE

Next ==
  \/ TooDeep \/ (\E size \in Sizes : ReadScalar(size)) \/ OpenArray \/ OpenTable \/ Close
  \/ Element \/ PutElement \/ (\E p \in Paths : Key(p)) \/ PutMember \/ Comma
  \/ Malformed

Spec == Init /\ [][Next]_vars
=============================================================================
