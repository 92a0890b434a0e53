--------------------------- MODULE DocumentLimits ---------------------------
(***************************************************************************)
(* What json::parse and json::deserialize refuse of a well-formed text:    *)
(* json::parse walks the whole document with enforce_limits(), deserialize *)
(* only scans its structure when the text is too short to exceed a limit.  *)
(*                                                                         *)
(* The document is made up while it is walked, value by value in the order *)
(* of the text, and both walks see each value as it comes.  facts, a       *)
(* history variable, is what there is to say of the document so far.       *)
(***************************************************************************)
EXTENDS Integers, Sequences

CONSTANTS
  Keys, KeySize(_),
  StringSizes, ArraySizes, ObjectSizes,
  Options,          \* the ParseOptions
  InlineCapacity,   \* DuplicateKeyScan::inline_capacity
  ParserDepths,     \* what the thread's parser may allow, from earlier calls
  MaxValues         \* bounds the document

Option == [maxNodes : Nat, maxDepth : Nat, maxString : Nat, maxKey : Nat, maxItems : Nat,
           maxMembers : Nat, reject : BOOLEAN, enforce : BOOLEAN]

ASSUME LimitsAssumption ==
  /\ \A k \in Keys : KeySize(k) \in Nat
  /\ StringSizes \cup ArraySizes \cup ObjectSizes \cup ParserDepths \subseteq Nat
  /\ InlineCapacity \in Nat \ {0}
  /\ Options \subseteq Option
  /\ MaxValues \in Nat

VARIABLES
  options,
  stack,    \* the containers that are open
  started, done,
  bytes,    \* of text, at least
  full,     \* enforce_limits(): whether it has refused, and its node count
  scan,     \* scan_structure(): whether it has refused
  facts

vars == <<options, stack, started, done, bytes, full, scan, facts>>

Value == [kind : {"scalar"}, size : {0}] \cup [kind : {"string"}, size : StringSizes]
         \cup [kind : {"array"}, size : ArraySizes] \cup [kind : {"object"}, size : ObjectSizes]

Container == {v \in Value : v.kind \in {"array", "object"}}

\* An open container: the children to come, and the keys that each walk keeps.
\* scanHeap counts as absent until scanInline is full.
Frame == [value : Container, left : Nat, keys : SUBSET Keys,
          inline : Seq(Keys), heap : Seq(Keys), scanInline : Seq(Keys), scanHeap : Seq(Keys)]

Facts == [levels : Nat, values : Nat, key : Nat, string : Nat, items : Nat, members : Nat,
          repeated : BOOLEAN]

Elements(s) == {s[i] : i \in 1 .. Len(s)}
Repeats(s) == \E i, j \in 1 .. Len(s) : i < j /\ s[i] = s[j]
Greater(m, n) == IF m > n THEN m ELSE n

-----------------------------------------------------------------------------
Top == stack[Len(stack)]
InObject == stack # <<>> /\ Top.value.kind = "object"
Depth == Len(stack)

\* The next value may be the root, an element, or a member of the open object.
Expected ==
  /\ ~ done
  /\ IF stack = <<>> THEN ~ started ELSE Top.left > 0

\* Mutant: the scan of json::parse takes the last inline place for one too many.
FitsInlineOneMore(f) == f.value.size <= InlineCapacity + 1

\* DuplicateKeyScan: few members are compared one with another.
FitsInline(f) == f.value.size <= InlineCapacity

\* observe() refuses the key.
KeyRefused(f, k) ==
  \/ options.enforce /\ KeySize(k) > options.maxKey
  \/ FitsInline(f) /\ options.reject /\ k \in Elements(f.inline)

Observed(f, k) ==
  IF FitsInline(f)
    THEN IF k \in Elements(f.inline) THEN f ELSE [f EXCEPT !.inline = Append(@, k)]
    ELSE IF options.reject THEN [f EXCEPT !.heap = Append(@, k)] ELSE f

\* Mutant: the depth is compared one level late.
ValueRefusedLate(v) ==
  /\ options.enforce
  /\ \/ Depth > options.maxDepth
     \/ full.nodes >= options.maxNodes
     \/ v.kind = "string" /\ v.size > options.maxString
     \/ v.kind = "array" /\ v.size > options.maxItems
     \/ v.kind = "object" /\ v.size > options.maxMembers

\* enforce_limits() and enforce_contents() refuse value v at this depth.
ValueRefused(v) ==
  /\ options.enforce
  /\ \/ Depth >= options.maxDepth
     \/ full.nodes >= options.maxNodes
     \/ v.kind = "string" /\ v.size > options.maxString
     \/ v.kind = "array" /\ v.size > options.maxItems
     \/ v.kind = "object" /\ v.size > options.maxMembers

\* Mutant: keys on the heap are not compared with those on the stack.
SpilledApart(f, k) == <<k>>

\* What the heap starts with when the stack is full.
Spilled(f, k) == Append(f.scanInline, k)

OnHeap(f) == f.scanHeap # <<>>

\* scan_structure() refuses the key.
ScanKeyRefused(f, k) == options.reject /\ ~ OnHeap(f) /\ k \in Elements(f.scanInline)

ScanObserved(f, k) ==
  IF ~ options.reject THEN f
  ELSE IF OnHeap(f) THEN [f EXCEPT !.scanHeap = Append(@, k)]
  ELSE IF Len(f.scanInline) < InlineCapacity THEN [f EXCEPT !.scanInline = Append(@, k)]
  ELSE [f EXCEPT !.scanHeap = Spilled(f, k)]

\* deserialize() has scan_structure() look at the depth of texts this long only.
ScanValueRefused == options.enforce /\ Depth >= options.maxDepth

-----------------------------------------------------------------------------
\* The text that a value takes by itself, a container's commas included.
Bytes(v) ==
  CASE v.kind = "scalar" -> 1
    [] v.kind = "string" -> v.size + 2
    [] OTHER -> 2 + Greater(v.size - 1, 0)

\* The document has one more value, v, under key k if it is a member.
Added(v, k) ==
  [levels |-> Greater(facts.levels, Depth + 1),
   values |-> facts.values + 1,
   key |-> IF InObject THEN Greater(facts.key, KeySize(k)) ELSE facts.key,
   string |-> IF v.kind = "string" THEN Greater(facts.string, v.size) ELSE facts.string,
   items |-> IF v.kind = "array" THEN Greater(facts.items, v.size) ELSE facts.items,
   members |-> IF v.kind = "object" THEN Greater(facts.members, v.size) ELSE facts.members,
   repeated |-> facts.repeated \/ (InObject /\ k \in Top.keys)]

Opening(v) ==
  IF v \in Container
    THEN <<[value |-> v, left |-> v.size, keys |-> {}, inline |-> <<>>, heap |-> <<>>,
            scanInline |-> <<>>, scanHeap |-> <<>>]>>
    ELSE <<>>

\* The open container with one child less to come, and key k seen by both walks.
Entered(k) ==
  LET f == [Top EXCEPT !.left = @ - 1]
  IN IF InObject THEN ScanObserved(Observed([f EXCEPT !.keys = @ \cup {k}], k), k) ELSE f

\* One step of both walks; a walk that has refused goes no further.
Visit(v, k) ==
  /\ Expected /\ facts.values < MaxValues
  /\ started' = TRUE
  /\ stack' = (IF stack = <<>> THEN <<>>
               ELSE [stack EXCEPT ![Len(stack)] = Entered(k)]) \o Opening(v)
  /\ full' = IF full.refused THEN full
             ELSE [refused |-> (InObject /\ KeyRefused(Top, k)) \/ ValueRefused(v),
                   nodes |-> full.nodes + (IF options.enforce THEN 1 ELSE 0)]
  /\ scan' = [scan EXCEPT !.keys = @ \/ (InObject /\ ScanKeyRefused(Top, k)),
                          !.depth = @ \/ ScanValueRefused]
  /\ bytes' = bytes + Bytes(v) + (IF InObject THEN KeySize(k) + 3 ELSE 0)
  /\ facts' = Added(v, k)
  /\ UNCHANGED <<options, done>>

\* The end of a container: finish(), and the end of the scan of an object.
Close ==
  /\ stack # <<>> /\ Top.left = 0
  /\ stack' = SubSeq(stack, 1, Len(stack) - 1)
  /\ full' = [full EXCEPT !.refused = @ \/ Repeats(Top.heap)]
  /\ scan' = [scan EXCEPT !.keys = @ \/ Repeats(Top.scanHeap)]
  /\ UNCHANGED <<options, started, done, bytes, facts>>

\* The end of the text, which may hold spaces besides.
End(spaces) ==
  /\ started /\ stack = <<>> /\ ~ done
  /\ done' = TRUE
  /\ bytes' = bytes + spaces
  /\ UNCHANGED <<options, stack, started, full, scan, facts>>

-----------------------------------------------------------------------------
(* The verdicts on the whole document.                                     *)

\* simdjson refuses what is nested deeper than its parser allows.
SimdjsonAccepts(depth) == facts.levels <= Greater(depth, 1)

\* json::parse(), with a parser of its own.
NeedsWalk == options.enforce \/ options.reject
ParseAccepts == SimdjsonAccepts(options.maxDepth) /\ (NeedsWalk => ~ full.refused)

\* Mutant: the longest key is forgotten.
ImpliedButForKeys ==
  ~ options.enforce
  \/ \A limit \in {options.maxNodes, options.maxString, options.maxItems, options.maxMembers} :
       bytes <= limit

\* numeric_limits_implied_by_input().
LimitsImplied ==
  ~ options.enforce
  \/ \A limit \in {options.maxNodes, options.maxString, options.maxKey, options.maxItems,
                   options.maxMembers} : bytes <= limit

CheckDepth == options.enforce /\ bytes > options.maxDepth

\* deserialize(), up to decode(), with a parser that may allow more than is asked for.
DeserializeAccepts(depth) ==
  /\ SimdjsonAccepts(Greater(depth, options.maxDepth))
  /\ NeedsWalk =>
       IF LimitsImplied
         THEN ~ (CheckDepth /\ scan.depth) /\ ~ (options.reject /\ scan.keys)
         ELSE ~ full.refused

-----------------------------------------------------------------------------
Init ==
  /\ options \in Options
  /\ stack = <<>> /\ started = FALSE /\ done = FALSE
  /\ bytes = 0
  /\ full = [refused |-> FALSE, nodes |-> 0]
  /\ scan = [keys |-> FALSE, depth |-> FALSE]
  /\ facts = [levels |-> 0, values |-> 0, key |-> 0, string |-> 0, items |-> 0, members |-> 0,
              repeated |-> FALSE]

Next ==
  \/ \E v \in Value, k \in Keys : Visit(v, k)
  \/ Close
  \/ \E spaces \in {0, 1} : End(spaces)

Spec == Init /\ [][Next]_vars

-----------------------------------------------------------------------------
\* The types; the keys compared on the stack fit there, however many members an
\* object has (json.hpp:1115, 1774).
TypeOK ==
  /\ options \in Options
  /\ stack \in Seq(Frame)
  /\ \A i \in 1 .. Len(stack) : /\ Len(stack[i].inline) <= InlineCapacity
                               /\ Len(stack[i].scanInline) <= InlineCapacity
                               /\ stack[i].left <= stack[i].value.size
  /\ started \in BOOLEAN /\ done \in BOOLEAN
  /\ bytes \in Nat
  /\ full \in [refused : BOOLEAN, nodes : Nat] /\ scan \in [keys : BOOLEAN, depth : BOOLEAN]
  /\ facts \in Facts

\* What the options allow.
WithinLimits ==
  options.enforce =>
    /\ facts.levels <= options.maxDepth /\ facts.values <= options.maxNodes
    /\ facts.string <= options.maxString /\ facts.key <= options.maxKey
    /\ facts.items <= options.maxItems /\ facts.members <= options.maxMembers

\* The walk of json::parse refuses a document exactly when it exceeds a limit or
\* repeats a key, whatever the two ways of finding repeated keys, and the policy
\* for those does not depend on the limits (docs/json-README.md:24).
WalkExact ==
  done => (full.refused <=> ~ WithinLimits \/ (options.reject /\ facts.repeated))

\* The text is as long as anything in it that a limit bounds.
TextBounds ==
  /\ facts.levels <= facts.values
  /\ \A n \in {facts.values, facts.string, facts.key, facts.items, facts.members} : n <= bytes

\* A document that deserialize() does not walk because its text is short exceeds no
\* limit, and none but the text's length has been looked at (json.hpp:1738-1743);
\* nor is it too deep if its depth is not looked at either (json.hpp:2000).
UnwalkedWithinLimits ==
  done /\ options.enforce /\ LimitsImplied =>
    /\ facts.values <= options.maxNodes /\ facts.string <= options.maxString
    /\ facts.key <= options.maxKey /\ facts.items <= options.maxItems
    /\ facts.members <= options.maxMembers
    /\ ~ CheckDepth => facts.levels <= options.maxDepth

\* deserialize() refuses what json::parse refuses, whatever the thread's parser
\* has parsed before; with the limits off it may only be the more generous.
SameVerdict ==
  done => \A depth \in ParserDepths :
            /\ ParseAccepts => DeserializeAccepts(depth)
            /\ options.enforce /\ DeserializeAccepts(depth) => ParseAccepts

\* "The depth is left to simdjson" (json.hpp:1737, 1987): nothing deserialize()
\* accepts is nested deeper than max_depth, whatever the thread's parser has parsed.
DepthLeftToSimdjson ==
  done => \A depth \in ParserDepths :
            DeserializeAccepts(depth) => facts.levels <= Greater(options.maxDepth, 1)
=============================================================================
