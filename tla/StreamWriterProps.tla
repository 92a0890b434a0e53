-------------------------- MODULE StreamWriterProps --------------------------
(***************************************************************************)
(* What a StreamWriter must get right, stated against the document its     *)
(* sink has been given.                                                    *)
(***************************************************************************)
EXTENDS StreamWriter

\* Every variable has its type (the members of StreamWriter and of the call it runs).
TypeOK ==
  /\ sink \in BOOLEAN /\ options \in Options
  /\ stack \in Seq(Context)
  /\ failure \in Errors \cup {NoError}
  /\ bytes \in Nat /\ nodes \in Nat
  /\ rootWritten \in BOOLEAN /\ finished \in BOOLEAN
  /\ pc \in Sites \cup {"idle", "measure"}
  /\ call \in Call /\ left \in Nat
  /\ doc \in Document /\ sent \in Nat

-----------------------------------------------------------------------------
(* The writer's books against the document.                                *)

Healthy == sink /\ failure = NoError

\* The value or key of the running call is counted and its first token unsent.
Counting == call.op \notin {"key", "end"} /\ pc \in {"quote", "token"}

InName == call.op = "key" /\ pc \in {"chars", "unquote", "colon"}

\* What the grammar allows after the last complete item of the innermost container.
ModeBetween ==
  IF stack = << >> THEN IF rootWritten THEN "next" ELSE "value"
  ELSE IF Back.expect THEN "value"
  ELSE IF Back.count = 0 THEN "first" ELSE "next"

\* What it allows where the next item of an object or array is due.
ModeBeforeItem(earlier) ==
  IF earlier = 0 THEN "first" ELSE IF Back.object THEN "item" ELSE "value"

\* What it allows where the body of the running call starts.
ModeBeforeBody ==
  IF call.op = "end" THEN ModeBetween
  ELSE IF call.op = "key" THEN ModeBeforeItem(Back.count)
  ELSE IF stack = << >> \/ Back.object THEN "value"
  ELSE ModeBeforeItem(Back.count - 1)

ModeAgrees ==
  /\ pc = "idle" => doc.mode = ModeBetween
  /\ pc = "comma" => doc.mode = "next"
  /\ pc \in {"newline", "measure", "indent"} =>
       doc.mode = IF call.op = "end" THEN "next" ELSE ModeBeforeItem(Back.count)
  /\ pc \in {"quote", "token"} => doc.mode = ModeBeforeBody
  /\ pc \in {"chars", "unquote"} => doc.mode = IF call.op = "key" THEN "name" ELSE "text"
  /\ pc = "colon" => doc.mode = "colon"

\* Items of the innermost container as the document shows them.
ItemsShown ==
  IF Counting /\ ~ Back.object THEN Back.count - 1
  ELSE IF InName THEN Back.count + 1 ELSE Back.count

\* The same containers are open, with as many items, and shown in the innermost.
SameContainers(frames, contexts, shown) ==
  /\ Len(frames) = Len(contexts)
  /\ \A i \in 1 .. Len(contexts) :
       /\ frames[i].object = contexts[i].object
       /\ frames[i].items = IF i = Len(contexts) THEN shown ELSE contexts[i].count

\* While no error has been reported, the stack of Contexts, the node count and
\* the flags say exactly what the sink has been given so far: the same open
\* containers with the same counts, at the place in the grammar where the
\* running call is (lines 315-328 of stream.hpp against what 341-464 emit).
Synchronised ==
  Healthy =>
    /\ SameContainers(doc.frames, stack, ItemsShown)
    /\ ModeAgrees
    /\ doc.values = IF Counting THEN nodes - call.nodes ELSE nodes

\* The limits of the document hold of the writer's own counters at every moment,
\* so that none of its subtractions (lines 129, 131, 343, 353) wraps around, and
\* bytes_written() is what the sink has accepted, also after an error.
WithinLimits ==
  /\ bytes = sent /\ bytes <= options.maxOutput
  /\ nodes <= options.maxNodes
  /\ Len(stack) <= options.maxDepth
  /\ \A i \in 1 .. Len(stack) :
       stack[i].count <= IF stack[i].object THEN options.maxMembers ELSE options.maxItems

-----------------------------------------------------------------------------
(* The verdicts on calls.                                                  *)

ValueFits ==
  /\ doc.mode = "value" \/ (InArray(doc) /\ doc.mode \in {"first", "next"})
  /\ InArray(doc) => RoomForItem(doc, options)
  /\ Len(doc.frames) < options.maxDepth
  /\ doc.values < options.maxNodes

NameFits ==
  InObject(doc) /\ doc.mode \in {"first", "next"} /\ RoomForItem(doc, options)

\* Between calls the writer accepts a value, a key or the end of a container
\* exactly where the grammar and the limits allow one: it neither lets a caller
\* write a malformed document nor refuses a well-formed one.
VerdictsExact ==
  Active =>
    /\ (~ MisplacedValue /\ ~ ValueOverLimit) <=> ValueFits
    /\ (MayKey /\ Back.count < options.maxMembers) <=> NameFits
    /\ \A object \in BOOLEAN :
         MayEnd(object) <=> Legal(doc, Token(IF object THEN "endObject" ELSE "endArray"), options)
    /\ (rootWritten /\ stack = << >>) <=> Complete(doc)

-----------------------------------------------------------------------------
Status ==
  IF ~ sink THEN "detached"
  ELSE IF failure # NoError THEN "failed"
  ELSE IF finished THEN "sealed" ELSE "open"

Promise == INSTANCE OutputDocument WITH
             status <- Status,
             RawNodes <- {f.nodes : f \in Fragments},
             RawDepths <- {f.depth : f \in Fragments}

\* The writer implements OutputDocument: a prefix of one document within its
\* limits, sealed by finish() only when whole, frozen by the first error.
Implements == Promise!Spec

\* Every call returns to its caller, whatever its text and indentation.
CallReturns == pc # "idle" ~> pc = "idle"
=============================================================================
