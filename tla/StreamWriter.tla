---------------------------- MODULE StreamWriter ----------------------------
(***************************************************************************)
(* json::stream::StreamWriter: a writer driven by calls in any order, that *)
(* hands every fragment of the output to a synchronous sink.  A call runs  *)
(* to its end before the next one (a sink may not re-enter its writer), and *)
(* is modelled fragment by fragment: pc says which fragment it sends next, *)
(* so that a sink error or the byte limit can stop it at each one.         *)
(*                                                                         *)
(* doc and sent are history variables: the document the sink has been      *)
(* given, as JsonText reads it, and how many bytes it took.                *)
(***************************************************************************)
EXTENDS JsonText

CONSTANTS
  Options,        \* the SerializeOptions a writer may be given
  Texts,          \* texts given to key() and string()
  ScalarSizes,    \* bytes of a formatted number or literal
  Fragments,      \* texts given to raw()
  SpacesLength,   \* the longest run of spaces emitted at once (64)
  MaxIndentWidth  \* the widest indentation accepted (64)

\* pieces are the sizes of the fragments the quoted text is sent in; a text
\* that is not UTF-8 is not valid.
Text == [size : Nat, valid : BOOLEAN, pieces : Seq(Nat \ {0})]

\* A raw fragment is valid when it is one JSON value whose own strings, keys,
\* arrays and objects are within their limits.
Fragment == [size : Nat \ {0}, valid : BOOLEAN, nodes : Nat \ {0}, depth : Nat \ {0}]

Option == [pretty : BOOLEAN, indentWidth : Nat, maxOutput : Nat, maxDepth : Nat,
           maxNodes : Nat, maxItems : Nat, maxMembers : Nat, maxString : Nat, maxKey : Nat]

ASSUME OptionsAssumption == Options \subseteq Option
ASSUME InputsAssumption ==
  Texts \subseteq Text /\ ScalarSizes \subseteq Nat \ {0} /\ Fragments \subseteq Fragment
ASSUME WidthsAssumption == SpacesLength \in Nat \ {0} /\ MaxIndentWidth \in Nat

VARIABLES
  sink,           \* is there a sink to write to?
  options,
  stack,          \* the containers open, as Contexts
  failure,        \* the first error, or NoError
  bytes, nodes,
  rootWritten, finished,
  pc,             \* the fragment the running call sends next, or "idle"
  call,           \* what the running call writes
  left,           \* spaces of indentation it has yet to send
  doc, sent

writerVars == <<sink, options, stack, failure, bytes, nodes, rootWritten, finished>>
callVars == <<pc, call, left>>
vars == <<writerVars, callVars, doc, sent>>

Context == [object : BOOLEAN, count : Nat, expect : BOOLEAN]

NoError == "none"
Errors == {"usage", "limit", "content", "sink"}

Sites == {"comma", "newline", "indent", "quote", "chars", "unquote", "colon", "token"}

Call == [op : {"start", "end", "key", "string", "atom"}, object : BOOLEAN,
         pieces : Seq(Nat \ {0}), size : Nat \ {0}, nodes : Nat \ {0}, depth : Nat \ {0}]

NewCall(op) == [op |-> op, object |-> FALSE, pieces |-> << >>,
                size |-> 1, nodes |-> 1, depth |-> 1]
Bracket(op, object) == [NewCall(op) EXCEPT !.object = object]
Quoted(op, text) == [NewCall(op) EXCEPT !.pieces = text.pieces]
Literal(size) == [NewCall("atom") EXCEPT !.size = size]
RawText(f) == [NewCall("atom") EXCEPT !.size = f.size, !.nodes = f.nodes, !.depth = f.depth]

NoCall == NewCall("atom")

-----------------------------------------------------------------------------
Back == stack[Len(stack)]

\* Mutant: the limit is checked for each fragment, not for the document.
RemainingPerFragment == options.maxOutput

Remaining == options.maxOutput - bytes

\* Mutant: an error is returned and not remembered.
FailTransient(e) ==
  /\ pc' = "idle" /\ call' = NoCall /\ left' = 0
  /\ UNCHANGED <<sink, options, stack, failure, bytes, nodes, rootWritten, finished, doc, sent>>

Fail(e) ==
  /\ failure' = IF failure = NoError THEN e ELSE failure
  /\ pc' = "idle" /\ call' = NoCall /\ left' = 0
  /\ UNCHANGED <<sink, options, stack, bytes, nodes, rootWritten, finished, doc, sent>>

Return == pc' = "idle" /\ call' = NoCall /\ left' = 0

\* status(): calls on a failed or empty writer only report that state.
Idle == pc = "idle"
Usable == Idle /\ sink /\ failure = NoError

Active == Usable /\ ~ finished

-----------------------------------------------------------------------------
(* The course of one call.                                                 *)

\* The fragments a call may start with: a comma after an earlier item, a line
\* of its own when pretty.
FirstSite(count) ==
  IF count > 0 THEN "comma" ELSE IF options.pretty THEN "newline" ELSE "none"

Body(c) == IF c.op = "string" THEN "quote" ELSE "token"

\* Mutant: a raw fragment counts as one value.
PrefixDoneCountingOne(c) ==
  \/ /\ c.op \in {"key", "end"}
     /\ pc' = IF c.op = "key" THEN "quote" ELSE "token"
     /\ UNCHANGED <<stack, nodes>>
  \/ /\ c.op \notin {"key", "end"}
     /\ stack' = [stack EXCEPT ![Len(stack)].count = @ + 1]
     /\ nodes' = nodes + 1
     /\ pc' = Body(c)

\* What a call does once its prefix is sent: an array counts its item.
PrefixDone(c) ==
  \/ /\ c.op \in {"key", "end"}
     /\ pc' = IF c.op = "key" THEN "quote" ELSE "token"
     /\ UNCHANGED <<stack, nodes>>
  \/ /\ c.op \notin {"key", "end"}
     /\ stack' = [stack EXCEPT ![Len(stack)].count = @ + 1]
     /\ nodes' = nodes + c.nodes
     /\ pc' = Body(c)

\* item_prefix(): what precedes an item of the innermost container.
ItemPrefix(c, first) ==
  /\ call' = c
  /\ UNCHANGED <<left, rootWritten>>
  /\ \/ first = "none" /\ PrefixDone(c)
     \/ first # "none" /\ pc' = first /\ UNCHANGED <<stack, nodes>>

\* Mutant: nothing stops a second root value.
MisplacedMember == stack # << >> /\ Back.object /\ ~ Back.expect

MisplacedValue ==
  IF stack = << >> THEN rootWritten ELSE Back.object /\ ~ Back.expect

ArrayIsFull == stack # << >> /\ ~ Back.object /\ Back.count >= options.maxItems

ValueOverLimit ==
  ArrayIsFull \/ Len(stack) >= options.maxDepth \/ nodes >= options.maxNodes

\* before_value() past its checks.  A root value and a member value have no
\* prefix: they are counted before anything of them is sent.
BeforeValue(c) ==
  \/ /\ stack = << >>
     /\ rootWritten' = TRUE
     /\ nodes' = nodes + c.nodes
     /\ pc' = Body(c) /\ call' = c
     /\ UNCHANGED <<stack, left>>
  \/ /\ stack # << >> /\ Back.object
     /\ stack' = [stack EXCEPT ![Len(stack)].expect = FALSE]
     /\ nodes' = nodes + c.nodes
     /\ pc' = Body(c) /\ call' = c
     /\ UNCHANGED <<rootWritten, left>>
  \/ /\ stack # << >> /\ ~ Back.object
     /\ ItemPrefix(c, FirstSite(Back.count))

\* value_position(), then before_value() unless the value itself is refused.
WriteValue(c, refused, e) ==
  \/ MisplacedValue /\ Fail("usage")
  \/ ~ MisplacedValue /\ ValueOverLimit /\ Fail("limit")
  \/ ~ MisplacedValue /\ ~ ValueOverLimit /\ refused /\ Fail(e)
  \/ /\ ~ MisplacedValue /\ ~ ValueOverLimit /\ ~ refused
     /\ BeforeValue(c)
     /\ UNCHANGED <<sink, options, failure, bytes, finished, doc, sent>>

-----------------------------------------------------------------------------
(* The calls.                                                              *)

StartContainer(object) ==
  Active /\ WriteValue(Bracket("start", object), FALSE, "usage")

MayEnd(object) == stack # << >> /\ Back.object = object /\ ~ Back.expect

EndContainer(object) ==
  /\ Active
  /\ \/ ~ MayEnd(object) /\ Fail("usage")
     \/ /\ MayEnd(object)
        /\ call' = Bracket("end", object)
        /\ pc' = IF options.pretty /\ Back.count > 0 THEN "newline" ELSE "token"
        /\ UNCHANGED <<writerVars, left, doc, sent>>

MayKey == stack # << >> /\ Back.object /\ ~ Back.expect

Key(text) ==
  LET full == Back.count >= options.maxMembers
      bad == text.size > options.maxKey \/ ~ text.valid
  IN /\ Active
     /\ \/ ~ MayKey /\ Fail("usage")
        \/ MayKey /\ full /\ Fail("limit")
        \/ MayKey /\ ~ full /\ bad /\ Fail("content")
        \/ /\ MayKey /\ ~ full /\ ~ bad
           /\ ItemPrefix(Quoted("key", text), FirstSite(Back.count))
           /\ UNCHANGED <<sink, options, failure, bytes, finished, doc, sent>>

String(text) ==
  LET bad == text.size > options.maxString \/ ~ text.valid
  IN /\ Active
     /\ \/ bad /\ Fail("content")
        \/ ~ bad /\ WriteValue(Quoted("string", text), FALSE, "usage")

\* number(), boolean(), null_value().
Scalar(size) == Active /\ WriteValue(Literal(size), FALSE, "usage")

\* raw(): the fragment must fit in what the document's limits leave.
RawRefused(f) ==
  \/ ~ f.valid
  \/ f.size > Remaining
  \/ Len(stack) + f.depth > options.maxDepth
  \/ nodes + f.nodes > options.maxNodes

Raw(f) == Active /\ WriteValue(RawText(f), RawRefused(f), "content")

\* A C++ or DOM value that is refused before anything of it is sent: not
\* finite, out of range, not a valid date, not a declared enumerator, a null
\* pointer, an invalid view, or a container with too many items.
RefusedValue == Active /\ \E e \in {"content", "limit"} : Fail(e)

\* Any call but finish(), status() and reset() after finish().
UseAfterFinish == Usable /\ finished /\ Fail("usage")

Finish ==
  /\ Usable
  /\ \/ (~ rootWritten \/ stack # << >>) /\ Fail("usage")
     \/ /\ rootWritten /\ stack = << >>
        /\ finished' = TRUE
        /\ UNCHANGED <<sink, options, stack, failure, bytes, nodes, rootWritten,
                       callVars, doc, sent>>

\* The state of a writer that reset() or a constructor leaves with sink s, options o.
Cleared(s, o) ==
  /\ sink' = s /\ options' = o
  /\ stack' = << >> /\ bytes' = 0 /\ nodes' = 0
  /\ rootWritten' = FALSE /\ finished' = FALSE
  /\ doc' = Blank /\ sent' = 0
  /\ UNCHANGED callVars

ResetFailure(s, o) ==
  IF ~ s THEN "sink" ELSE IF o.indentWidth > MaxIndentWidth THEN "limit" ELSE NoError

Reset == Idle /\ Cleared(sink, options) /\ failure' = ResetFailure(sink, options)

\* Move assignment from a writer that has written nothing.
Assign(s, o) == Idle /\ Cleared(s, o) /\ failure' = ResetFailure(s, o)

\* What is left of a writer moved from.
MoveFrom == Idle /\ Cleared(FALSE, options) /\ failure' = NoError

-----------------------------------------------------------------------------
(* The fragments.                                                          *)

\* The sink accepts a fragment that is within the byte limit.
Emit(t, size) ==
  /\ size <= Remaining
  /\ bytes' = bytes + size
  /\ sent' = sent + size
  /\ doc' = Read(doc, t, options)
  /\ UNCHANGED <<sink, options, finished>>

Indentation == (IF call.op = "end" THEN Len(stack) - 1 ELSE Len(stack)) * options.indentWidth

\* Mutant: every run of spaces is a full one.
SpacesRunFull == SpacesLength

SpacesRun == IF left < SpacesLength THEN left ELSE SpacesLength

ColonSize == IF options.pretty THEN 2 ELSE 1

FragmentSize ==
  CASE pc = "indent" -> SpacesRun
    [] pc = "chars" -> Head(call.pieces)
    [] pc = "colon" -> ColonSize
    [] pc = "token" -> call.size
    [] OTHER -> 1

\* Mutant: a fragment that does not fit is tried again.
EmitRetries == pc \in Sites /\ UNCHANGED vars

\* The fragment is over the limit, or the sink reports an error for it.
EmitFails ==
  /\ pc \in Sites
  /\ Fail(IF FragmentSize > Remaining THEN "limit" ELSE "sink")

EmitComma ==
  /\ pc = "comma"
  /\ Emit(Token("comma"), 1)
  /\ UNCHANGED <<call, left, failure, rootWritten>>
  /\ \/ options.pretty /\ pc' = "newline" /\ UNCHANGED <<stack, nodes>>
     \/ ~ options.pretty /\ PrefixDone(call)

EmitNewline ==
  /\ pc = "newline"
  /\ Emit(Token("space"), 1)
  /\ pc' = "measure"
  /\ UNCHANGED <<stack, failure, nodes, rootWritten, call, left>>

\* indent() checks that the whole indentation fits before it sends any of it.
Measure ==
  /\ pc = "measure"
  /\ \/ Indentation > Remaining /\ Fail("limit")
     \/ /\ 0 < Indentation /\ Indentation <= Remaining
        /\ pc' = "indent" /\ left' = Indentation
        /\ UNCHANGED <<writerVars, call, doc, sent>>
     \/ /\ Indentation = 0
        /\ PrefixDone(call)
        /\ UNCHANGED <<sink, options, failure, bytes, rootWritten, finished, call, left,
                       doc, sent>>

EmitIndent ==
  /\ pc = "indent"
  /\ Emit(Token("space"), SpacesRun)
  /\ left' = left - SpacesRun
  /\ UNCHANGED <<call, failure, rootWritten>>
  /\ \/ left' # 0 /\ UNCHANGED <<pc, stack, nodes>>
     \/ left' = 0 /\ PrefixDone(call)

EmitQuote ==
  /\ pc = "quote"
  /\ Emit(Token("quote"), 1)
  /\ pc' = IF call.pieces = << >> THEN "unquote" ELSE "chars"
  /\ UNCHANGED <<stack, failure, nodes, rootWritten, call, left>>

EmitChars ==
  /\ pc = "chars"
  /\ Emit(Token("chars"), Head(call.pieces))
  /\ call' = [call EXCEPT !.pieces = Tail(@)]
  /\ pc' = IF Tail(call.pieces) = << >> THEN "unquote" ELSE "chars"
  /\ UNCHANGED <<stack, failure, nodes, rootWritten, left>>

EmitUnquote ==
  /\ pc = "unquote"
  /\ Emit(Token("quote"), 1)
  /\ \/ call.op = "key" /\ pc' = "colon" /\ UNCHANGED <<call, left>>
     \/ call.op # "key" /\ Return
  /\ UNCHANGED <<stack, failure, nodes, rootWritten>>

EmitColon ==
  /\ pc = "colon"
  /\ Emit(Token("colon"), ColonSize)
  /\ stack' = [stack EXCEPT ![Len(stack)].count = @ + 1, ![Len(stack)].expect = TRUE]
  /\ Return
  /\ UNCHANGED <<failure, nodes, rootWritten>>

CallToken ==
  CASE call.op = "start" -> Token(IF call.object THEN "object" ELSE "array")
    [] call.op = "end" -> Token(IF call.object THEN "endObject" ELSE "endArray")
    [] OTHER -> [kind |-> "atom", nodes |-> call.nodes, depth |-> call.depth]

EmitToken ==
  /\ pc = "token"
  /\ Emit(CallToken, call.size)
  /\ stack' = CASE call.op = "start"
                     -> Append(stack, [object |-> call.object, count |-> 0, expect |-> FALSE])
                [] call.op = "end" -> SubSeq(stack, 1, Len(stack) - 1)
                [] OTHER -> stack
  /\ Return
  /\ UNCHANGED <<failure, nodes, rootWritten>>

-----------------------------------------------------------------------------
Init ==
  /\ sink \in BOOLEAN /\ options \in Options
  /\ failure = ResetFailure(sink, options)
  /\ stack = << >> /\ bytes = 0 /\ nodes = 0
  /\ rootWritten = FALSE /\ finished = FALSE
  /\ pc = "idle" /\ call = NoCall /\ left = 0
  /\ doc = Blank /\ sent = 0

Calls ==
  \/ \E object \in BOOLEAN : StartContainer(object) \/ EndContainer(object)
  \/ \E text \in Texts : Key(text) \/ String(text)
  \/ \E size \in ScalarSizes : Scalar(size)
  \/ \E f \in Fragments : Raw(f)
  \/ RefusedValue \/ UseAfterFinish \/ Finish
  \/ Reset \/ MoveFrom
  \/ \E s \in BOOLEAN, o \in Options : Assign(s, o)

Emissions ==
  \/ EmitFails
  \/ EmitComma \/ EmitNewline \/ Measure \/ EmitIndent
  \/ EmitQuote \/ EmitChars \/ EmitUnquote \/ EmitColon \/ EmitToken

Next == Calls \/ Emissions

\* A call runs to its end: a sink that returns is all it waits for.
Spec == Init /\ [][Next]_vars

FairSpec == Spec /\ WF_vars(Emissions)
=============================================================================
