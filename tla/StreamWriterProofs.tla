------------------------- MODULE StreamWriterProofs -------------------------
(***************************************************************************)
(* Proofs that a StreamWriter keeps its books, its limits and the promise  *)
(* of OutputDocument, for all options, texts and raw fragments.            *)
(***************************************************************************)
EXTENDS StreamWriterProps, TLAPS

-----------------------------------------------------------------------------
(* The inductive invariant.                                                *)

PrefixSites == {"comma", "newline", "measure", "indent"}

IsValue(c) == c.op \notin {"key", "end"}

\* Values, keys and ends have their own conditions on the innermost container.
SingleFits(c) == c.op \in {"start", "string"} => c.nodes = 1 /\ c.depth = 1

DepthFits(c) == IsValue(c) => Len(stack) + c.depth <= options.maxDepth

KeyFits(c) ==
  c.op = "key" => stack # << >> /\ Back.object /\ ~ Back.expect
                    /\ Back.count < options.maxMembers

EndFits(c) == c.op = "end" => MayEnd(c.object)

\* A call that has yet to send the prefix of its item, or of a container's end.
PrefixFits(c) ==
  /\ stack # << >> /\ ~ Back.expect
  /\ IsValue(c) => ~ Back.object /\ Back.count < options.maxItems
                     /\ nodes + c.nodes <= options.maxNodes
  /\ c.op = "end" => Back.count > 0

\* A value that has been counted.
CountedFits(c) ==
  IsValue(c) => rootWritten /\ (stack # << >> => Back.count > 0 /\ ~ Back.expect)

SiteFits ==
  /\ pc = "comma" => Back.count > 0 /\ call.op # "end"
  /\ pc = "indent" => left > 0
  /\ pc \in {"quote", "chars", "unquote"} => call.op \in {"key", "string"}
  /\ pc = "chars" => call.pieces # << >>
  /\ pc = "colon" => call.op = "key"
  /\ pc = "token" => call.op \in {"start", "end", "atom"}

\* What the checks made when a call starts still guarantee at each fragment it sends.
CallFits ==
  pc # "idle" =>
    /\ Healthy /\ ~ finished
    /\ SingleFits(call) /\ KeyFits(call) /\ EndFits(call) /\ SiteFits
    /\ pc \notin {"chars", "unquote"} => DepthFits(call)
    /\ pc \in PrefixSites => PrefixFits(call)
    /\ pc \notin PrefixSites => CountedFits(call)

\* A container that encloses another holds an item, and only the innermost one,
\* an object, can be waiting for the value of its last key.
StackFits ==
  /\ \A i \in 1 .. Len(stack) :
       /\ stack[i].expect => stack[i].object /\ stack[i].count > 0 /\ i = Len(stack)
       /\ i < Len(stack) => stack[i].count > 0
  /\ stack # << >> => rootWritten

IInv == Synchronised /\ WithinLimits /\ CallFits /\ StackFits

-----------------------------------------------------------------------------
(* Types.                                                                  *)

\* The last element of a sequence and its update.
LEMMA LastUpdate ==
  ASSUME NEW S, NEW s \in Seq(S), s # << >>, NEW v \in S
  PROVE  LET r == [s EXCEPT ![Len(s)] = v]
         IN /\ Len(s) \in 1 .. Len(s) /\ s[Len(s)] \in S
            /\ r \in Seq(S) /\ Len(r) = Len(s) /\ r # << >>
            /\ r[Len(s)] = v
            /\ \A i \in 1 .. Len(s) : i # Len(s) => r[i] = s[i]
  OBVIOUS

\* A sequence without its last element.
LEMMA Popped ==
  ASSUME NEW S, NEW s \in Seq(S), s # << >>
  PROVE  LET r == SubSeq(s, 1, Len(s) - 1)
         IN /\ r \in Seq(S) /\ Len(r) = Len(s) - 1
            /\ \A i \in 1 .. Len(s) - 1 : r[i] = s[i]
  <1> DEFINE r == SubSeq(s, 1, Len(s) - 1)
  <1>1. Len(s) \in Nat /\ Len(s) >= 1
    OBVIOUS
  <1>2. r \in Seq(S)
    BY <1>1
  <1>3. Len(r) = Len(s) - 1
    BY <1>1
  <1>4. \A i \in 1 .. Len(s) - 1 : r[i] = s[i]
    BY <1>1
  <1>5. QED
    BY <1>2, <1>3, <1>4

\* Counting an item keeps a sequence of frames one, with the same length.
LEMMA CountedType ==
  ASSUME NEW frames \in Seq(Frame), frames # << >>
  PROVE  /\ Counted(frames) \in Seq(Frame)
         /\ Len(Counted(frames)) = Len(frames)
  <1>1. frames[Len(frames)] \in Frame /\ Len(frames) \in 1 .. Len(frames)
    OBVIOUS
  <1>2. [frames[Len(frames)] EXCEPT !.items = @ + 1] \in Frame
    BY <1>1 DEF Frame
  <1>3. QED
    BY <1>1, <1>2 DEF Counted

\* Placing a value in a document gives a document.
LEMMA PlacedType ==
  ASSUME NEW d \in Document, NEW t \in Tokens, NEW mode \in Modes
  PROVE  Placed(d, t, mode) \in Document
  <1>1. CASE InArray(d)
    BY <1>1, CountedType DEF Placed, Document, InArray, Nested, Tokens
  <1>2. CASE ~ InArray(d)
    BY <1>2 DEF Placed, Document, Tokens
  <1>3. QED
    BY <1>1, <1>2

\* Reading any token, legal or not, gives a document.
LEMMA ReadType ==
  ASSUME NEW d \in Document, NEW t \in Tokens, NEW o
  PROVE  Read(d, t, o) \in Document
  <1>1. CASE ~ Legal(d, t, o)
    BY <1>1 DEF Read, Document, Modes
  <1>2. CASE Legal(d, t, o)
    <2> SUFFICES After(d, t) \in Document
      BY <1>2 DEF Read
    <2>1. CASE t.kind \in {"comma", "colon", "space", "chars"}
      BY <2>1 DEF After, Document, Modes
    <2>2. CASE t.kind = "quote"
      <3>1. Placed(d, t, "text") \in Document
        BY PlacedType DEF Modes
      <3>2. InObject(d) => [d EXCEPT !.mode = "name", !.frames = Counted(@)] \in Document
        BY CountedType DEF Document, Modes, InObject, Nested
      <3>3. QED
        BY <2>2, <3>1, <3>2 DEF After, AfterQuote, Document, Modes
    <2>3. CASE t.kind = "atom"
      BY <2>3, PlacedType DEF After, Modes
    <2>4. CASE t.kind \in {"object", "array"}
      <3>1. Placed(d, t, "first") \in Document
        BY PlacedType DEF Modes
      <3>2. ASSUME NEW object \in BOOLEAN
            PROVE  Opened(d, t, object) \in Document
        <4>1. [object |-> object, items |-> 0] \in Frame
          BY DEF Frame
        <4>2. Append(Placed(d, t, "first").frames, [object |-> object, items |-> 0])
                \in Seq(Frame)
          BY <3>1, <4>1 DEF Document
        <4>3. QED
          BY <3>1, <4>2 DEF Opened, Document
      <3>3. QED
        BY <2>4, <3>2 DEF After
    <2>5. CASE t.kind \in {"endObject", "endArray"}
      <3>1. d.frames \in Seq(Frame) /\ d.frames # << >>
        BY <1>2, <2>5 DEF Legal, InObject, InArray, Nested, Document
      <3>2. SubSeq(d.frames, 1, Len(d.frames) - 1) \in Seq(Frame)
        BY <3>1
      <3>3. QED
        BY <2>5, <3>2 DEF After, Document, Modes
    <2>6. QED
      BY <2>1, <2>2, <2>3, <2>4, <2>5 DEF Tokens, Kinds
  <1>3. QED
    BY <1>1, <1>2

\* The tokens of the emissions are tokens.
LEMMA TokenType ==
  ASSUME NEW kind \in Kinds
  PROVE  Token(kind) \in Tokens
  BY DEF Token, Tokens

\* The descriptions of the calls are calls.
LEMMA CallType ==
  /\ \A op \in {"start", "end", "key", "string", "atom"} : NewCall(op) \in Call
  /\ \A op \in {"start", "end"}, object \in BOOLEAN : Bracket(op, object) \in Call
  /\ \A op \in {"key", "string"}, text \in Texts : Quoted(op, text) \in Call
  /\ \A size \in ScalarSizes : Literal(size) \in Call
  /\ \A f \in Fragments : RawText(f) \in Call
  <1>1. ASSUME NEW op \in {"start", "end", "key", "string", "atom"}
        PROVE  NewCall(op) \in Call
    BY DEF NewCall, Call
  <1>2. ASSUME NEW op \in {"start", "end"}, NEW object \in BOOLEAN
        PROVE  Bracket(op, object) \in Call
    BY <1>1 DEF Bracket, Call
  <1>3. ASSUME NEW op \in {"key", "string"}, NEW text \in Texts
        PROVE  Quoted(op, text) \in Call
    BY <1>1, InputsAssumption DEF Quoted, Call, Text
  <1>4. ASSUME NEW size \in ScalarSizes
        PROVE  Literal(size) \in Call
    BY <1>1, InputsAssumption DEF Literal, Call
  <1>5. ASSUME NEW f \in Fragments
        PROVE  RawText(f) \in Call
    BY <1>1, InputsAssumption DEF RawText, Call, Fragment
  <1>6. QED
    BY <1>1, <1>2, <1>3, <1>4, <1>5

\* Each limit and width of the options is a natural number.
LEMMA OptionsType ==
  ASSUME NEW o \in Options
  PROVE  o \in Option
  BY OptionsAssumption

-----------------------------------------------------------------------------
(* Containers in step.                                                     *)

\* An item counted in the document.
LEMMA SameCounted ==
  ASSUME NEW frames \in Seq(Frame), NEW contexts \in Seq(Context), frames # << >>,
         NEW k \in Nat, SameContainers(frames, contexts, k)
  PROVE  SameContainers(Counted(frames), contexts, k + 1)
  <1> DEFINE top == frames[Len(frames)]
             v == [top EXCEPT !.items = @ + 1]
  <1>1. top \in Frame /\ Len(frames) \in 1 .. Len(frames)
    BY LastUpdate
  <1>2. v \in Frame /\ v.object = top.object /\ v.items = top.items + 1
    BY <1>1 DEF Frame
  <1>3. Counted(frames) = [frames EXCEPT ![Len(frames)] = v]
    BY DEF Counted
  <1>4. top.items = k
    BY <1>1 DEF SameContainers
  <1> HIDE DEF v
  <1>5. QED
    BY <1>1, <1>2, <1>3, <1>4 DEF SameContainers

\* The innermost Context changed in everything but its kind.
LEMMA SameUpdated ==
  ASSUME NEW frames \in Seq(Frame), NEW contexts \in Seq(Context), contexts # << >>,
         NEW k \in Nat, SameContainers(frames, contexts, k),
         NEW v \in Context, v.object = contexts[Len(contexts)].object
  PROVE  SameContainers(frames, [contexts EXCEPT ![Len(contexts)] = v], k)
  BY DEF SameContainers

\* A container opened on both sides.
LEMMA SameOpened ==
  ASSUME NEW frames \in Seq(Frame), NEW contexts \in Seq(Context),
         NEW k \in Nat, SameContainers(frames, contexts, k),
         contexts # << >> => k = contexts[Len(contexts)].count,
         NEW f \in Frame, NEW c \in Context, f.object = c.object
  PROVE  SameContainers(Append(frames, f), Append(contexts, c), f.items)
  BY DEF SameContainers

\* A container closed on both sides.
LEMMA SameClosed ==
  ASSUME NEW frames \in Seq(Frame), NEW contexts \in Seq(Context), contexts # << >>,
         NEW k, SameContainers(frames, contexts, k),
         NEW j, Len(contexts) > 1 => j = contexts[Len(contexts) - 1].count
  PROVE  SameContainers(SubSeq(frames, 1, Len(frames) - 1),
                        SubSeq(contexts, 1, Len(contexts) - 1), j)
  BY DEF SameContainers

\* What the document's innermost container is, in the writer's terms.
LEMMA InnermostIs ==
  ASSUME TypeOK, Synchronised, Healthy
  PROVE  /\ Nested(doc) <=> stack # << >>
         /\ InArray(doc) <=> stack # << >> /\ ~ Back.object
         /\ InObject(doc) <=> stack # << >> /\ Back.object
         /\ stack # << >> =>
              /\ Innermost(doc).object = Back.object
              /\ Innermost(doc).items = ItemsShown
              /\ Back \in Context
  BY DEF TypeOK, Synchronised, SameContainers, Nested, InArray, InObject, Innermost,
         Document, Back

-----------------------------------------------------------------------------
(* The steps.                                                              *)

\* The limits on the containers that are open.
StackLimits ==
  /\ Len(stack) <= options.maxDepth
  /\ \A i \in 1 .. Len(stack) :
       stack[i].count <= IF stack[i].object THEN options.maxMembers ELSE options.maxItems

\* A call whose prefix is sent, or that has none, is set to send its body.
LEMMA Prefixed ==
  ASSUME TypeOK, StackFits, StackLimits, nodes <= options.maxNodes,
         Healthy, ~ finished,
         NEW c \in Call, SingleFits(c), DepthFits(c), KeyFits(c), EndFits(c), PrefixFits(c),
         SameContainers(doc'.frames, stack, Back.count),
         doc'.mode = IF c.op = "end" THEN "next" ELSE ModeBeforeItem(Back.count),
         doc'.values = nodes,
         call' = c, PrefixDone(c),
         UNCHANGED <<sink, options, failure, finished, rootWritten>>,
         doc' \in Document
  PROVE  /\ stack' \in Seq(Context) /\ nodes' \in Nat /\ pc' \in Sites
         /\ StackFits' /\ CallFits' /\ Synchronised' /\ StackLimits'
         /\ nodes' <= options'.maxNodes
  <1>0. /\ stack \in Seq(Context) /\ stack # << >> /\ Back \in Context
        /\ Len(stack) \in 1 .. Len(stack) /\ options \in Option /\ nodes \in Nat
    BY OptionsType, LastUpdate DEF TypeOK, PrefixFits, Back
  <1>1. CASE c.op \in {"key", "end"}
    <2>1. UNCHANGED <<stack, nodes>> /\ pc' = IF c.op = "key" THEN "quote" ELSE "token"
      BY <1>1 DEF PrefixDone
    <2>2. Back' = Back /\ Healthy'
      BY <2>1 DEF Back, Healthy
    <2>3. StackFits' /\ StackLimits'
      BY <2>1 DEF StackFits, StackLimits
    <2>4. CallFits'
      BY <1>1, <2>1, <2>2 DEF CallFits, SingleFits, KeyFits, EndFits, SiteFits, DepthFits,
         PrefixFits, CountedFits, IsValue, MayEnd, PrefixSites, Sites
    <2>5. Synchronised'
      <3>1. ItemsShown' = Back.count /\ ~ Counting'
        BY <1>1, <2>1, <2>2 DEF ItemsShown, Counting, InName
      <3>2. ModeAgrees'
        <4>1. CASE c.op = "key"
          BY <4>1, <2>1, <2>2 DEF ModeAgrees, ModeBeforeBody, ModeBetween, ModeBeforeItem
        <4>2. CASE c.op = "end"
          BY <4>2, <1>0, <2>1, <2>2 DEF ModeAgrees, ModeBeforeBody, ModeBetween, PrefixFits, Context
        <4>3. QED
          BY <1>1, <4>1, <4>2
      <3>3. QED
        BY <2>1, <3>1, <3>2 DEF Synchronised
    <2>6. QED
      BY <1>0, <2>1, <2>3, <2>4, <2>5 DEF Sites
  <1>2. CASE c.op \notin {"key", "end"}
    <2> DEFINE v == [Back EXCEPT !.count = @ + 1]
    <2>1. /\ stack' = [stack EXCEPT ![Len(stack)] = v]
          /\ nodes' = nodes + c.nodes
          /\ pc' = Body(c)
      BY <1>2 DEF PrefixDone, Back
    <2>2. /\ v \in Context /\ v.object = Back.object /\ v.count = Back.count + 1
          /\ v.expect = Back.expect
      BY <1>0 DEF Context
    <2> HIDE DEF v
    <2>3. /\ stack' \in Seq(Context) /\ Len(stack') = Len(stack) /\ stack' # << >>
          /\ stack'[Len(stack)] = v
          /\ \A i \in 1 .. Len(stack) : i # Len(stack) => stack'[i] = stack[i]
      BY <1>0, <2>1, <2>2, LastUpdate
    <2>4. Back' = v /\ Healthy' /\ c.op \in {"start", "string", "atom"} /\ c.nodes \in Nat
      BY <1>2, <2>3 DEF Back, Healthy, Call
    <2>5. SameContainers(doc'.frames, stack', Back.count)
      BY <1>0, <2>1, <2>2, SameUpdated DEF Back, Document, Context
    <2>6. nodes' \in Nat /\ nodes' <= options'.maxNodes
      BY <1>0, <1>2, <2>1, <2>4 DEF PrefixFits, IsValue
    <2>7. StackFits' /\ StackLimits'
      <3>1. /\ ~ Back.object /\ ~ Back.expect /\ Back.count + 1 <= options.maxItems
            /\ Back.count \in Nat
        BY <1>0, <1>2 DEF PrefixFits, IsValue, Context, Option
      <3>2. StackFits'
        BY <1>0, <2>2, <2>3, <3>1 DEF StackFits
      <3>3. StackLimits'
        BY <1>0, <2>2, <2>3, <3>1 DEF StackLimits
      <3>4. QED
        BY <3>2, <3>3
    <2>8. CallFits'
      <3>1. Healthy' /\ ~ finished' /\ call' = c
        BY <2>4
      <3>2. SingleFits(call)' /\ KeyFits(call)' /\ EndFits(call)'
        BY <1>2, <3>1 DEF SingleFits, KeyFits, EndFits
      <3>3. SiteFits' /\ pc' \notin PrefixSites
        BY <1>2, <2>1, <2>4, <3>1 DEF SiteFits, Body, PrefixSites
      <3>4. DepthFits(call)'
        BY <2>3, <3>1 DEF DepthFits, IsValue
      <3>5. CountedFits(call)'
        <4>1. Back'.count > 0 /\ ~ Back'.expect
          BY <1>0, <2>2, <2>4 DEF PrefixFits, Context
        <4>2. rootWritten'
          BY <1>0 DEF StackFits
        <4>3. QED
          BY <4>1, <4>2 DEF CountedFits
      <3>6. QED
        BY <3>1, <3>2, <3>3, <3>4, <3>5 DEF CallFits
    <2>9. Synchronised'
      <3>1. ItemsShown' = Back.count /\ Counting'
        <4>1. ~ Back'.object /\ Back'.count - 1 = Back.count
          BY <1>0, <1>2, <2>2, <2>4 DEF PrefixFits, IsValue, Context
        <4>2. Counting'
          BY <1>2, <2>1 DEF Counting, Body
        <4>3. QED
          BY <4>1, <4>2 DEF ItemsShown
      <3>2. ModeAgrees'
        <4>1. /\ ~ Back.object /\ ~ Back'.object /\ Back'.count - 1 = Back.count
              /\ pc' \in {"quote", "token"}
          BY <1>0, <1>2, <2>1, <2>2, <2>4 DEF PrefixFits, IsValue, Body, Context
        <4>2. doc'.mode = IF Back.count = 0 THEN "first" ELSE "value"
          BY <1>2, <4>1 DEF ModeBeforeItem
        <4>3. ModeBeforeBody' = IF Back.count = 0 THEN "first" ELSE "value"
          BY <1>2, <2>3, <4>1 DEF ModeBeforeBody, ModeBeforeItem
        <4>4. QED
          BY <4>1, <4>2, <4>3 DEF ModeAgrees
      <3>3. doc'.values = nodes' - call'.nodes
        BY <1>0, <2>1, <2>4
      <3>4. QED
        BY <2>5, <3>1, <3>2, <3>3 DEF Synchronised
    <2>10. pc' \in Sites
      BY <2>1 DEF Body, Sites
    <2>11. QED
      BY <2>3, <2>6, <2>7, <2>8, <2>9, <2>10
  <1>3. QED
    BY <1>1, <1>2

-----------------------------------------------------------------------------
(* Every fragment a call sends is legal where it is sent.                  *)

SiteToken ==
  IF pc = "comma" THEN Token("comma")
  ELSE IF pc \in {"newline", "indent"} THEN Token("space")
  ELSE IF pc \in {"quote", "unquote"} THEN Token("quote")
  ELSE IF pc = "chars" THEN Token("chars")
  ELSE IF pc = "colon" THEN Token("colon")
  ELSE CallToken

LEMMA CallTokenType ==
  ASSUME TypeOK
  PROVE  CallToken \in Tokens
  BY TokenType DEF CallToken, TypeOK, Call, Tokens, Kinds

\* Where a counted value is due the grammar and the limits allow it.
LEMMA ValueLegal ==
  ASSUME TypeOK, IInv, pc \in {"quote", "token"}, IsValue(call), NEW t \in Tokens,
         t.nodes = call.nodes, t.depth = call.depth
  PROVE  MayPlace(doc, t, options)
  <1>1. Healthy /\ Counting /\ CountedFits(call) /\ DepthFits(call)
    BY DEF IInv, CallFits, Counting, IsValue, PrefixSites
  <1>2. /\ doc.values + t.nodes <= options.maxNodes
    BY <1>1 DEF IInv, Synchronised, WithinLimits, TypeOK, Call
  <1>3. Len(doc.frames) + t.depth <= options.maxDepth
    BY <1>1 DEF IInv, Synchronised, SameContainers, DepthFits
  <1>4. InArray(doc) => RoomForItem(doc, options)
    <2> SUFFICES ASSUME InArray(doc) PROVE RoomForItem(doc, options)
      OBVIOUS
    <2>1. stack # << >> /\ ~ Back.object /\ Innermost(doc).object = Back.object
          /\ Innermost(doc).items = Back.count - 1 /\ Back \in Context
      BY <1>1, InnermostIs DEF IInv, ItemsShown
    <2>2. Back.count <= options.maxItems
      BY <2>1 DEF IInv, WithinLimits, Back, TypeOK
    <2>3. QED
      BY <2>1, <2>2, OptionsType DEF RoomForItem, Context, TypeOK, Option
  <1>5. doc.mode = "value" \/ (doc.mode = "first" /\ InArray(doc))
    BY <1>1, InnermostIs DEF IInv, Synchronised, ModeAgrees, ModeBeforeBody, ModeBeforeItem,
       IsValue
  <1>6. QED
    BY <1>2, <1>3, <1>4, <1>5 DEF MayPlace

\* Where a key is due they allow it.
LEMMA NameLegal ==
  ASSUME TypeOK, IInv, pc = "quote", call.op = "key"
  PROVE  MayName(doc, options) /\ ~ MayPlace(doc, Token("quote"), options)
  <1>1. Healthy /\ KeyFits(call)
    BY DEF IInv, CallFits
  <1>2. /\ InObject(doc) /\ ~ InArray(doc) /\ Innermost(doc).object
        /\ Innermost(doc).items = Back.count
    BY <1>1, InnermostIs DEF IInv, KeyFits, ItemsShown, Counting, InName
  <1>3. doc.mode \in {"first", "item"}
    BY <1>1 DEF IInv, Synchronised, ModeAgrees, ModeBeforeBody, ModeBeforeItem, KeyFits
  <1>4. QED
    BY <1>1, <1>2, <1>3 DEF MayName, MayPlace, RoomForItem, KeyFits

\* Another item may follow where a comma is due.
LEMMA CommaLegal ==
  ASSUME TypeOK, IInv, pc = "comma"
  PROVE  doc.mode = "next" /\ Nested(doc) /\ RoomForItem(doc, options)
  <1>1. Healthy /\ PrefixFits(call) /\ KeyFits(call) /\ call.op # "end"
    BY DEF IInv, CallFits, PrefixSites, SiteFits
  <1>2. /\ Nested(doc) /\ Innermost(doc).object = Back.object
        /\ Innermost(doc).items = Back.count
    BY <1>1, InnermostIs DEF IInv, PrefixFits, ItemsShown, Counting, InName
  <1>3. Back.count < IF Back.object THEN options.maxMembers ELSE options.maxItems
    BY <1>1 DEF PrefixFits, KeyFits, IsValue
  <1>4. QED
    BY <1>1, <1>2, <1>3 DEF IInv, Synchronised, ModeAgrees, RoomForItem

\* The container that a call ends may end.
LEMMA EndLegal ==
  ASSUME TypeOK, IInv, pc = "token", call.op = "end"
  PROVE  /\ doc.mode \in {"first", "next"}
         /\ IF call.object THEN InObject(doc) ELSE InArray(doc)
  <1>1. Healthy /\ MayEnd(call.object)
    BY DEF IInv, CallFits, EndFits
  <1>2. QED
    BY <1>1, InnermostIs DEF IInv, Synchronised, ModeAgrees, ModeBeforeBody, ModeBetween, MayEnd

LEMMA SiteLegal ==
  ASSUME TypeOK, IInv, pc \in Sites
  PROVE  Legal(doc, SiteToken, options)
  <1>1. Healthy /\ Synchronised /\ SiteFits /\ SingleFits(call)
    BY DEF IInv, CallFits, Sites
  <1>2. CASE pc = "comma"
    BY <1>2, CommaLegal DEF SiteToken, Legal, Token
  <1>3. CASE pc \in {"newline", "indent"}
    <2>1. doc.mode \in {"next", "first", "item", "value"}
      BY <1>1, <1>3 DEF Synchronised, ModeAgrees, ModeBeforeItem
    <2>2. QED
      BY <1>3, <2>1 DEF SiteToken, Legal, Token
  <1>4. CASE pc = "quote"
    <2>1. CASE call.op = "key"
      BY <1>4, <2>1, NameLegal DEF SiteToken, Legal, Token
    <2>2. CASE call.op # "key"
      <3>1. call.op = "string" /\ Token("quote") \in Tokens
        BY <1>1, <1>4, <2>2, TokenType DEF SiteFits, Kinds
      <3>2. MayPlace(doc, Token("quote"), options)
        BY <1>1, <1>4, <3>1, ValueLegal DEF IsValue, SingleFits, Token
      <3>3. QED
        BY <1>4, <3>2 DEF SiteToken, Legal, Token
    <2>3. QED
      BY <2>1, <2>2
  <1>5. CASE pc \in {"chars", "unquote"}
    BY <1>1, <1>5 DEF Synchronised, ModeAgrees, SiteToken, Legal, Token
  <1>6. CASE pc = "colon"
    BY <1>1, <1>6 DEF Synchronised, ModeAgrees, SiteToken, Legal, Token
  <1>7. CASE pc = "token" /\ call.op = "end"
    BY <1>7, EndLegal DEF SiteToken, CallToken, Legal, Token
  <1>8. CASE pc = "token" /\ call.op # "end"
    <2>1. call.op \in {"start", "atom"}
      BY <1>1, <1>8 DEF SiteFits
    <2>2. CallToken.kind \in {"object", "array", "atom"}
          /\ CallToken.nodes = call.nodes /\ CallToken.depth = call.depth
      BY <1>1, <2>1 DEF CallToken, Token, SingleFits
    <2>3. MayPlace(doc, CallToken, options)
      BY <1>8, <2>1, <2>2, ValueLegal, CallTokenType DEF IsValue
    <2>4. QED
      BY <1>8, <2>2, <2>3 DEF SiteToken, Legal
  <1>9. QED
    BY <1>2, <1>3, <1>4, <1>5, <1>6, <1>7, <1>8 DEF Sites

-----------------------------------------------------------------------------
(* No step breaks the invariant.                                           *)

LEMMA LimitsSplit ==
  WithinLimits <=> /\ bytes = sent /\ bytes <= options.maxOutput
                   /\ nodes <= options.maxNodes /\ StackLimits
  BY DEF WithinLimits, StackLimits

\* After an error only the limits and the shape of the stack are left to keep.
LEMMA FailKeeps ==
  ASSUME TypeOK, IInv, NEW e \in Errors, Fail(e)
  PROVE  TypeOK' /\ IInv'
  <1>1. TypeOK'
    BY CallType DEF TypeOK, Fail, NoCall
  <1>2. failure' # NoError /\ pc' = "idle"
    BY DEF Fail, Errors, NoError
  <1>3. Synchronised' /\ CallFits'
    BY <1>2 DEF Synchronised, CallFits, Healthy
  <1>4. WithinLimits' /\ StackFits'
    BY DEF Fail, IInv, WithinLimits, StackFits
  <1>5. QED
    BY <1>1, <1>3, <1>4 DEF IInv

\* A writer that starts anew has an empty stack and a blank document.
LEMMA ClearedKeeps ==
  ASSUME TypeOK, Idle, NEW s \in BOOLEAN, NEW o \in Options, Cleared(s, o),
         failure' \in Errors \cup {NoError}
  PROVE  TypeOK' /\ IInv'
  <1>1. o \in Option /\ Blank \in Document
    BY OptionsType DEF Blank, Document, Modes
  <1>2. TypeOK'
    <2>1. /\ sink' \in BOOLEAN /\ options' \in Options /\ stack' \in Seq(Context)
          /\ bytes' \in Nat /\ nodes' \in Nat
      BY DEF Cleared
    <2>2. /\ rootWritten' \in BOOLEAN /\ finished' \in BOOLEAN
          /\ doc' \in Document /\ sent' \in Nat
      BY <1>1 DEF Cleared
    <2>3. UNCHANGED <<pc, call, left>>
      BY DEF Cleared, callVars
    <2>4. QED
      BY <2>1, <2>2, <2>3 DEF TypeOK
  <1>3. pc' = "idle" /\ stack' = << >> /\ doc' = Blank /\ nodes' = 0 /\ rootWritten' = FALSE
    BY DEF Cleared, Idle, callVars
  <1>4. Synchronised'
    BY <1>3 DEF Synchronised, SameContainers, ModeAgrees, ModeBetween, Counting, Blank
  <1>5. WithinLimits' /\ CallFits' /\ StackFits'
    BY <1>1, <1>3 DEF Cleared, WithinLimits, CallFits, StackFits, Option
  <1>6. QED
    BY <1>2, <1>4, <1>5 DEF IInv

\* A comma, a line break or nothing precedes an item that the checks let in.
LEMMA ItemPrefixKeeps ==
  ASSUME TypeOK, IInv, Active,
         NEW c \in Call, c.op # "end", SingleFits(c), DepthFits(c), KeyFits(c), PrefixFits(c),
         ItemPrefix(c, FirstSite(Back.count)),
         UNCHANGED <<sink, options, failure, bytes, finished, doc, sent>>
  PROVE  TypeOK' /\ IInv'
  <1>1. Healthy /\ ~ finished /\ pc = "idle" /\ stack # << >> /\ Back \in Context
    BY LastUpdate DEF Active, Usable, Idle, Healthy, PrefixFits, Back, TypeOK
  <1>2. /\ SameContainers(doc.frames, stack, Back.count) /\ doc.values = nodes
        /\ doc.mode = IF Back.count = 0 THEN "first" ELSE "next"
    BY <1>1 DEF IInv, Synchronised, ItemsShown, Counting, InName, ModeAgrees, ModeBetween,
       PrefixFits
  <1>3. CASE FirstSite(Back.count) = "none"
    <2>1. PrefixDone(c) /\ call' = c /\ UNCHANGED <<left, rootWritten>> /\ Back.count = 0
      BY <1>1, <1>3 DEF ItemPrefix, FirstSite, Context
    <2>2. doc'.mode = IF c.op = "end" THEN "next" ELSE ModeBeforeItem(Back.count)
      BY <1>2, <2>1 DEF ModeBeforeItem
    <2>3. /\ stack' \in Seq(Context) /\ nodes' \in Nat /\ pc' \in Sites
          /\ StackFits' /\ CallFits' /\ Synchronised' /\ StackLimits'
          /\ nodes' <= options'.maxNodes
      BY <1>1, <1>2, <2>1, <2>2, LimitsSplit, Prefixed DEF IInv, EndFits, TypeOK
    <2>4. TypeOK'
      BY <2>1, <2>3 DEF TypeOK
    <2>5. WithinLimits'
      BY <2>3, LimitsSplit DEF IInv, WithinLimits, StackLimits
    <2>6. QED
      BY <2>3, <2>4, <2>5 DEF IInv
  <1>4. CASE FirstSite(Back.count) # "none"
    <2>1. /\ call' = c /\ pc' = FirstSite(Back.count)
          /\ UNCHANGED <<left, rootWritten, stack, nodes>>
      BY <1>4 DEF ItemPrefix
    <2>2. \/ pc' = "comma" /\ Back.count > 0
          \/ pc' = "newline" /\ Back.count = 0
      BY <1>1, <1>4, <2>1 DEF FirstSite, Context
    <2>3. TypeOK'
      BY <2>1, <2>2 DEF TypeOK, Sites
    <2>4. WithinLimits' /\ StackFits'
      BY <2>1 DEF IInv, WithinLimits, StackFits
    <2>5. Back' = Back /\ Healthy' /\ ~ finished'
      BY <1>1, <2>1 DEF Back, Healthy
    <2>6. CallFits'
      BY <2>1, <2>2, <2>5 DEF CallFits, SingleFits, DepthFits, KeyFits, PrefixFits, EndFits,
         SiteFits, IsValue, PrefixSites
    <2>7. ItemsShown' = Back.count /\ ~ Counting'
      BY <2>2, <2>5 DEF ItemsShown, Counting, InName
    <2>8. ModeAgrees'
      BY <1>2, <2>1, <2>2, <2>5 DEF ModeAgrees, ModeBeforeItem
    <2>9. Synchronised'
      BY <1>2, <2>1, <2>7, <2>8 DEF Synchronised
    <2>10. QED
      BY <2>3, <2>4, <2>6, <2>9 DEF IInv
  <1>5. QED
    BY <1>3, <1>4

\* A value in its place and within the limits, or refused.
LEMMA WriteValueKeeps ==
  ASSUME TypeOK, IInv, Active,
         NEW c \in Call, IsValue(c), SingleFits(c),
         NEW refused \in BOOLEAN, NEW e \in Errors,
         ~ ValueOverLimit /\ ~ refused
           => DepthFits(c) /\ nodes + c.nodes <= options.maxNodes,
         WriteValue(c, refused, e)
  PROVE  TypeOK' /\ IInv'
  <1>1. CASE \E x \in Errors : Fail(x)
    BY <1>1, FailKeeps
  <1>2. CASE /\ ~ MisplacedValue /\ ~ ValueOverLimit /\ ~ refused
             /\ BeforeValue(c)
             /\ UNCHANGED <<sink, options, failure, bytes, finished, doc, sent>>
    <2>0. Healthy /\ ~ finished /\ pc = "idle" /\ Healthy' /\ ~ finished'
          /\ DepthFits(c) /\ nodes + c.nodes <= options.maxNodes
      BY <1>2 DEF Active, Usable, Idle, Healthy
    <2>1. /\ SameContainers(doc.frames, stack, Back.count) /\ doc.values = nodes
          /\ doc.mode = ModeBetween
      BY <2>0 DEF IInv, Synchronised, ItemsShown, Counting, InName, ModeAgrees
    <2>2. /\ c.op \in {"start", "string", "atom"} /\ Body(c) \in {"quote", "token"}
          /\ Body(c) = "quote" <=> c.op = "string"
          /\ c.nodes \in Nat
      BY DEF IsValue, Call, Body
    <2>3. CASE stack = << >>
      <3>1. /\ rootWritten' = TRUE /\ nodes' = nodes + c.nodes
            /\ pc' = Body(c) /\ call' = c /\ UNCHANGED <<stack, left>>
        BY <1>2, <2>3 DEF BeforeValue
      <3>2. TypeOK'
        BY <1>2, <2>2, <3>1 DEF TypeOK, Sites
      <3>3. WithinLimits' /\ StackFits'
        BY <1>2, <2>0, <2>3, <3>1 DEF IInv, WithinLimits, StackFits
      <3>4. CallFits'
        BY <1>2, <2>0, <2>2, <2>3, <3>1 DEF CallFits, SingleFits, DepthFits, KeyFits, EndFits,
           SiteFits, CountedFits, IsValue, PrefixSites
      <3>5. Synchronised'
        <4>1. ModeAgrees'
          BY <1>2, <2>1, <2>2, <2>3, <3>1 DEF ModeAgrees, ModeBetween, ModeBeforeBody,
             MisplacedValue
        <4>2. Counting'
          BY <2>2, <3>1 DEF Counting
        <4>3. SameContainers(doc'.frames, stack', ItemsShown')
          BY <1>2, <2>1, <2>3, <3>1 DEF SameContainers
        <4>4. QED
          BY <1>2, <2>1, <2>2, <3>1, <4>1, <4>2, <4>3 DEF Synchronised, TypeOK
      <3>6. QED
        BY <3>2, <3>3, <3>4, <3>5 DEF IInv
    <2>4. CASE stack # << >> /\ Back.object
      <3> DEFINE v == [Back EXCEPT !.expect = FALSE]
      <3>0. /\ stack \in Seq(Context) /\ Back \in Context /\ Len(stack) \in 1 .. Len(stack)
            /\ Back.expect
        BY <1>2, <2>4, LastUpdate DEF TypeOK, Back, MisplacedValue
      <3>a. stack' = [stack EXCEPT ![Len(stack)] = v]
        BY <1>2, <2>4 DEF BeforeValue, Back
      <3>1. /\ nodes' = nodes + c.nodes
            /\ pc' = Body(c) /\ call' = c /\ UNCHANGED <<rootWritten, left>>
        BY <1>2, <2>4 DEF BeforeValue, Back
      <3>2. /\ v \in Context /\ v.object /\ v.object = Back.object
            /\ v.count = Back.count /\ ~ v.expect
        BY <2>4, <3>0 DEF Context
      <3> HIDE DEF v
      <3>3. /\ stack' \in Seq(Context) /\ Len(stack') = Len(stack) /\ stack' # << >>
            /\ stack'[Len(stack)] = v
            /\ \A i \in 1 .. Len(stack) : i # Len(stack) => stack'[i] = stack[i]
        BY <2>4, <3>0, <3>a, <3>2, LastUpdate
      <3>4. Back' = v /\ Back.count > 0
        BY <3>0, <3>3 DEF Back, IInv, StackFits
      <3>5. TypeOK'
        BY <1>2, <2>2, <3>1, <3>3 DEF TypeOK, Sites
      <3>6. WithinLimits'
        <4>1. \A i \in 1 .. Len(stack) :
                stack'[i].object = stack[i].object /\ stack'[i].count = stack[i].count
          BY <3>0, <3>2, <3>3 DEF Back
        <4>2. QED
          BY <1>2, <2>0, <3>1, <3>3, <4>1 DEF IInv, WithinLimits, TypeOK
      <3>7. StackFits'
        <4>1. \A i \in 1 .. Len(stack) : i < Len(stack) => stack'[i] = stack[i]
          BY <3>0, <3>3
        <4>2. QED
          BY <3>1, <3>2, <3>3, <4>1 DEF IInv, StackFits
      <3>8. CallFits'
        <4>1. SingleFits(call)' /\ KeyFits(call)' /\ EndFits(call)' /\ SiteFits'
          BY <2>2, <3>1 DEF SingleFits, KeyFits, EndFits, SiteFits
        <4>2. DepthFits(call)'
          BY <1>2, <2>0, <3>1, <3>3 DEF DepthFits
        <4>3. CountedFits(call)'
          BY <2>4, <3>1, <3>2, <3>4 DEF CountedFits, IInv, StackFits
        <4>4. QED
          BY <2>0, <2>2, <3>1, <4>1, <4>2, <4>3 DEF CallFits, PrefixSites
      <3>9. Synchronised'
        <4>1. Counting' /\ ItemsShown' = Back.count
          BY <2>2, <3>1, <3>2, <3>4 DEF Counting, ItemsShown, InName
        <4>2. ModeAgrees'
          BY <1>2, <2>1, <2>2, <2>4, <3>0, <3>1, <3>2, <3>3, <3>4 DEF ModeAgrees, ModeBetween,
             ModeBeforeBody
        <4>3. SameContainers(doc'.frames, stack', Back.count)
          BY <1>2, <2>1, <2>4, <3>0, <3>a, <3>2, SameUpdated DEF TypeOK, Document, Context, Back
        <4>4. QED
          BY <1>2, <2>1, <2>2, <3>1, <4>1, <4>2, <4>3 DEF Synchronised, TypeOK
      <3>10. QED
        BY <3>5, <3>6, <3>7, <3>8, <3>9 DEF IInv
    <2>5. CASE stack # << >> /\ ~ Back.object
      <3>1. ItemPrefix(c, FirstSite(Back.count))
        BY <1>2, <2>5 DEF BeforeValue
      <3>2. Back \in Context /\ options \in Option /\ Len(stack) \in 1 .. Len(stack)
        BY <2>5, OptionsType, LastUpdate DEF TypeOK, Back
      <3>3. PrefixFits(c)
        BY <1>2, <2>0, <2>2, <2>5, <3>2 DEF PrefixFits, ValueOverLimit, ArrayIsFull, IInv,
           StackFits, Back, Context, Option
      <3>4. KeyFits(c)
        BY DEF KeyFits, IsValue
      <3>5. QED
        BY <1>2, <2>0, <2>2, <3>1, <3>3, <3>4, ItemPrefixKeeps
    <2>6. QED
      BY <2>3, <2>4, <2>5
  <1>3. QED
    BY <1>1, <1>2 DEF WriteValue, Errors

\* The calls.
LEMMA StartContainerKeeps ==
  ASSUME TypeOK, IInv, NEW object \in BOOLEAN, StartContainer(object)
  PROVE  TypeOK' /\ IInv'
  <1> DEFINE c == Bracket("start", object)
  <1>1. c \in Call /\ c.op = "start" /\ c.nodes = 1 /\ c.depth = 1
    BY CallType DEF Bracket, NewCall
  <1>2. ~ ValueOverLimit => DepthFits(c) /\ nodes + c.nodes <= options.maxNodes
    BY <1>1, OptionsType DEF ValueOverLimit, DepthFits, TypeOK, Option
  <1>3. Active /\ WriteValue(c, FALSE, "usage")
    BY DEF StartContainer
  <1> HIDE DEF c
  <1>4. QED
    BY <1>1, <1>2, <1>3, WriteValueKeeps DEF IsValue, SingleFits, Errors

LEMMA StringKeeps ==
  ASSUME TypeOK, IInv, NEW text \in Texts, String(text)
  PROVE  TypeOK' /\ IInv'
  <1> DEFINE c == Quoted("string", text)
  <1>1. c \in Call /\ c.op = "string" /\ c.nodes = 1 /\ c.depth = 1
    BY CallType DEF Quoted, NewCall
  <1>2. ~ ValueOverLimit => DepthFits(c) /\ nodes + c.nodes <= options.maxNodes
    BY <1>1, OptionsType DEF ValueOverLimit, DepthFits, TypeOK, Option
  <1>3. Fail("content") \/ WriteValue(c, FALSE, "usage")
    BY DEF String
  <1> HIDE DEF c
  <1>4. Active
    BY DEF String
  <1>5. QED
    BY <1>1, <1>2, <1>3, <1>4, WriteValueKeeps, FailKeeps DEF IsValue, SingleFits, Errors

LEMMA ScalarKeeps ==
  ASSUME TypeOK, IInv, NEW size \in ScalarSizes, Scalar(size)
  PROVE  TypeOK' /\ IInv'
  <1> DEFINE c == Literal(size)
  <1>1. c \in Call /\ c.op = "atom" /\ c.nodes = 1 /\ c.depth = 1
    BY CallType DEF Literal, NewCall
  <1>2. ~ ValueOverLimit => DepthFits(c) /\ nodes + c.nodes <= options.maxNodes
    BY <1>1, OptionsType DEF ValueOverLimit, DepthFits, TypeOK, Option
  <1>3. Active /\ WriteValue(c, FALSE, "usage")
    BY DEF Scalar
  <1> HIDE DEF c
  <1>4. QED
    BY <1>1, <1>2, <1>3, WriteValueKeeps DEF IsValue, SingleFits, Errors

LEMMA RawKeeps ==
  ASSUME TypeOK, IInv, NEW f \in Fragments, Raw(f)
  PROVE  TypeOK' /\ IInv'
  <1> DEFINE c == RawText(f)
  <1>1. c \in Call /\ c.op = "atom" /\ c.nodes = f.nodes /\ c.depth = f.depth
    BY CallType DEF RawText, NewCall
  <1>2. f \in Fragment /\ options \in Option
    BY InputsAssumption, OptionsType DEF TypeOK
  <1>3. ~ RawRefused(f) => DepthFits(c) /\ nodes + c.nodes <= options.maxNodes
    BY <1>1, <1>2 DEF RawRefused, DepthFits, TypeOK, Option, Fragment
  <1>4. Active /\ WriteValue(c, RawRefused(f), "content") /\ RawRefused(f) \in BOOLEAN
    BY DEF Raw, RawRefused
  <1> HIDE DEF c
  <1>5. QED
    BY <1>1, <1>3, <1>4, WriteValueKeeps DEF IsValue, SingleFits, Errors

LEMMA KeyKeeps ==
  ASSUME TypeOK, IInv, NEW text \in Texts, Key(text)
  PROVE  TypeOK' /\ IInv'
  <1>1. CASE \E e \in Errors : Fail(e)
    BY <1>1, FailKeeps
  <1>2. CASE /\ Active /\ MayKey /\ ~ Back.count >= options.maxMembers
             /\ ItemPrefix(Quoted("key", text), FirstSite(Back.count))
             /\ UNCHANGED <<sink, options, failure, bytes, finished, doc, sent>>
    <2> DEFINE c == Quoted("key", text)
    <2>1. c \in Call /\ c.op = "key"
      BY CallType DEF Quoted, NewCall
    <2>2. Back \in Context /\ options \in Option
      BY <1>2, OptionsType, LastUpdate DEF MayKey, Back, TypeOK
    <2>3. KeyFits(c) /\ PrefixFits(c) /\ SingleFits(c) /\ DepthFits(c)
      BY <1>2, <2>1, <2>2 DEF KeyFits, PrefixFits, SingleFits, DepthFits, IsValue, MayKey,
         Context, Option
    <2> HIDE DEF c
    <2>4. QED
      BY <1>2, <2>1, <2>3, ItemPrefixKeeps DEF c
  <1>3. QED
    BY <1>1, <1>2 DEF Key, Errors

LEMMA EndContainerKeeps ==
  ASSUME TypeOK, IInv, NEW object \in BOOLEAN, EndContainer(object)
  PROVE  TypeOK' /\ IInv'
  <1>1. CASE Fail("usage")
    BY <1>1, FailKeeps DEF Errors
  <1>2. CASE /\ MayEnd(object)
             /\ call' = Bracket("end", object)
             /\ pc' = IF options.pretty /\ Back.count > 0 THEN "newline" ELSE "token"
             /\ UNCHANGED <<writerVars, left, doc, sent>>
    <2>1. /\ call' \in Call /\ call'.op = "end" /\ call'.object = object
          /\ pc' \in {"newline", "token"} /\ (pc' = "newline" => Back.count > 0)
      BY <1>2, CallType DEF Bracket, NewCall
    <2>2. /\ Healthy /\ ~ finished /\ pc = "idle"
          /\ UNCHANGED <<sink, options, stack, failure, bytes, nodes, rootWritten, finished,
                         left, doc, sent>>
      BY <1>2 DEF EndContainer, Active, Usable, Idle, Healthy, writerVars
    <2>3. TypeOK'
      BY <2>1, <2>2 DEF TypeOK, Sites
    <2>4. WithinLimits' /\ StackFits'
      BY <2>2 DEF IInv, WithinLimits, StackFits
    <2>5. Back' = Back /\ Healthy' /\ stack # << >> /\ Back \in Context /\ ~ Back.expect
      BY <1>2, <2>2, LastUpdate DEF Back, Healthy, MayEnd, TypeOK
    <2>6. CallFits'
      BY <1>2, <2>1, <2>2, <2>5 DEF CallFits, SingleFits, DepthFits, KeyFits, EndFits, MayEnd,
         PrefixFits, SiteFits, CountedFits, IsValue, PrefixSites
    <2>7. ItemsShown' = Back.count /\ ItemsShown = Back.count /\ ~ Counting' /\ ~ Counting
      BY <2>1, <2>2, <2>5 DEF ItemsShown, Counting, InName
    <2>8. ModeAgrees'
      BY <2>1, <2>2, <2>5 DEF ModeAgrees, ModeBeforeBody, ModeBetween, IInv, Synchronised, Context
    <2>9. Synchronised'
      BY <2>2, <2>7, <2>8 DEF Synchronised, IInv
    <2>10. QED
      BY <2>3, <2>4, <2>6, <2>9 DEF IInv
  <1>3. QED
    BY <1>1, <1>2 DEF EndContainer

LEMMA FinishKeeps ==
  ASSUME TypeOK, IInv, Finish
  PROVE  TypeOK' /\ IInv'
  <1>1. CASE Fail("usage")
    BY <1>1, FailKeeps DEF Errors
  <1>2. CASE /\ finished' = TRUE
             /\ UNCHANGED <<sink, options, stack, failure, bytes, nodes, rootWritten,
                            callVars, doc, sent>>
    <2>1. TypeOK'
      BY <1>2 DEF TypeOK, callVars
    <2>2. pc' = "idle" /\ pc = "idle"
      BY <1>2 DEF Finish, Usable, Idle, callVars
    <2>3. CallFits' /\ WithinLimits' /\ StackFits'
      BY <1>2, <2>2 DEF CallFits, IInv, WithinLimits, StackFits
    <2>4. Synchronised'
      BY <1>2, <2>2 DEF IInv, Synchronised, Healthy, ItemsShown, Counting, InName, ModeAgrees,
         ModeBetween, Back, callVars
    <2>5. QED
      BY <2>1, <2>3, <2>4 DEF IInv
  <1>3. QED
    BY <1>1, <1>2 DEF Finish

LEMMA CallsKeep ==
  ASSUME TypeOK, IInv, Calls
  PROVE  TypeOK' /\ IInv'
  <1>1. CASE \E object \in BOOLEAN : StartContainer(object) \/ EndContainer(object)
    BY <1>1, StartContainerKeeps, EndContainerKeeps
  <1>2. CASE \E text \in Texts : Key(text) \/ String(text)
    BY <1>2, KeyKeeps, StringKeeps
  <1>3. CASE \E size \in ScalarSizes : Scalar(size)
    BY <1>3, ScalarKeeps
  <1>4. CASE \E f \in Fragments : Raw(f)
    BY <1>4, RawKeeps
  <1>5. CASE RefusedValue \/ UseAfterFinish
    BY <1>5, FailKeeps DEF RefusedValue, UseAfterFinish, Errors
  <1>6. CASE Finish
    BY <1>6, FinishKeeps
  <1>7. ASSUME NEW s, NEW o
        PROVE  ResetFailure(s, o) \in Errors \cup {NoError}
    BY DEF ResetFailure, Errors
  <1>8. CASE Reset \/ MoveFrom \/ \E s \in BOOLEAN, o \in Options : Assign(s, o)
    BY <1>7, <1>8, ClearedKeeps DEF Reset, MoveFrom, Assign, TypeOK
  <1>9. QED
    BY <1>1, <1>2, <1>3, <1>4, <1>5, <1>6, <1>8 DEF Calls

\* The fragments.  An accepted fragment is read as what the grammar makes of it.
LEMMA EmitFacts ==
  ASSUME TypeOK, IInv, pc \in Sites, NEW size \in Nat \ {0}, Emit(SiteToken, size)
  PROVE  /\ doc' = After(doc, SiteToken) /\ doc' \in Document
         /\ bytes' = sent' /\ bytes' <= options.maxOutput /\ bytes' \in Nat /\ sent' \in Nat
         /\ UNCHANGED <<sink, options, finished>>
         /\ Healthy /\ ~ finished /\ call \in Call /\ options \in Option
         /\ stack \in Seq(Context) /\ nodes \in Nat
  <1>1. SiteToken \in Tokens
    BY TokenType, CallTokenType DEF SiteToken, Kinds
  <1>2. doc' = After(doc, SiteToken) /\ doc' \in Document
    BY <1>1, SiteLegal, ReadType DEF Emit, Read, TypeOK
  <1>3. options \in Option /\ bytes = sent /\ bytes \in Nat
    BY OptionsType DEF TypeOK, IInv, WithinLimits
  <1>4. /\ bytes' = sent' /\ bytes' <= options.maxOutput /\ bytes' \in Nat /\ sent' \in Nat
        /\ UNCHANGED <<sink, options, finished>>
    BY <1>3 DEF Emit, Remaining, Option
  <1>5. QED
    BY <1>2, <1>3, <1>4 DEF IInv, CallFits, Sites, TypeOK

\* What is left to show of a fragment that changes neither stack nor counters.
LEMMA SentKeeps ==
  ASSUME TypeOK, IInv, pc \in Sites, NEW size \in Nat \ {0}, Emit(SiteToken, size),
         UNCHANGED <<stack, nodes, failure, rootWritten>>, call' \in Call, left' \in Nat,
         pc' \in Sites \cup {"idle", "measure"}, CallFits',
         SameContainers(doc'.frames, stack, ItemsShown'), ModeAgrees',
         doc'.values = IF Counting' THEN nodes - call'.nodes ELSE nodes
  PROVE  TypeOK' /\ IInv'
  <1>1. TypeOK'
    BY EmitFacts DEF TypeOK
  <1>2. WithinLimits' /\ StackFits'
    BY EmitFacts DEF IInv, WithinLimits, StackFits
  <1>3. Synchronised'
    BY DEF Synchronised
  <1>4. QED
    BY <1>1, <1>2, <1>3 DEF IInv

\* A prefix that ends with this fragment.
LEMMA PrefixSent ==
  ASSUME TypeOK, IInv, pc \in {"comma", "indent"},
         NEW size \in Nat \ {0}, Emit(SiteToken, size),
         UNCHANGED <<call, failure, rootWritten>>, left' \in Nat, PrefixDone(call),
         doc'.frames = doc.frames, doc'.values = doc.values,
         doc'.mode = IF call.op = "end" THEN "next" ELSE ModeBeforeItem(Back.count)
  PROVE  TypeOK' /\ IInv'
  <1>1. SingleFits(call) /\ DepthFits(call) /\ KeyFits(call) /\ EndFits(call) /\ PrefixFits(call)
    BY DEF IInv, CallFits, PrefixSites
  <1>2. SameContainers(doc'.frames, stack, Back.count) /\ doc'.values = nodes
    BY EmitFacts DEF IInv, Synchronised, ItemsShown, Counting, InName, Sites
  <1>3. pc \in Sites /\ StackFits /\ StackLimits /\ nodes <= options.maxNodes
    BY LimitsSplit DEF Sites, IInv
  <1>4. /\ stack' \in Seq(Context) /\ nodes' \in Nat /\ pc' \in Sites
        /\ StackFits' /\ CallFits' /\ Synchronised' /\ StackLimits'
        /\ nodes' <= options'.maxNodes
    BY <1>1, <1>2, <1>3, EmitFacts, Prefixed
  <1>5. TypeOK'
    BY <1>3, <1>4, EmitFacts DEF TypeOK
  <1>6. WithinLimits'
    BY <1>3, <1>4, EmitFacts DEF WithinLimits, StackLimits
  <1>7. QED
    BY <1>4, <1>5, <1>6 DEF IInv

\* Within a prefix what is known of the call stays known.
LEMMA PrefixStays ==
  ASSUME IInv, pc \in PrefixSites, pc' \in PrefixSites \ {"comma"}, pc' = "indent" => left' > 0,
         UNCHANGED <<sink, options, stack, failure, nodes, rootWritten, finished, call>>
  PROVE  CallFits'
  <1>1. /\ Healthy /\ ~ finished /\ SingleFits(call) /\ KeyFits(call) /\ EndFits(call)
        /\ DepthFits(call) /\ PrefixFits(call)
    BY DEF IInv, CallFits, PrefixSites
  <1>2. Healthy' /\ ~ finished' /\ SingleFits(call)' /\ DepthFits(call)'
    BY <1>1 DEF Healthy, SingleFits, DepthFits, IsValue
  <1>3. KeyFits(call)' /\ EndFits(call)' /\ PrefixFits(call)'
    BY <1>1 DEF KeyFits, EndFits, PrefixFits, MayEnd, IsValue, Back
  <1>4. SiteFits' /\ pc' \in PrefixSites /\ pc' \notin {"chars", "unquote"}
    BY DEF SiteFits, PrefixSites
  <1>5. QED
    BY <1>2, <1>3, <1>4 DEF CallFits

LEMMA EmitCommaKeeps ==
  ASSUME TypeOK, IInv, EmitComma
  PROVE  TypeOK' /\ IInv'
  <1>1. pc \in Sites /\ pc = "comma" /\ Emit(SiteToken, 1) /\ SiteToken = Token("comma")
    BY DEF EmitComma, Sites, SiteToken
  <1>2. doc' = [doc EXCEPT !.mode = IF InObject(doc) THEN "item" ELSE "value"]
    BY <1>1, EmitFacts DEF After, Token
  <1>3. /\ Back.count > 0 /\ call.op # "end" /\ stack # << >> /\ Healthy
    BY <1>1 DEF IInv, CallFits, SiteFits, PrefixFits, PrefixSites
  <1>4. /\ doc'.frames = doc.frames /\ doc'.values = doc.values
        /\ doc'.mode = ModeBeforeItem(Back.count)
    BY <1>2, <1>3, InnermostIs DEF TypeOK, Document, ModeBeforeItem, IInv
  <1>5. CASE options.pretty /\ pc' = "newline" /\ UNCHANGED <<stack, nodes>>
    <2>1. UNCHANGED <<call, left, failure, rootWritten>> /\ Back' = Back
      BY <1>5 DEF EmitComma, Back
    <2>2. CallFits'
      BY <1>1, <1>5, <2>1, EmitFacts, PrefixStays DEF PrefixSites
    <2>3. ItemsShown' = Back.count /\ ItemsShown = Back.count /\ ~ Counting' /\ ~ Counting
      BY <1>1, <1>5, <2>1 DEF ItemsShown, Counting, InName
    <2>4. ModeAgrees'
      BY <1>3, <1>4, <1>5, <2>1 DEF ModeAgrees, ModeBeforeItem
    <2>5. SameContainers(doc'.frames, stack, ItemsShown') /\ doc'.values = nodes
      BY <1>3, <1>4, <2>3 DEF IInv, Synchronised
    <2>6. QED
      BY <1>1, <1>5, <2>1, <2>2, <2>3, <2>4, <2>5, SentKeeps DEF TypeOK, Sites
  <1>6. CASE ~ options.pretty /\ PrefixDone(call)
    BY <1>1, <1>3, <1>4, <1>6, PrefixSent DEF EmitComma, TypeOK
  <1>7. QED
    BY <1>5, <1>6 DEF EmitComma

LEMMA EmitNewlineKeeps ==
  ASSUME TypeOK, IInv, EmitNewline
  PROVE  TypeOK' /\ IInv'
  <1>1. pc \in Sites /\ pc = "newline" /\ Emit(SiteToken, 1) /\ SiteToken = Token("space")
    BY DEF EmitNewline, Sites, SiteToken
  <1>2. doc' = doc
    BY <1>1, EmitFacts DEF After, Token
  <1>3. pc' = "measure" /\ UNCHANGED <<stack, failure, nodes, rootWritten, call, left>>
        /\ Back' = Back
    BY DEF EmitNewline, Back
  <1>4. CallFits'
    BY <1>1, <1>3, EmitFacts, PrefixStays DEF PrefixSites
  <1>5. ItemsShown' = ItemsShown /\ ~ Counting' /\ ~ Counting
    BY <1>1, <1>3 DEF ItemsShown, Counting, InName
  <1>6. ModeAgrees' /\ SameContainers(doc'.frames, stack, ItemsShown') /\ doc'.values = nodes
    BY <1>1, <1>2, <1>3, <1>5, EmitFacts DEF IInv, Synchronised, ModeAgrees, ModeBeforeItem
  <1>7. QED
    BY <1>1, <1>3, <1>4, <1>5, <1>6, SentKeeps DEF TypeOK

LEMMA MeasureKeeps ==
  ASSUME TypeOK, IInv, Measure
  PROVE  TypeOK' /\ IInv'
  <1>0. /\ pc = "measure" /\ Healthy /\ ~ finished /\ stack # << >> /\ options \in Option
        /\ call \in Call /\ stack \in Seq(Context)
        /\ SingleFits(call) /\ DepthFits(call) /\ KeyFits(call) /\ EndFits(call)
        /\ PrefixFits(call)
    BY OptionsType DEF Measure, IInv, CallFits, PrefixFits, PrefixSites, TypeOK
  <1>1. ItemsShown = Back.count /\ ~ Counting /\ doc.values = nodes
        /\ SameContainers(doc.frames, stack, Back.count)
        /\ doc.mode = IF call.op = "end" THEN "next" ELSE ModeBeforeItem(Back.count)
    BY <1>0 DEF ItemsShown, Counting, InName, IInv, Synchronised, ModeAgrees
  <1>2. CASE Fail("limit")
    BY <1>2, FailKeeps DEF Errors
  <1>3. CASE /\ 0 < Indentation
             /\ pc' = "indent" /\ left' = Indentation
             /\ UNCHANGED <<writerVars, call, doc, sent>>
    <2>1. Indentation \in Nat
      BY <1>0, <1>3 DEF Indentation, Option
    <2>2. UNCHANGED <<sink, options, stack, failure, bytes, nodes, rootWritten, finished>>
          /\ Back' = Back
      BY <1>3 DEF writerVars, Back
    <2>3. TypeOK'
      BY <1>3, <2>1, <2>2 DEF TypeOK, Sites
    <2>4. WithinLimits' /\ StackFits'
      BY <1>3, <2>2 DEF IInv, WithinLimits, StackFits
    <2>5. CallFits'
      BY <1>0, <1>3, <2>2, PrefixStays DEF PrefixSites
    <2>6. ItemsShown' = Back.count /\ ~ Counting'
      BY <1>3, <2>2 DEF ItemsShown, Counting, InName
    <2>7. ModeAgrees'
      BY <1>1, <1>3, <2>2 DEF ModeAgrees, ModeBeforeItem
    <2>8. QED
      BY <1>1, <1>3, <2>2, <2>3, <2>4, <2>5, <2>6, <2>7 DEF IInv, Synchronised
  <1>4. CASE /\ PrefixDone(call)
             /\ UNCHANGED <<sink, options, failure, bytes, rootWritten, finished, call, left,
                            doc, sent>>
    <2>1. StackFits /\ StackLimits /\ nodes <= options.maxNodes /\ bytes = sent
          /\ bytes <= options.maxOutput
      BY LimitsSplit DEF IInv
    <2>2. /\ stack' \in Seq(Context) /\ nodes' \in Nat /\ pc' \in Sites
          /\ StackFits' /\ CallFits' /\ Synchronised' /\ StackLimits'
          /\ nodes' <= options'.maxNodes
      BY <1>0, <1>1, <1>4, <2>1, Prefixed DEF TypeOK
    <2>3. TypeOK'
      BY <1>4, <2>2 DEF TypeOK
    <2>4. WithinLimits'
      BY <1>4, <2>1, <2>2 DEF WithinLimits, StackLimits
    <2>5. QED
      BY <2>2, <2>3, <2>4 DEF IInv
  <1>5. QED
    BY <1>2, <1>3, <1>4 DEF Measure

LEMMA EmitIndentKeeps ==
  ASSUME TypeOK, IInv, EmitIndent
  PROVE  TypeOK' /\ IInv'
  <1>1. /\ pc \in Sites /\ pc = "indent" /\ SiteToken = Token("space")
        /\ Emit(SiteToken, SpacesRun) /\ UNCHANGED <<call, failure, rootWritten>>
        /\ left' = left - SpacesRun
    BY DEF EmitIndent, Sites, SiteToken
  <1>2. SpacesRun \in Nat \ {0} /\ left' \in Nat
    BY <1>1, WidthsAssumption DEF SpacesRun, TypeOK, IInv, CallFits, SiteFits
  <1>3. doc' = doc
    BY <1>1, <1>2, EmitFacts DEF After, Token
  <1>4. Healthy
    BY <1>1, <1>2, EmitFacts
  <1>5. CASE left' # 0 /\ UNCHANGED <<pc, stack, nodes>>
    <2>1. CallFits'
      BY <1>1, <1>2, <1>5, EmitFacts, PrefixStays DEF PrefixSites
    <2>2. ItemsShown' = ItemsShown /\ ~ Counting' /\ ~ Counting /\ Back' = Back
      BY <1>1, <1>5 DEF ItemsShown, Counting, InName, Back
    <2>3. ModeAgrees' /\ SameContainers(doc'.frames, stack, ItemsShown') /\ doc'.values = nodes
      BY <1>1, <1>3, <1>4, <1>5, <2>2 DEF IInv, Synchronised, ModeAgrees, ModeBeforeItem
    <2>4. QED
      BY <1>1, <1>2, <1>5, <2>1, <2>2, <2>3, SentKeeps DEF TypeOK
  <1>6. CASE PrefixDone(call)
    <2>1. doc'.mode = IF call.op = "end" THEN "next" ELSE ModeBeforeItem(Back.count)
      BY <1>1, <1>3, <1>4 DEF IInv, Synchronised, ModeAgrees
    <2>2. QED
      BY <1>1, <1>2, <1>3, <1>6, <2>1, PrefixSent
  <1>7. QED
    BY <1>5, <1>6 DEF EmitIndent

\* A counted value that is placed in the document.
LEMMA PlacedSame ==
  ASSUME TypeOK, IInv, pc \in {"quote", "token"}, IsValue(call),
         NEW t \in Tokens, t.nodes = call.nodes, NEW m \in Modes
  PROVE  LET d == Placed(doc, t, m)
         IN /\ d \in Document /\ d.mode = m /\ d.values = nodes
            /\ SameContainers(d.frames, stack, Back.count)
  <1>1. Healthy /\ Counting /\ CountedFits(call)
    BY DEF IInv, CallFits, Counting, IsValue, PrefixSites
  <1>2. /\ SameContainers(doc.frames, stack, ItemsShown) /\ doc.values = nodes - call.nodes
        /\ doc.frames \in Seq(Frame) /\ stack \in Seq(Context) /\ call.nodes \in Nat
        /\ nodes \in Nat
    BY <1>1 DEF IInv, Synchronised, TypeOK, Document, Call
  <1>3. Placed(doc, t, m) \in Document
    BY PlacedType DEF TypeOK
  <1>4. Placed(doc, t, m).mode = m /\ Placed(doc, t, m).values = nodes
    BY <1>2 DEF Placed
  <1>5. SameContainers(Placed(doc, t, m).frames, stack, Back.count)
    <2>1. CASE InArray(doc)
      <3>1. /\ stack # << >> /\ ItemsShown = Back.count - 1 /\ ItemsShown \in Nat
            /\ doc.frames # << >> /\ Back.count \in Nat
        BY <1>1, <2>1, InnermostIs DEF IInv, ItemsShown, CountedFits, Context, InArray, Nested
      <3>2. SameContainers(Counted(doc.frames), stack, ItemsShown + 1)
        BY <1>2, <3>1, SameCounted
      <3>3. QED
        BY <2>1, <3>1, <3>2 DEF Placed
    <2>2. CASE ~ InArray(doc)
      <3>1. CASE stack = << >>
        BY <1>2, <2>2, <3>1 DEF Placed, SameContainers
      <3>2. CASE stack # << >>
        BY <1>1, <1>2, <2>2, <3>2, InnermostIs DEF IInv, ItemsShown, InName, Counting, Placed
      <3>3. QED
        BY <3>1, <3>2
    <2>3. QED
      BY <2>1, <2>2
  <1>6. QED
    BY <1>3, <1>4, <1>5

LEMMA EmitQuoteKeeps ==
  ASSUME TypeOK, IInv, EmitQuote
  PROVE  TypeOK' /\ IInv'
  <1>1. /\ pc \in Sites /\ pc = "quote" /\ SiteToken = Token("quote") /\ Emit(SiteToken, 1)
        /\ pc' \in {"chars", "unquote"} /\ (pc' = "chars" => call.pieces # << >>)
        /\ UNCHANGED <<stack, failure, nodes, rootWritten, call, left>>
    BY DEF EmitQuote, Sites, SiteToken
  <1>2. /\ Healthy /\ ~ finished /\ SingleFits(call) /\ KeyFits(call) /\ CountedFits(call)
        /\ call.op \in {"key", "string"}
    BY <1>1 DEF IInv, CallFits, SiteFits, PrefixSites
  <1>3. doc' = AfterQuote(doc, Token("quote")) /\ Back' = Back
        /\ UNCHANGED <<sink, options, finished>>
    BY <1>1, EmitFacts DEF After, Token, Back
  <1>4. CallFits'
    <2>1. Healthy' /\ ~ finished' /\ SingleFits(call)' /\ EndFits(call)' /\ SiteFits'
      BY <1>1, <1>2, <1>3 DEF Healthy, SingleFits, EndFits, SiteFits
    <2>2. KeyFits(call)' /\ CountedFits(call)'
      BY <1>1, <1>2, <1>3 DEF KeyFits, CountedFits, IsValue, Back
    <2>3. QED
      BY <1>1, <2>1, <2>2 DEF CallFits, PrefixSites
  <1>5. ModeAgrees' /\ SameContainers(doc'.frames, stack, ItemsShown')
        /\ doc'.values = nodes /\ ~ Counting'
    <2>1. CASE call.op = "key"
      <3>1. InObject(doc) /\ doc.mode \in {"first", "item"} /\ stack # << >>
        BY <1>1, <1>2, <2>1, NameLegal DEF MayName, KeyFits
      <3>2. doc' = [doc EXCEPT !.mode = "name", !.frames = Counted(@)]
        BY <1>3, <3>1 DEF AfterQuote
      <3>3. ItemsShown = Back.count /\ ~ Counting
        BY <1>1, <2>1 DEF ItemsShown, Counting, InName
      <3>4. /\ SameContainers(doc.frames, stack, Back.count) /\ doc.values = nodes
            /\ doc \in Document /\ stack \in Seq(Context) /\ Back.count \in Nat
        BY <1>2, <3>1, <3>3, InnermostIs DEF IInv, Synchronised, TypeOK, Context
      <3>5. SameContainers(Counted(doc.frames), stack, Back.count + 1)
        BY <3>1, <3>4, SameCounted DEF Document, InObject, Nested
      <3>6. ItemsShown' = Back.count + 1 /\ ~ Counting'
        BY <1>1, <1>3, <2>1 DEF ItemsShown, Counting, InName
      <3>7. doc'.mode = "name" /\ doc'.frames = Counted(doc.frames) /\ doc'.values = doc.values
        BY <3>2, <3>4 DEF Document
      <3>8. QED
        BY <1>1, <2>1, <3>4, <3>5, <3>6, <3>7 DEF ModeAgrees
    <2>2. CASE call.op = "string"
      <3>1. MayPlace(doc, Token("quote"), options) /\ Token("quote") \in Tokens
            /\ Token("quote").nodes = call.nodes
        BY <1>1, <1>2, <2>2, ValueLegal, TokenType DEF IsValue, SingleFits, Token, Kinds
      <3>2. doc' = Placed(doc, Token("quote"), "text")
        BY <1>3, <3>1 DEF AfterQuote, MayPlace, InObject, InArray
      <3>3. /\ doc'.mode = "text" /\ doc'.values = nodes
            /\ SameContainers(doc'.frames, stack, Back.count)
        BY <1>1, <2>2, <3>1, <3>2, PlacedSame DEF IsValue, Modes
      <3>4. ItemsShown' = Back.count /\ ~ Counting'
        BY <1>1, <1>3, <2>2 DEF ItemsShown, Counting, InName
      <3>5. QED
        BY <1>1, <2>2, <3>3, <3>4 DEF ModeAgrees
    <2>3. QED
      BY <1>2, <2>1, <2>2
  <1>6. QED
    BY <1>1, <1>4, <1>5, SentKeeps DEF TypeOK, Sites

LEMMA EmitCharsKeeps ==
  ASSUME TypeOK, IInv, EmitChars
  PROVE  TypeOK' /\ IInv'
  <1>1. /\ pc \in Sites /\ pc = "chars" /\ SiteToken = Token("chars")
        /\ Emit(SiteToken, Head(call.pieces))
        /\ pc' \in {"chars", "unquote"} /\ (pc' = "chars" => Tail(call.pieces) # << >>)
        /\ UNCHANGED <<stack, failure, nodes, rootWritten, left>> /\ Back' = Back
        /\ call' = [call EXCEPT !.pieces = Tail(@)]
    BY DEF EmitChars, Sites, SiteToken, Back
  <1>2. /\ Healthy /\ ~ finished /\ SingleFits(call) /\ KeyFits(call) /\ CountedFits(call)
        /\ call.op \in {"key", "string"} /\ call.pieces # << >> /\ call.pieces \in Seq(Nat \ {0})
    BY <1>1 DEF IInv, CallFits, SiteFits, PrefixSites, TypeOK, Call
  <1>3. Head(call.pieces) \in Nat \ {0} /\ Tail(call.pieces) \in Seq(Nat \ {0})
    BY <1>2
  <1>4. /\ call' \in Call /\ call'.op = call.op /\ call'.nodes = call.nodes
        /\ call'.depth = call.depth /\ call'.pieces = Tail(call.pieces)
    BY <1>1, <1>3 DEF TypeOK, Call
  <1>5. doc' = doc /\ UNCHANGED <<sink, options, finished>>
    BY <1>1, <1>3, EmitFacts DEF After, Token
  <1>6. CallFits'
    <2>1. Healthy' /\ ~ finished' /\ SingleFits(call)' /\ EndFits(call)' /\ SiteFits'
      BY <1>1, <1>2, <1>4, <1>5 DEF Healthy, SingleFits, EndFits, SiteFits
    <2>2. KeyFits(call)' /\ CountedFits(call)'
      BY <1>1, <1>2, <1>4, <1>5 DEF KeyFits, CountedFits, IsValue
    <2>3. QED
      BY <1>1, <2>1, <2>2 DEF CallFits, PrefixSites
  <1>7. ItemsShown' = ItemsShown /\ ~ Counting' /\ ~ Counting
    BY <1>1, <1>2, <1>4 DEF ItemsShown, Counting, InName
  <1>8. ModeAgrees' /\ SameContainers(doc'.frames, stack, ItemsShown') /\ doc'.values = nodes
    BY <1>1, <1>2, <1>4, <1>5, <1>7 DEF IInv, Synchronised, ModeAgrees
  <1>9. QED
    BY <1>1, <1>3, <1>4, <1>6, <1>7, <1>8, SentKeeps DEF TypeOK, Sites

LEMMA EmitUnquoteKeeps ==
  ASSUME TypeOK, IInv, EmitUnquote
  PROVE  TypeOK' /\ IInv'
  <1>1. /\ pc \in Sites /\ pc = "unquote" /\ SiteToken = Token("quote") /\ Emit(SiteToken, 1)
        /\ UNCHANGED <<stack, failure, nodes, rootWritten>> /\ Back' = Back
    BY DEF EmitUnquote, Sites, SiteToken, Back
  <1>2. /\ Healthy /\ ~ finished /\ SingleFits(call) /\ KeyFits(call) /\ CountedFits(call)
        /\ call.op \in {"key", "string"}
    BY <1>1 DEF IInv, CallFits, SiteFits, PrefixSites
  <1>3. doc' = AfterQuote(doc, Token("quote")) /\ UNCHANGED <<sink, options, finished>>
    BY <1>1, EmitFacts DEF After, Token
  <1>4. /\ SameContainers(doc.frames, stack, ItemsShown) /\ doc.values = nodes
        /\ doc.mode = IF call.op = "key" THEN "name" ELSE "text"
        /\ doc \in Document
    BY <1>1, <1>2 DEF IInv, Synchronised, Counting, ModeAgrees, TypeOK
  <1>5. CASE call.op = "key" /\ pc' = "colon" /\ UNCHANGED <<call, left>>
    <2>1. doc'.mode = "colon" /\ doc'.frames = doc.frames /\ doc'.values = doc.values
      BY <1>3, <1>4, <1>5 DEF AfterQuote, Document
    <2>2. CallFits'
      <3>1. Healthy' /\ ~ finished' /\ SingleFits(call)' /\ EndFits(call)' /\ SiteFits'
            /\ DepthFits(call)' /\ CountedFits(call)'
        BY <1>1, <1>2, <1>3, <1>5 DEF Healthy, SingleFits, EndFits, SiteFits, DepthFits,
           CountedFits, IsValue
      <3>2. KeyFits(call)'
        BY <1>1, <1>2, <1>3, <1>5 DEF KeyFits
      <3>3. QED
        BY <1>5, <3>1, <3>2 DEF CallFits, PrefixSites
    <2>3. ItemsShown' = ItemsShown /\ ~ Counting'
      BY <1>1, <1>5 DEF ItemsShown, Counting, InName
    <2>4. ModeAgrees'
      BY <1>5, <2>1 DEF ModeAgrees
    <2>5. QED
      BY <1>1, <1>4, <1>5, <2>1, <2>2, <2>3, <2>4, SentKeeps DEF TypeOK, Sites
  <1>6. CASE call.op # "key" /\ Return
    <2>1. doc'.mode = "next" /\ doc'.frames = doc.frames /\ doc'.values = doc.values
      BY <1>3, <1>4, <1>6 DEF AfterQuote, Document
    <2>2. pc' = "idle" /\ left' = 0 /\ call' \in Call /\ CallFits'
      BY <1>6, CallType DEF Return, NoCall, CallFits
    <2>3. ItemsShown' = Back.count /\ ItemsShown = Back.count /\ ~ Counting'
      BY <1>1, <1>6, <2>2 DEF ItemsShown, Counting, InName
    <2>4. ModeBetween' = "next"
      BY <1>1, <1>2, <1>6 DEF ModeBetween, CountedFits, IsValue
    <2>5. ModeAgrees'
      BY <2>1, <2>2, <2>4 DEF ModeAgrees
    <2>6. QED
      BY <1>1, <1>4, <2>1, <2>2, <2>3, <2>5, SentKeeps
  <1>7. QED
    BY <1>5, <1>6 DEF EmitUnquote

LEMMA EmitColonKeeps ==
  ASSUME TypeOK, IInv, EmitColon
  PROVE  TypeOK' /\ IInv'
  <1> DEFINE v == [Back EXCEPT !.count = @ + 1, !.expect = TRUE]
  <1>1. /\ pc \in Sites /\ pc = "colon" /\ SiteToken = Token("colon") /\ Emit(SiteToken, ColonSize)
        /\ pc' = "idle" /\ left' = 0 /\ call' \in Call
        /\ UNCHANGED <<failure, nodes, rootWritten>> /\ ColonSize \in Nat \ {0}
    BY CallType DEF EmitColon, Sites, SiteToken, Return, NoCall, ColonSize
  <1>2. /\ Healthy /\ call.op = "key" /\ stack # << >> /\ Back.object /\ ~ Back.expect
        /\ Back.count < options.maxMembers /\ options \in Option
        /\ stack \in Seq(Context) /\ Back \in Context /\ Len(stack) \in 1 .. Len(stack)
    BY <1>1, OptionsType, LastUpdate DEF IInv, CallFits, SiteFits, KeyFits, TypeOK, Back
  <1>3. stack' = [stack EXCEPT ![Len(stack)] = v]
    BY <1>2, LastUpdate DEF EmitColon, Back, Context
  <1>4. /\ v \in Context /\ v.object /\ v.object = Back.object /\ v.count = Back.count + 1
        /\ v.expect
    <2>1. v.object = Back.object /\ v.count = Back.count + 1 /\ v.expect
      BY <1>2 DEF Context
    <2> DEFINE u == [Back EXCEPT !.count = @ + 1]
    <2>2. v = [u EXCEPT !.expect = TRUE]
      OBVIOUS
    <2>3. u \in Context
      BY <1>2 DEF Context
    <2> HIDE DEF u
    <2>4. [u EXCEPT !.expect = TRUE] \in Context
      BY <2>3 DEF Context
    <2>5. QED
      BY <1>2, <2>1, <2>2, <2>4
  <1> HIDE DEF v
  <1>5. /\ stack' \in Seq(Context) /\ Len(stack') = Len(stack) /\ stack' # << >>
        /\ stack'[Len(stack)] = v
        /\ \A i \in 1 .. Len(stack) : i # Len(stack) => stack'[i] = stack[i]
    BY <1>2, <1>3, <1>4, LastUpdate
  <1>6. Back' = v
    BY <1>5 DEF Back
  <1>7. doc' = [doc EXCEPT !.mode = "value"] /\ UNCHANGED <<sink, options, finished>>
        /\ bytes' = sent' /\ bytes' <= options.maxOutput /\ bytes' \in Nat /\ sent' \in Nat
        /\ doc' \in Document
    BY <1>1, EmitFacts DEF After, Token
  <1>8. doc'.mode = "value" /\ doc'.frames = doc.frames /\ doc'.values = doc.values
    BY <1>7 DEF TypeOK, Document
  <1>9. SameContainers(doc.frames, stack, Back.count + 1) /\ doc.values = nodes
    BY <1>1, <1>2 DEF IInv, Synchronised, ItemsShown, InName, Counting
  <1>10. TypeOK'
    BY <1>1, <1>5, <1>7 DEF TypeOK
  <1>11. WithinLimits'
    <2>1. \A i \in 1 .. Len(stack) : stack'[i].count <=
            IF stack'[i].object THEN options.maxMembers ELSE options.maxItems
      <3> SUFFICES ASSUME NEW i \in 1 .. Len(stack)
                   PROVE  stack'[i].count <=
                            IF stack'[i].object THEN options.maxMembers ELSE options.maxItems
        OBVIOUS
      <3>1. CASE i = Len(stack)
        BY <1>2, <1>4, <1>5, <3>1 DEF Context, Option
      <3>2. CASE i # Len(stack)
        BY <1>5, <3>2 DEF IInv, WithinLimits
      <3>3. QED
        BY <3>1, <3>2
    <2>2. QED
      BY <1>1, <1>5, <1>7, <2>1 DEF IInv, WithinLimits
  <1>12. StackFits' /\ CallFits'
    BY <1>1, <1>2, <1>4, <1>5 DEF IInv, StackFits, CallFits, Context
  <1>13. Synchronised'
    <2>1. ItemsShown' = Back.count + 1 /\ ~ Counting'
      BY <1>1, <1>4, <1>6 DEF ItemsShown, Counting, InName
    <2>2. ModeAgrees'
      BY <1>1, <1>4, <1>5, <1>6, <1>8 DEF ModeAgrees, ModeBetween
    <2>3. SameContainers(doc'.frames, stack', Back.count + 1)
      BY <1>2, <1>3, <1>4, <1>8, <1>9, SameUpdated DEF Back, Context, TypeOK, Document
    <2>4. QED
      BY <1>1, <1>8, <1>9, <2>1, <2>2, <2>3 DEF Synchronised
  <1>14. QED
    BY <1>10, <1>11, <1>12, <1>13 DEF IInv

\* The token of an atom, and the brackets, end their call.
LEMMA EmitTokenKeeps ==
  ASSUME TypeOK, IInv, EmitToken
  PROVE  TypeOK' /\ IInv'
  <1>1. /\ pc \in Sites /\ pc = "token" /\ SiteToken = CallToken /\ Emit(SiteToken, call.size)
        /\ pc' = "idle" /\ left' = 0 /\ call' \in Call
        /\ UNCHANGED <<failure, nodes, rootWritten>> /\ call.size \in Nat \ {0}
    BY CallType DEF EmitToken, Sites, SiteToken, Return, NoCall, TypeOK, Call
  <1>2. /\ Healthy /\ ~ finished /\ SingleFits(call) /\ EndFits(call) /\ DepthFits(call)
        /\ CountedFits(call) /\ call.op \in {"start", "end", "atom"}
        /\ options \in Option /\ stack \in Seq(Context) /\ call \in Call
        /\ StackFits /\ StackLimits /\ nodes <= options.maxNodes
    BY <1>1, LimitsSplit, OptionsType DEF IInv, CallFits, SiteFits, PrefixSites, TypeOK
  <1>3. doc' = After(doc, CallToken) /\ UNCHANGED <<sink, options, finished>>
        /\ bytes' = sent' /\ bytes' <= options.maxOutput /\ bytes' \in Nat /\ sent' \in Nat
        /\ doc' \in Document
    BY <1>1, EmitFacts
  <1>4. CallToken \in Tokens /\ (IsValue(call) => CallToken.nodes = call.nodes)
    BY <1>2, CallTokenType DEF CallToken, SingleFits, IsValue, Token
  <1>5. ASSUME stack' \in Seq(Context), StackFits', StackLimits',
               SameContainers(doc'.frames, stack', Back'.count),
               doc'.mode = ModeBetween', doc'.values = nodes
        PROVE  TypeOK' /\ IInv'
    <2>1. TypeOK'
      BY <1>1, <1>3, <1>5 DEF TypeOK
    <2>2. WithinLimits' /\ CallFits'
      BY <1>1, <1>2, <1>3, <1>5 DEF WithinLimits, StackLimits, CallFits
    <2>3. Synchronised'
      BY <1>1, <1>5 DEF Synchronised, ItemsShown, Counting, InName, ModeAgrees
    <2>4. QED
      BY <1>5, <2>1, <2>2, <2>3 DEF IInv
  <1>6. CASE call.op = "atom"
    <2>1. doc' = Placed(doc, CallToken, "next")
      BY <1>3, <1>6 DEF CallToken, After
    <2>2. /\ doc'.mode = "next" /\ doc'.values = nodes
          /\ SameContainers(doc'.frames, stack, Back.count)
      BY <1>1, <1>4, <1>6, <2>1, PlacedSame DEF IsValue, Modes
    <2>3. stack' = stack /\ Back' = Back
      BY <1>6 DEF EmitToken, Back
    <2>4. ModeBetween' = "next"
      BY <1>1, <1>2, <1>6, <2>3 DEF ModeBetween, CountedFits, IsValue
    <2>5. StackFits' /\ StackLimits'
      BY <1>1, <1>2, <1>3, <2>3 DEF StackFits, StackLimits
    <2>6. QED
      BY <1>2, <1>5, <2>2, <2>3, <2>4, <2>5
  <1>7. CASE call.op = "start"
    <2> DEFINE f == [object |-> call.object, items |-> 0]
               k == [object |-> call.object, count |-> 0, expect |-> FALSE]
               p == Placed(doc, CallToken, "first")
    <2>1. /\ f \in Frame /\ k \in Context /\ f.object = k.object /\ f.items = 0
          /\ k.count = 0 /\ ~ k.expect
      BY <1>2 DEF Frame, Context, Call
    <2>2. /\ p \in Document /\ p.mode = "first" /\ p.values = nodes
          /\ SameContainers(p.frames, stack, Back.count)
      BY <1>1, <1>4, <1>7, PlacedSame DEF IsValue, Modes
    <2>3. doc' = Opened(doc, CallToken, call.object)
      BY <1>2, <1>3, <1>7 DEF CallToken, After, Token, Call
    <2>4. doc'.mode = "first" /\ doc'.values = nodes /\ doc'.frames = Append(p.frames, f)
      BY <2>2, <2>3 DEF Opened, Document
    <2>5. stack' = Append(stack, k)
      BY <1>7 DEF EmitToken
    <2> HIDE DEF f, k, p
    <2>6. /\ stack' \in Seq(Context) /\ Len(stack') = Len(stack) + 1 /\ stack' # << >>
          /\ stack'[Len(stack) + 1] = k
          /\ \A i \in 1 .. Len(stack) : stack'[i] = stack[i]
      BY <1>2, <2>1, <2>5
    <2>7. Back' = k
      BY <1>2, <2>6 DEF Back
    <2>8. ModeBetween' = "first"
      BY <2>1, <2>6, <2>7 DEF ModeBetween
    <2>9. SameContainers(doc'.frames, stack', 0)
      <3>1. stack # << >> => Back.count \in Nat /\ Back.count = stack[Len(stack)].count
        <4>1. stack # << >> => stack[Len(stack)] \in Context
          BY <1>2, LastUpdate
        <4>2. QED
          BY <4>1 DEF Back, Context
      <3>2. CASE stack = << >>
        BY <1>2, <2>1, <2>2, <2>4, <2>5, <3>2 DEF SameContainers, Document
      <3>3. CASE stack # << >>
        BY <1>2, <2>1, <2>2, <2>4, <2>5, <3>1, <3>3, SameOpened DEF Document
      <3>4. QED
        BY <3>2, <3>3
    <2>10. StackFits'
      <3>1. rootWritten /\ (stack # << >> => Back.count > 0 /\ ~ Back.expect)
        BY <1>2, <1>7 DEF CountedFits, IsValue
      <3>2. \A i \in 1 .. Len(stack) : ~ stack[i].expect /\ stack[i].count > 0
        BY <1>2, <3>1 DEF StackFits, Back
      <3>3. QED
        BY <1>1, <1>2, <2>1, <2>6, <3>1, <3>2 DEF StackFits
    <2>11. StackLimits'
      <3>1. Len(stack) + 1 <= options.maxDepth
        BY <1>2, <1>7 DEF DepthFits, SingleFits, IsValue
      <3>2. options.maxMembers >= 0 /\ options.maxItems >= 0
        BY <1>2 DEF Option
      <3>3. \A i \in 1 .. Len(stack) + 1 : stack'[i].count <=
              IF stack'[i].object THEN options.maxMembers ELSE options.maxItems
        <4> SUFFICES ASSUME NEW i \in 1 .. Len(stack) + 1
                     PROVE  stack'[i].count <=
                              IF stack'[i].object THEN options.maxMembers ELSE options.maxItems
          OBVIOUS
        <4>1. CASE i = Len(stack) + 1
          BY <2>1, <2>6, <3>2, <4>1
        <4>2. CASE i # Len(stack) + 1
          <5>1. i \in 1 .. Len(stack)
            BY <1>2, <4>2
          <5>2. QED
            BY <1>2, <2>6, <5>1 DEF StackLimits
        <4>3. QED
          BY <4>1, <4>2
      <3>4. QED
        BY <1>3, <2>6, <3>1, <3>3 DEF StackLimits
    <2>12. QED
      BY <1>5, <2>1, <2>4, <2>6, <2>7, <2>8, <2>9, <2>10, <2>11
  <1>8. CASE call.op = "end"
    <2>1. stack # << >> /\ Len(stack) \in Nat \ {0}
      BY <1>2, <1>8 DEF EndFits, MayEnd
    <2>2. CallToken.kind \in {"endObject", "endArray"}
      BY <1>8 DEF CallToken, Token
    <2>3. doc' = [doc EXCEPT !.mode = "next",
                              !.frames = SubSeq(doc.frames, 1, Len(doc.frames) - 1)]
      BY <1>3, <2>2 DEF After
    <2>4. /\ doc'.mode = "next" /\ doc'.values = doc.values
          /\ doc'.frames = SubSeq(doc.frames, 1, Len(doc.frames) - 1)
      BY <2>3 DEF TypeOK, Document
    <2>5. stack' = SubSeq(stack, 1, Len(stack) - 1)
      BY <1>8 DEF EmitToken
    <2>6. /\ stack' \in Seq(Context) /\ Len(stack') = Len(stack) - 1
          /\ \A i \in 1 .. Len(stack) - 1 : stack'[i] = stack[i]
      BY <1>2, <2>1, <2>5, Popped
    <2>7. /\ SameContainers(doc.frames, stack, Back.count) /\ doc.values = nodes
          /\ doc.frames \in Seq(Frame)
      BY <1>1, <1>2, <1>8 DEF IInv, Synchronised, ItemsShown, Counting, InName, TypeOK, Document
    <2>8. Len(stack) > 1 => Back' = stack[Len(stack) - 1]
      BY <2>1, <2>6 DEF Back
    <2>9. SameContainers(doc'.frames, stack', Back'.count)
      BY <1>2, <2>1, <2>4, <2>5, <2>7, <2>8, SameClosed
    <2>10. StackFits' /\ StackLimits'
      <3>1. \A i \in 1 .. Len(stack') : i \in 1 .. Len(stack) /\ i < Len(stack)
        BY <2>1, <2>6
      <3>2. StackFits'
        BY <1>1, <1>2, <2>1, <2>6, <3>1 DEF StackFits
      <3>3. StackLimits'
        <4>1. \A i \in 1 .. Len(stack') : stack'[i] = stack[i]
          BY <2>6
        <4>2. Len(stack') <= options.maxDepth
          BY <1>2, <2>1, <2>6 DEF StackLimits, Option
        <4>3. QED
          BY <1>2, <1>3, <3>1, <4>1, <4>2 DEF StackLimits
      <3>4. QED
        BY <3>2, <3>3
    <2>11. ModeBetween' = "next"
      <3>1. rootWritten'
        BY <1>1, <1>2, <2>1 DEF StackFits
      <3>2. CASE stack' = << >>
        BY <3>1, <3>2 DEF ModeBetween
      <3>3. CASE stack' # << >>
        <4>1. Len(stack) > 1 /\ Len(stack) - 1 \in 1 .. Len(stack)
          BY <2>1, <2>6, <3>3
        <4>2. ~ Back'.expect /\ Back'.count > 0
          BY <1>2, <2>1, <2>8, <4>1 DEF StackFits
        <4>3. QED
          BY <3>3, <4>2 DEF ModeBetween
      <3>4. QED
        BY <3>2, <3>3
    <2>12. QED
      BY <1>5, <2>4, <2>6, <2>7, <2>9, <2>10, <2>11
  <1>9. QED
    BY <1>2, <1>6, <1>7, <1>8

LEMMA EmissionsKeep ==
  ASSUME TypeOK, IInv, Emissions
  PROVE  TypeOK' /\ IInv'
  <1>1. CASE EmitFails
    BY <1>1, FailKeeps DEF EmitFails, Errors
  <1>2. QED
    BY <1>1, EmitCommaKeeps, EmitNewlineKeeps, MeasureKeeps, EmitIndentKeeps, EmitQuoteKeeps,
       EmitCharsKeeps, EmitUnquoteKeeps, EmitColonKeeps, EmitTokenKeeps DEF Emissions

LEMMA InitKeeps ==
  ASSUME Init
  PROVE  TypeOK /\ IInv
  <1>1. options \in Option /\ Blank \in Document /\ NoCall \in Call
    BY OptionsType, CallType DEF Init, Blank, Document, Modes, NoCall
  <1>2. TypeOK
    <2>1. failure \in Errors \cup {NoError}
      BY DEF Init, ResetFailure, Errors
    <2>2. stack \in Seq(Context)
      BY DEF Init
    <2>3. QED
      BY <1>1, <2>1, <2>2 DEF Init, TypeOK
  <1>3. Synchronised
    BY DEF Init, Synchronised, SameContainers, ModeAgrees, ModeBetween, Counting, Blank
  <1>4. WithinLimits /\ CallFits /\ StackFits
    BY <1>1 DEF Init, WithinLimits, CallFits, StackFits, Option
  <1>5. QED
    BY <1>2, <1>3, <1>4 DEF IInv

LEMMA NextKeeps ==
  ASSUME TypeOK, IInv, [Next]_vars
  PROVE  TypeOK' /\ IInv'
  <1>1. CASE Next
    BY <1>1, CallsKeep, EmissionsKeep DEF Next
  <1>2. CASE UNCHANGED vars
    <2>1. TypeOK'
      BY <1>2 DEF TypeOK, vars, writerVars, callVars
    <2>2. Synchronised' <=> Synchronised
      BY <1>2 DEF vars, writerVars, callVars, Synchronised, Healthy, ItemsShown, Counting, InName,
         ModeAgrees, ModeBetween, ModeBeforeItem, ModeBeforeBody, Back
    <2>3. WithinLimits' /\ StackFits'
      BY <1>2 DEF IInv, vars, writerVars, callVars, WithinLimits, StackFits
    <2>4. CallFits'
      BY <1>2 DEF IInv, vars, writerVars, callVars, CallFits, Healthy, SingleFits, KeyFits,
         EndFits, MayEnd, SiteFits, DepthFits, PrefixFits, CountedFits, IsValue, Back
    <2>5. QED
      BY <2>1, <2>2, <2>3, <2>4 DEF IInv
  <1>3. QED
    BY <1>1, <1>2

-----------------------------------------------------------------------------
(* The theorems.                                                           *)

\* For all options and inputs the members of a writer keep their types and its
\* books stay in step with its output.
THEOREM Invariance == Spec => [](TypeOK /\ IInv)
  <1>1. Init => TypeOK /\ IInv
    BY InitKeeps
  <1>2. TypeOK /\ IInv /\ [Next]_vars => TypeOK' /\ IInv'
    BY NextKeeps
  <1>3. QED
    BY <1>1, <1>2, PTL DEF Spec

\* Between calls the verdicts the writer is about to give are those of the
\* grammar and the limits.
LEMMA VerdictsFollow ==
  ASSUME TypeOK, IInv
  PROVE  VerdictsExact
  <1> SUFFICES ASSUME Active
               PROVE  /\ (~ MisplacedValue /\ ~ ValueOverLimit) <=> ValueFits
                      /\ (MayKey /\ Back.count < options.maxMembers) <=> NameFits
                      /\ \A object \in BOOLEAN :
                           MayEnd(object) <=>
                             Legal(doc, Token(IF object THEN "endObject" ELSE "endArray"), options)
                      /\ (rootWritten /\ stack = << >>) <=> Complete(doc)
    BY DEF VerdictsExact
  <1>1. Healthy /\ pc = "idle" /\ options \in Option
    BY OptionsType DEF Active, Usable, Idle, Healthy, TypeOK
  <1>2. /\ doc.mode = ModeBetween /\ doc.values = nodes
        /\ SameContainers(doc.frames, stack, Back.count)
    BY <1>1 DEF IInv, Synchronised, ModeAgrees, ItemsShown, Counting, InName
  <1>3. /\ InArray(doc) <=> stack # << >> /\ ~ Back.object
        /\ InObject(doc) <=> stack # << >> /\ Back.object
        /\ stack # << >> => /\ Innermost(doc).object = Back.object
                            /\ Innermost(doc).items = Back.count
                            /\ Back \in Context
    BY <1>1, InnermostIs DEF IInv, ItemsShown, Counting, InName
  <1>4. /\ Len(doc.frames) = Len(stack) /\ (doc.frames = << >> <=> stack = << >>)
        /\ Len(stack) \in Nat /\ nodes \in Nat
    BY <1>2 DEF SameContainers, TypeOK, Document
  <1>5. stack # << >> /\ Back.expect => Back.object /\ Back.count > 0
    <2>1. stack # << >> => Len(stack) \in 1 .. Len(stack)
      BY LastUpdate DEF TypeOK
    <2>2. QED
      BY <2>1 DEF IInv, StackFits, Back
  <1>6. stack # << >> /\ ~ Back.object => (Back.count < options.maxItems <=> RoomForItem(doc, options))
    BY <1>3 DEF RoomForItem
  <1>7. stack # << >> /\ Back.object => (Back.count < options.maxMembers <=> RoomForItem(doc, options))
    BY <1>3 DEF RoomForItem
  <1>8. (~ MisplacedValue /\ ~ ValueOverLimit) <=> ValueFits
    <2>1. /\ Len(stack) >= options.maxDepth <=> ~ Len(doc.frames) < options.maxDepth
          /\ nodes >= options.maxNodes <=> ~ doc.values < options.maxNodes
      BY <1>1, <1>2, <1>4 DEF Option
    <2>2. ArrayIsFull <=> InArray(doc) /\ ~ RoomForItem(doc, options)
      BY <1>1, <1>3, <1>6 DEF ArrayIsFull, Context, Option
    <2>3. ~ MisplacedValue <=> doc.mode = "value" \/ (InArray(doc) /\ doc.mode \in {"first", "next"})
      <3>1. CASE stack = << >>
        BY <1>2, <1>3, <3>1 DEF MisplacedValue, ModeBetween
      <3>2. CASE stack # << >>
        BY <1>2, <1>3, <1>5, <3>2 DEF MisplacedValue, ModeBetween
      <3>3. QED
        BY <3>1, <3>2
    <2>4. QED
      BY <2>1, <2>2, <2>3 DEF ValueOverLimit, ValueFits
  <1>9. (MayKey /\ Back.count < options.maxMembers) <=> NameFits
    BY <1>2, <1>3, <1>5, <1>7 DEF MayKey, NameFits, ModeBetween
  <1>10. ASSUME NEW object \in BOOLEAN
         PROVE  MayEnd(object) <=>
                  Legal(doc, Token(IF object THEN "endObject" ELSE "endArray"), options)
    <2>1. stack # << >> => Back.object \in BOOLEAN
      BY <1>3 DEF Context
    <2>2. stack # << >> => (~ Back.expect <=> doc.mode \in {"first", "next"})
      BY <1>2 DEF ModeBetween
    <2>3. CASE object
      BY <1>3, <2>1, <2>2, <2>3 DEF MayEnd, Legal, Token
    <2>4. CASE ~ object
      BY <1>3, <2>1, <2>2, <2>4 DEF MayEnd, Legal, Token
    <2>5. QED
      BY <2>3, <2>4
  <1>11. (rootWritten /\ stack = << >>) <=> Complete(doc)
    BY <1>2, <1>4 DEF Complete, ModeBetween, TypeOK
  <1>12. QED
    BY <1>8, <1>9, <1>10, <1>11

\* The members of a writer have their types.
THEOREM Typing == Spec => []TypeOK
  BY Invariance, PTL

\* Until the first error the writer's stack and counters describe exactly the
\* document its sink was given, whatever the calls and wherever they stopped.
THEOREM BooksInStep == Spec => []Synchronised
  <1>1. IInv => Synchronised
    BY DEF IInv
  <1>2. QED
    BY <1>1, Invariance, PTL

\* No limit is exceeded, and bytes_written() is what the sink accepted.
THEOREM LimitsHold == Spec => []WithinLimits
  <1>1. IInv => WithinLimits
    BY DEF IInv
  <1>2. QED
    BY <1>1, Invariance, PTL

\* A value, a key and an end are accepted exactly where the document allows them.
THEOREM VerdictsHold == Spec => []VerdictsExact
  <1>1. TypeOK /\ IInv => VerdictsExact
    BY VerdictsFollow
  <1>2. QED
    BY <1>1, Invariance, PTL


-----------------------------------------------------------------------------
(* OutputDocument reads a text as StreamWriter does.                       *)

LEMMA SameLegal ==
  ASSUME NEW d, NEW t, NEW o
  PROVE  Promise!Legal(d, t, o) <=> Legal(d, t, o)
  BY DEF Legal, MayPlace, MayName, RoomForItem, InArray, InObject, Nested, Innermost,
     Promise!Legal, Promise!MayPlace, Promise!MayName, Promise!RoomForItem, Promise!InArray,
     Promise!InObject, Promise!Nested, Promise!Innermost

LEMMA SameAfter ==
  ASSUME NEW d, NEW t
  PROVE  Promise!After(d, t) = After(d, t)
  BY DEF After, AfterQuote, Opened, Placed, Counted, InArray, InObject, Nested, Innermost,
     Promise!After, Promise!AfterQuote, Promise!Opened, Promise!Placed, Promise!Counted,
     Promise!InArray, Promise!InObject, Promise!Nested, Promise!Innermost

LEMMA SameTerms ==
  /\ Promise!Kinds = Kinds /\ Promise!Blank = Blank
  /\ \A d : Promise!Complete(d) <=> Complete(d)
  /\ \A kind : Promise!Token(kind) = Token(kind)
  BY DEF Kinds, Blank, Complete, Token,
     Promise!Kinds, Promise!Blank, Promise!Complete, Promise!Token

-----------------------------------------------------------------------------
(* What a running call writes is a single value or one of the fragments.   *)

RawNodes == {f.nodes : f \in Fragments}
RawDepths == {f.depth : f \in Fragments}

Origin == call.nodes \in RawNodes \cup {1} /\ call.depth \in RawDepths \cup {1}

Single(c) == c.nodes = 1 /\ c.depth = 1

LEMMA CallOrigin ==
  /\ \A op : Single(NewCall(op))
  /\ \A op, object : Single(Bracket(op, object))
  /\ \A op, text : Single(Quoted(op, text))
  /\ \A size : Single(Literal(size))
  /\ \A f : RawText(f).nodes = f.nodes /\ RawText(f).depth = f.depth
  BY DEF Single, NewCall, Bracket, Quoted, Literal, RawText

LEMMA FailOrigin ==
  ASSUME NEW e, Fail(e)
  PROVE  Origin'
  <1>1. call' = NewCall("atom")
    BY DEF Fail, NoCall
  <1>2. QED
    BY <1>1, CallOrigin DEF Origin, Single

LEMMA WriteOrigin ==
  ASSUME NEW c, NEW refused, NEW e, WriteValue(c, refused, e),
         c.nodes \in RawNodes \cup {1}, c.depth \in RawDepths \cup {1}
  PROVE  Origin'
  <1>1. CASE \E x : Fail(x)
    BY <1>1, FailOrigin
  <1>2. CASE BeforeValue(c)
    <2>1. call' = c
      BY <1>2 DEF BeforeValue, ItemPrefix
    <2>2. QED
      BY <2>1 DEF Origin
  <1>3. QED
    BY <1>1, <1>2 DEF WriteValue

LEMMA OriginKept ==
  ASSUME TypeOK, Origin, [Next]_vars
  PROVE  Origin'
  <1>1. CASE call' = call \/ (\E op : call' = NewCall(op))
    BY <1>1, CallOrigin DEF Origin, Single
  <1>2. CASE \E object \in BOOLEAN : StartContainer(object) \/ EndContainer(object)
    <2>1. PICK object \in BOOLEAN : StartContainer(object) \/ EndContainer(object)
      BY <1>2
    <2>2. CASE StartContainer(object)
      BY <2>2, CallOrigin, WriteOrigin DEF StartContainer, Single
    <2>3. CASE EndContainer(object)
      <3>1. CASE Fail("usage")
        BY <3>1, FailOrigin
      <3>2. CASE call' = Bracket("end", object)
        BY <3>2, CallOrigin DEF Origin, Single
      <3>3. QED
        BY <2>3, <3>1, <3>2 DEF EndContainer
    <2>4. QED
      BY <2>1, <2>2, <2>3
  <1>3. CASE \E text \in Texts : Key(text) \/ String(text)
    <2>1. PICK text \in Texts : Key(text) \/ String(text)
      BY <1>3
    <2>2. CASE Key(text)
      <3>1. CASE \E e : Fail(e)
        BY <3>1, FailOrigin
      <3>2. CASE call' = Quoted("key", text)
        BY <3>2, CallOrigin DEF Origin, Single
      <3>3. QED
        BY <2>2, <3>1, <3>2 DEF Key, ItemPrefix
    <2>3. CASE String(text)
      <3>1. CASE Fail("content")
        BY <3>1, FailOrigin
      <3>2. CASE WriteValue(Quoted("string", text), FALSE, "usage")
        BY <3>2, CallOrigin, WriteOrigin DEF Single
      <3>3. QED
        BY <2>3, <3>1, <3>2 DEF String
    <2>4. QED
      BY <2>1, <2>2, <2>3
  <1>4. CASE \E size \in ScalarSizes : Scalar(size)
    BY <1>4, CallOrigin, WriteOrigin DEF Scalar, Single
  <1>5. CASE \E f \in Fragments : Raw(f)
    <2>1. PICK f \in Fragments : Raw(f)
      BY <1>5
    <2>2. RawText(f).nodes \in RawNodes /\ RawText(f).depth \in RawDepths
      BY CallOrigin DEF RawNodes, RawDepths
    <2>3. QED
      BY <2>1, <2>2, WriteOrigin DEF Raw
  <1>6. CASE RefusedValue \/ UseAfterFinish \/ Finish
    <2>1. CASE \E e : Fail(e)
      BY <2>1, FailOrigin
    <2>2. CASE UNCHANGED callVars
      BY <1>1, <2>2 DEF callVars
    <2>3. QED
      BY <1>6, <2>1, <2>2 DEF RefusedValue, UseAfterFinish, Finish
  <1>7. CASE Reset \/ MoveFrom \/ (\E s \in BOOLEAN, o \in Options : Assign(s, o))
    BY <1>1, <1>7 DEF Reset, MoveFrom, Assign, Cleared, callVars
  <1>8. CASE EmitFails
    BY <1>8, FailOrigin DEF EmitFails
  <1>9. CASE Measure
    <2>1. CASE Fail("limit")
      BY <2>1, FailOrigin
    <2>2. CASE call' = call
      BY <1>1, <2>2
    <2>3. QED
      BY <1>9, <2>1, <2>2 DEF Measure
  <1>10. CASE EmitComma \/ EmitNewline \/ EmitIndent \/ EmitQuote
    BY <1>1, <1>10 DEF EmitComma, EmitNewline, EmitIndent, EmitQuote
  <1>11. CASE EmitChars
    BY <1>11 DEF EmitChars, Origin, TypeOK, Call
  <1>12. CASE EmitUnquote \/ EmitColon \/ EmitToken
    BY <1>1, <1>12 DEF EmitUnquote, EmitColon, EmitToken, Return, NoCall
  <1>13. CASE UNCHANGED vars
    BY <1>1, <1>13 DEF vars, callVars
  <1>14. QED
    BY <1>2, <1>3, <1>4, <1>5, <1>6, <1>7, <1>8, <1>9, <1>10, <1>11, <1>12, <1>13
    DEF Next, Calls, Emissions

-----------------------------------------------------------------------------
(* Every step of a writer is a step of its promise, or none.               *)

LEMMA FailRefines ==
  ASSUME Healthy, NEW e \in Errors, Fail(e)
  PROVE  Promise!Fail
  <1>1. Status \in {"open", "sealed"} /\ Status' = "failed"
    BY DEF Healthy, Fail, Status, Errors, NoError
  <1>2. UNCHANGED <<options, doc, sent>>
    BY DEF Fail
  <1>3. QED
    BY <1>1, <1>2 DEF Promise!Fail

LEMMA ClearedRefines ==
  ASSUME NEW s, NEW o \in Options, Cleared(s, o)
  PROVE  Promise!Restart
  <1>1. Status' \in {"open", "failed", "detached"}
    BY DEF Cleared, Status
  <1>2. QED
    BY <1>1, SameTerms DEF Cleared, Promise!Restart

\* An accepted fragment is one the promise allows.
LEMMA EmitRefines ==
  ASSUME TypeOK, IInv, Origin, pc \in Sites, UNCHANGED failure,
         NEW size \in Nat \ {0}, Emit(SiteToken, size)
  PROVE  Promise!Accept
  <1>1. /\ Healthy /\ ~ finished /\ bytes = sent /\ bytes \in Nat /\ options \in Option
        /\ CallToken.kind \in Kinds /\ SiteToken.kind \in Kinds
    BY OptionsType, TokenType, CallTokenType DEF IInv, CallFits, Sites, WithinLimits, TypeOK,
       SiteToken, Tokens, Kinds, Token
  <1>2. Status = "open" /\ Status' = "open"
    BY <1>1 DEF Status, Healthy, Emit
  <1>3. Legal(doc, SiteToken, options) /\ doc' = After(doc, SiteToken)
    BY SiteLegal, EmitFacts
  <1>4. sent' \in (sent + 1) .. options.maxOutput
    BY <1>1 DEF Emit, Remaining, Option
  <1>5. SiteToken \in Promise!Fragment(SiteToken.kind)
    <2>1. CASE SiteToken = Token(SiteToken.kind) /\ SiteToken.kind # "atom"
      BY <2>1, SameTerms DEF Promise!Fragment
    <2>2. CASE SiteToken = [kind |-> "atom", nodes |-> call.nodes, depth |-> call.depth]
      BY <2>2 DEF Promise!Fragment, Origin, RawNodes, RawDepths
    <2>3. QED
      BY <2>1, <2>2 DEF SiteToken, CallToken, Token
  <1>6. QED
    BY <1>1, <1>2, <1>3, <1>4, <1>5, SameLegal, SameAfter, SameTerms DEF Promise!Accept, Emit

\* A call that writes nothing yet and does not fail leaves the document alone.
LEMMA QuietRefines ==
  ASSUME UNCHANGED <<sink, options, failure, finished, doc, sent>>
  PROVE  UNCHANGED Promise!documentVars
  BY DEF Promise!documentVars, Status

LEMMA WriteRefines ==
  ASSUME Healthy, NEW c, NEW refused, NEW e \in Errors, WriteValue(c, refused, e)
  PROVE  [Promise!Next]_Promise!documentVars
  <1>1. CASE \E x \in Errors : Fail(x)
    BY <1>1, FailRefines DEF Promise!Next
  <1>2. CASE UNCHANGED <<sink, options, failure, bytes, finished, doc, sent>>
    BY <1>2, QuietRefines
  <1>3. QED
    BY <1>1, <1>2 DEF WriteValue, Errors

LEMMA CallsRefine ==
  ASSUME TypeOK, IInv, Calls
  PROVE  [Promise!Next]_Promise!documentVars
  <1>1. Usable => Healthy
    BY DEF Usable, Healthy
  <1>2. ASSUME NEW object \in BOOLEAN, StartContainer(object)
        PROVE  [Promise!Next]_Promise!documentVars
    BY <1>1, <1>2, WriteRefines DEF StartContainer, Active, Errors
  <1>3. ASSUME NEW object \in BOOLEAN, EndContainer(object)
        PROVE  [Promise!Next]_Promise!documentVars
    <2>1. CASE Fail("usage")
      BY <1>1, <1>3, <2>1, FailRefines DEF EndContainer, Active, Errors, Promise!Next
    <2>2. CASE UNCHANGED <<writerVars, left, doc, sent>>
      BY <2>2, QuietRefines DEF writerVars
    <2>3. QED
      BY <1>3, <2>1, <2>2 DEF EndContainer
  <1>4. ASSUME NEW text \in Texts, Key(text)
        PROVE  [Promise!Next]_Promise!documentVars
    <2>1. CASE \E e \in Errors : Fail(e)
      BY <1>1, <1>4, <2>1, FailRefines DEF Key, Active, Promise!Next
    <2>2. CASE UNCHANGED <<sink, options, failure, bytes, finished, doc, sent>>
      BY <2>2, QuietRefines
    <2>3. QED
      BY <1>4, <2>1, <2>2 DEF Key, Errors
  <1>5. ASSUME NEW text \in Texts, String(text)
        PROVE  [Promise!Next]_Promise!documentVars
    <2>1. CASE Fail("content")
      BY <1>1, <1>5, <2>1, FailRefines DEF String, Active, Errors, Promise!Next
    <2>2. CASE WriteValue(Quoted("string", text), FALSE, "usage")
      BY <1>1, <1>5, <2>2, WriteRefines DEF String, Active, Errors
    <2>3. QED
      BY <1>5, <2>1, <2>2 DEF String
  <1>6. ASSUME NEW size \in ScalarSizes, Scalar(size)
        PROVE  [Promise!Next]_Promise!documentVars
    BY <1>1, <1>6, WriteRefines DEF Scalar, Active, Errors
  <1>7. ASSUME NEW f \in Fragments, Raw(f)
        PROVE  [Promise!Next]_Promise!documentVars
    BY <1>1, <1>7, WriteRefines DEF Raw, Active, Errors
  <1>8. ASSUME RefusedValue \/ UseAfterFinish
        PROVE  [Promise!Next]_Promise!documentVars
    <2>1. Healthy /\ \E e \in Errors : Fail(e)
      BY <1>1, <1>8 DEF RefusedValue, UseAfterFinish, Active, Errors
    <2>2. QED
      BY <2>1, FailRefines DEF Promise!Next
  <1>9. ASSUME Finish
        PROVE  [Promise!Next]_Promise!documentVars
    <2>1. CASE Fail("usage")
      BY <1>1, <1>9, <2>1, FailRefines DEF Finish, Errors, Promise!Next
    <2>2. CASE /\ rootWritten /\ stack = << >> /\ finished' = TRUE
               /\ UNCHANGED <<sink, options, stack, failure, bytes, nodes, rootWritten,
                              callVars, doc, sent>>
      <3>1. CASE finished = TRUE
        BY <2>2, <3>1, QuietRefines
      <3>2. CASE ~ finished
        <4>1. Active
          BY <1>9, <3>2 DEF Finish, Active
        <4>2. Complete(doc)
          BY <2>2, <4>1, VerdictsFollow DEF VerdictsExact
        <4>3. Status = "open" /\ Status' = "sealed"
          BY <1>1, <1>9, <2>2, <3>2 DEF Finish, Healthy, Status
        <4>4. QED
          BY <2>2, <4>2, <4>3, SameTerms DEF Promise!Seal, Promise!Next
      <3>3. QED
        BY <3>1, <3>2 DEF TypeOK
    <2>3. QED
      BY <1>9, <2>1, <2>2 DEF Finish
  <1>10. ASSUME Reset \/ MoveFrom \/ (\E s \in BOOLEAN, o \in Options : Assign(s, o))
         PROVE  [Promise!Next]_Promise!documentVars
    BY <1>10, ClearedRefines DEF Reset, MoveFrom, Assign, TypeOK, Promise!Next
  <1>11. QED
    BY <1>2, <1>3, <1>4, <1>5, <1>6, <1>7, <1>8, <1>9, <1>10 DEF Calls

LEMMA EmissionsRefine ==
  ASSUME TypeOK, IInv, Origin, Emissions
  PROVE  [Promise!Next]_Promise!documentVars
  <1>1. ASSUME pc \in Sites \cup {"measure"}, NEW e \in Errors, Fail(e)
        PROVE  Promise!Next
    <2>1. Healthy
      BY <1>1 DEF IInv, CallFits, Sites
    <2>2. QED
      BY <1>1, <2>1, FailRefines DEF Promise!Next
  <1>2. ASSUME pc \in Sites, UNCHANGED failure, NEW size \in Nat \ {0}, Emit(SiteToken, size)
        PROVE  Promise!Next
    BY <1>2, EmitRefines DEF Promise!Next
  <1>3. CASE EmitFails
    BY <1>1, <1>3 DEF EmitFails, Errors
  <1>4. CASE Measure
    <2>1. CASE Fail("limit")
      BY <1>1, <1>4, <2>1 DEF Measure, Errors
    <2>2. CASE UNCHANGED <<sink, options, failure, finished, doc, sent>>
      BY <2>2, QuietRefines
    <2>3. QED
      BY <1>4, <2>1, <2>2 DEF Measure, writerVars
  <1>5. CASE EmitComma
    BY <1>2, <1>5 DEF EmitComma, Sites, SiteToken
  <1>6. CASE EmitNewline
    BY <1>2, <1>6 DEF EmitNewline, Sites, SiteToken
  <1>7. CASE EmitIndent
    <2>1. SpacesRun \in Nat \ {0}
      BY <1>7, WidthsAssumption DEF EmitIndent, SpacesRun, TypeOK, IInv, CallFits, SiteFits
    <2>2. QED
      BY <1>2, <1>7, <2>1 DEF EmitIndent, Sites, SiteToken
  <1>8. CASE EmitQuote
    BY <1>2, <1>8 DEF EmitQuote, Sites, SiteToken
  <1>9. CASE EmitChars
    <2>1. call.pieces # << >> /\ call.pieces \in Seq(Nat \ {0})
      BY <1>9 DEF EmitChars, IInv, CallFits, SiteFits, TypeOK, Call
    <2>2. Head(call.pieces) \in Nat \ {0}
      BY <2>1
    <2>3. QED
      BY <1>2, <1>9, <2>2 DEF EmitChars, Sites, SiteToken
  <1>10. CASE EmitUnquote
    BY <1>2, <1>10 DEF EmitUnquote, Sites, SiteToken
  <1>11. CASE EmitColon
    BY <1>2, <1>11 DEF EmitColon, ColonSize, Sites, SiteToken
  <1>12. CASE EmitToken
    BY <1>2, <1>12 DEF EmitToken, Sites, SiteToken, TypeOK, Call
  <1>13. QED
    BY <1>3, <1>4, <1>5, <1>6, <1>7, <1>8, <1>9, <1>10, <1>11, <1>12 DEF Emissions

LEMMA InitRefines ==
  ASSUME Init
  PROVE  Promise!Init /\ Origin
  <1>1. Status \in {"open", "failed", "detached"}
    BY DEF Init, Status
  <1>2. Origin
    BY CallOrigin DEF Init, NoCall, Origin, Single
  <1>3. QED
    BY <1>1, <1>2, SameTerms DEF Init, Promise!Init

\* Whatever its callers and its sink do, a writer's output is at every moment a
\* prefix of one document within the limits, sealed only when whole and frozen
\* by the first error: it implements OutputDocument.
THEOREM Implementation == Spec => Implements
  <1>1. Init => Promise!Init /\ Origin
    BY InitRefines
  <1>2. TypeOK /\ Origin /\ [Next]_vars => Origin'
    BY OriginKept
  <1>3. TypeOK /\ IInv /\ Origin /\ [Next]_vars => [Promise!Next]_Promise!documentVars
    <2> SUFFICES ASSUME TypeOK, IInv, Origin, [Next]_vars
                 PROVE  [Promise!Next]_Promise!documentVars
      OBVIOUS
    <2>1. CASE UNCHANGED vars
      BY <2>1, QuietRefines DEF vars, writerVars
    <2>2. QED
      BY <2>1, CallsRefine, EmissionsRefine DEF Next
  <1>4. QED
    BY <1>1, <1>2, <1>3, Invariance, PTL DEF Spec, Implements, Promise!Spec
=============================================================================
