------------------------------ MODULE JsonText ------------------------------
(***************************************************************************)
(* What RFC 8259 and the configured document limits allow a JSON text to   *)
(* be, as a recogniser that reads the text fragment by fragment.  It knows *)
(* nothing of the writer that produces the text: the writer is judged by   *)
(* it.                                                                     *)
(*                                                                         *)
(* A document being read is a record:                                      *)
(*   frames  the containers still open, outermost first, each with the     *)
(*           number of items (array) or member names (object) it has;      *)
(*   mode    what the grammar allows next;                                 *)
(*   values  the number of values begun, keys not included.                *)
(***************************************************************************)
EXTENDS Integers, Sequences

Frame == [object : BOOLEAN, items : Nat]

\* "value": a value must follow.  "first": an item or the end of the container.
\* "item": a member name.  "colon", "next" (comma, end of container, or end of
\* the document): what their names say.  "text", "name": inside a string value,
\* inside a member name.  "bad": the text is no prefix of a document.
Modes == {"value", "first", "item", "colon", "next", "text", "name", "bad"}

Document == [frames : Seq(Frame), mode : Modes, values : Nat]

Blank == [frames |-> << >>, mode |-> "value", values |-> 0]

\* A token; an "atom" is a number, a literal or a whole raw fragment, which
\* holds nodes values over depth levels of nesting.
Kinds == {"space", "comma", "colon", "quote", "chars", "atom",
          "object", "array", "endObject", "endArray"}

Token(kind) == [kind |-> kind, nodes |-> 1, depth |-> 1]

Tokens == [kind : Kinds, nodes : Nat \ {0}, depth : Nat \ {0}]

Nested(d) == d.frames # << >>

Innermost(d) == d.frames[Len(d.frames)]

InArray(d) == Nested(d) /\ ~ Innermost(d).object

InObject(d) == Nested(d) /\ Innermost(d).object

Complete(d) == d.frames = << >> /\ d.mode = "next"

\* May another item start in the innermost container, under the limits o?
RoomForItem(d, o) ==
  Innermost(d).items < IF Innermost(d).object THEN o.maxMembers ELSE o.maxItems

MayPlace(d, t, o) ==
  /\ d.mode = "value" \/ (d.mode = "first" /\ InArray(d))
  /\ InArray(d) => RoomForItem(d, o)
  /\ Len(d.frames) + t.depth <= o.maxDepth
  /\ d.values + t.nodes <= o.maxNodes

MayName(d, o) ==
  d.mode \in {"first", "item"} /\ InObject(d) /\ RoomForItem(d, o)

Legal(d, t, o) ==
  \/ t.kind = "space" /\ d.mode \notin {"text", "name", "bad"}
  \/ t.kind = "comma" /\ d.mode = "next" /\ Nested(d) /\ RoomForItem(d, o)
  \/ t.kind = "colon" /\ d.mode = "colon"
  \/ t.kind = "chars" /\ d.mode \in {"text", "name"}
  \/ t.kind = "quote" /\ (d.mode \in {"text", "name"} \/ MayPlace(d, t, o) \/ MayName(d, o))
  \/ t.kind \in {"object", "array", "atom"} /\ MayPlace(d, t, o)
  \/ t.kind = "endObject" /\ d.mode \in {"first", "next"} /\ InObject(d)
  \/ t.kind = "endArray" /\ d.mode \in {"first", "next"} /\ InArray(d)

Counted(frames) == [frames EXCEPT ![Len(frames)].items = @ + 1]

\* d after a value starts in it: counted as a value, and as an item of an array.
Placed(d, t, mode) ==
  [frames |-> IF InArray(d) THEN Counted(d.frames) ELSE d.frames,
   mode   |-> mode,
   values |-> d.values + t.nodes]

Opened(d, t, object) ==
  [Placed(d, t, "first") EXCEPT !.frames = Append(@, [object |-> object, items |-> 0])]

AfterQuote(d, t) ==
  CASE d.mode = "text" -> [d EXCEPT !.mode = "next"]
    [] d.mode = "name" -> [d EXCEPT !.mode = "colon"]
    [] d.mode \in {"first", "item"} /\ InObject(d)
         -> [d EXCEPT !.mode = "name", !.frames = Counted(@)]
    [] OTHER -> Placed(d, t, "text")

\* d after the legal token t.
After(d, t) ==
  CASE t.kind = "comma" -> [d EXCEPT !.mode = IF InObject(d) THEN "item" ELSE "value"]
    [] t.kind = "colon" -> [d EXCEPT !.mode = "value"]
    [] t.kind = "quote" -> AfterQuote(d, t)
    [] t.kind = "atom" -> Placed(d, t, "next")
    [] t.kind = "object" -> Opened(d, t, TRUE)
    [] t.kind = "array" -> Opened(d, t, FALSE)
    [] t.kind \in {"endObject", "endArray"}
         -> [d EXCEPT !.mode = "next", !.frames = SubSeq(@, 1, Len(@) - 1)]
    [] OTHER -> d

Read(d, t, o) == IF Legal(d, t, o) THEN After(d, t) ELSE [d EXCEPT !.mode = "bad"]
=============================================================================
