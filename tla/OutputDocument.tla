--------------------------- MODULE OutputDocument ---------------------------
(***************************************************************************)
(* What a StreamWriter promises its caller about the bytes its sink has    *)
(* accepted, whatever calls are made in whatever order: they are always a  *)
(* prefix of one JSON document within the configured limits; a document is *)
(* sealed only when it is whole; and nothing is sent after an error or     *)
(* after the document is sealed, until the writer starts a new one.        *)
(***************************************************************************)
EXTENDS JsonText

CONSTANTS
  Options,          \* the SerializeOptions a writer may be given
  RawNodes,         \* values a raw fragment may hold
  RawDepths         \* levels of nesting a raw fragment may have

VARIABLES
  options,          \* the limits in force
  doc,              \* the document the accepted bytes spell, as read so far
  sent,             \* how many bytes of it the sink has accepted
  status            \* "open", "sealed", "failed", or "detached" (no sink)

documentVars == <<options, doc, sent, status>>

Statuses == {"open", "sealed", "failed", "detached"}

Fragment(kind) ==
  IF kind = "atom"
    THEN [kind : {"atom"}, nodes : RawNodes \cup {1}, depth : RawDepths \cup {1}]
    ELSE {Token(kind)}

Init ==
  /\ options \in Options
  /\ doc = Blank
  /\ sent = 0
  /\ status \in {"open", "failed", "detached"}

\* The sink accepts one more fragment of the document.
Accept ==
  /\ status = "open"
  /\ \E kind \in Kinds : \E t \in Fragment(kind) :
       Legal(doc, t, options) /\ doc' = After(doc, t)
  /\ sent' \in (sent + 1) .. options.maxOutput
  /\ UNCHANGED <<options, status>>

\* An error: the document stays as it is, and stays unsealed.
Fail ==
  /\ status \in {"open", "sealed"}
  /\ status' = "failed"
  /\ UNCHANGED <<options, doc, sent>>

Seal ==
  /\ status = "open"
  /\ Complete(doc)
  /\ status' = "sealed"
  /\ UNCHANGED <<options, doc, sent>>

\* A new document, in this writer or in one moved into its place.
Restart ==
  /\ options' \in Options
  /\ doc' = Blank
  /\ sent' = 0
  /\ status' \in {"open", "failed", "detached"}

Next == Accept \/ Fail \/ Seal \/ Restart

Spec == Init /\ [][Next]_documentVars
=============================================================================
