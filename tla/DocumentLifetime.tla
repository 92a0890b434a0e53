-------------------------- MODULE DocumentLifetime --------------------------
(***************************************************************************)
(* How long a json::Json stays valid.  A document lives in a State, which  *)
(* a Parser keeps for its next parse; a Json is a root that shares         *)
(* ownership of the State, or a view that only points into it.  Either     *)
(* compares its own generation with that of the State.                     *)
(*                                                                         *)
(* A Json is made of two things: its element, a place in the tape of a     *)
(* State, and the State and generation that valid() compares.  An          *)
(* iteration takes its elements from the document it began with, and the   *)
(* rest from the Json it was called on, as that is at each child.          *)
(*                                                                         *)
(* Each allocation of a State is an identity of its own.  content, pooled, *)
(* doc and stamp are history variables: the parse whose document a State   *)
(* holds, whether a Parser made it, and the parses that the element and    *)
(* the generation of a Json come from.                                     *)
(***************************************************************************)
EXTENDS Integers, FiniteSets

CONSTANTS
  States,    \* the States that may be allocated
  Parsers,
  Handles,   \* the variables of type Json
  Texts,
  Options,   \* the ParseOptions
  MaxCalls,  \* bounds the calls of parse
  None

\* depth: levels of values; a scalar has one.
Text == [size : Nat, depth : Nat \ {0}, wellFormed : BOOLEAN]
Option == [maxInput : Nat, maxDepth : Nat, enforce : BOOLEAN]

MinCapacity == 32

ASSUME LifetimeAssumption ==
  /\ Texts \subseteq Text /\ Options \subseteq Option
  /\ None \notin States \cup Parsers \cup Handles
  /\ MaxCalls \in Nat

VARIABLES
  states,    \* of each State allocated so far, its fields
  parsers,   \* the State of each Parser
  handles,   \* each Json
  walk,      \* the iteration going on
  calls      \* calls of parse so far

vars == <<states, parsers, handles, walk, calls>>

State == [born : BOOLEAN, generation : Nat, content : Nat, pooled : BOOLEAN,
          capacity : Nat, maxDepth : Nat]
Unborn == [born |-> FALSE, generation |-> 0, content |-> 0, pooled |-> FALSE,
           capacity |-> 0, maxDepth |-> 0]

\* tape: the State whose tape element_ is a place in.
Json == [owner : States \cup {None}, state : States \cup {None}, generation : Nat, stamp : Nat,
         tape : States \cup {None}, doc : Nat]
Empty == [owner |-> None, state |-> None, generation |-> 0, stamp |-> 0, tape |-> None, doc |-> 0]

\* handle: the Json that for_each_element() or for_each_member() was called on.
Walk == [handle : Handles \cup {None}, tape : States \cup {None}, doc : Nat]
NoWalk == [handle |-> None, tape |-> None, doc |-> 0]

-----------------------------------------------------------------------------
\* A State is freed with its last owner.
Owned(s) == \/ \E p \in Parsers : parsers[p] = s
            \/ \E h \in Handles : handles[h].owner = s

\* What a caller may ask valid(): a pointer into a freed State must not be followed.
Usable(v) == v.state = None \/ Owned(v.state)

Valid(v) == v.state # None /\ v.generation = states[v.state].generation

\* What a caller may look into: the element of a valid Json is followed as well.
Readable(v) == Usable(v) /\ (Valid(v) => Owned(v.tape))

\* A Json whose generation is not that of the document its element is of.
Stray(v) == v.stamp # v.doc

\* Mutant: a root takes the generation from before its parse.
RootOfBefore(s, g, d) ==
  [owner |-> s, state |-> s, generation |-> g - 1, stamp |-> d, tape |-> s, doc |-> d]

Root(s, g, d) == [owner |-> s, state |-> s, generation |-> g, stamp |-> d, tape |-> s, doc |-> d]
View(v) == [v EXCEPT !.owner = None]

\* Mutant: a child takes the generation of the State, not of its parent.
ViewOfToday(v) ==
  [v EXCEPT !.owner = None,
            !.generation = IF v.state = None THEN 0 ELSE states[v.state].generation]

\* The State and the generation that at() and the iterations hand on to a child.
Child(v) == View(v)

Greater(a, b) == IF a > b THEN a ELSE b

Needed(t) == Greater(t.size, MinCapacity)

Depth(o) == Greater(o.maxDepth, 1)

\* Mutant: a parser that has room for the text keeps its depth.
TooSmallForText(st, t, o) == st.capacity < Needed(t)

TooSmall(st, t, o) == st.capacity < Needed(t) \/ st.maxDepth < Depth(o)

\* simdjson's allocate() takes on exactly the capacity and the depth asked for.
Allocated(st, t, o) ==
  IF TooSmall(st, t, o) THEN [st EXCEPT !.capacity = Needed(t), !.maxDepth = Depth(o)] ELSE st

\* The document walk of enforce_limits(), which needs_document_walk() calls for.
WithinLimits(t, o) == o.enforce => t.depth <= o.maxDepth

\* simdjson refuses malformed text, and text deeper than the parser allows.
Accepts(st, t, o) ==
  /\ t.wellFormed
  /\ t.depth <= Allocated(st, t, o).maxDepth
  /\ WithinLimits(t, o)

Oversize(t, o) == t.size > o.maxInput

\* A State after it has parsed text t: a new generation, whatever comes of it.
Parsed(st, t, o, d) ==
  [Allocated(st, t, o) EXCEPT
     !.generation = @ + 1,
     !.content = IF Accepts(st, t, o) THEN d ELSE 0]

-----------------------------------------------------------------------------
NewCall == calls < MaxCalls /\ calls' = calls + 1

\* parse_with_state() on State s, whose fields are st before; its result goes to h.
ParseWithState(s, st, t, o, h) ==
  \/ /\ Oversize(t, o)
     /\ states' = [states EXCEPT ![s] = st]
     /\ UNCHANGED handles
  \/ /\ ~ Oversize(t, o)
     /\ states' = [states EXCEPT ![s] = Parsed(st, t, o, calls + 1)]
     /\ handles' = IF Accepts(st, t, o)
                     THEN [handles EXCEPT ![h] = Root(s, st.generation + 1, calls + 1)]
                     ELSE handles

New(pooled) == [Unborn EXCEPT !.born = TRUE, !.pooled = pooled]

\* Mutant: json::parse() takes up a State that an earlier json::parse() has left.
ParseShared(h, t, o) ==
  \E s \in States :
    /\ ~ states[s].pooled
    /\ NewCall
    /\ ParseWithState(s, [states[s] EXCEPT !.born = TRUE], t, o, h)
    /\ UNCHANGED <<parsers, walk>>

\* json::parse() and Json::parse(): a State of its own.
Parse(h, t, o) ==
  \E s \in States :
    /\ ~ states[s].born
    /\ NewCall
    /\ ParseWithState(s, New(FALSE), t, o, h)
    /\ UNCHANGED <<parsers, walk>>

\* Parser::parse(), deserialize() with the thread's parser among them.
ParserParse(p, h, t, o) ==
  \E s \in States :
    /\ IF parsers[p] = None THEN ~ states[s].born ELSE s = parsers[p]
    /\ NewCall
    /\ ParseWithState(s, IF parsers[p] = None THEN New(TRUE) ELSE states[s], t, o, h)
    /\ parsers' = [parsers EXCEPT ![p] = s]
    /\ UNCHANGED walk

\* Parser::reset(), reset_thread_parser().
Reset(p) ==
  /\ parsers[p] # None
  /\ states' = [states EXCEPT ![parsers[p]].generation = @ + 1,
                              ![parsers[p]].content = 0]
  /\ parsers' = [parsers EXCEPT ![p] = None]
  /\ UNCHANGED <<handles, walk, calls>>

\* Mutant: the parser moved from keeps its State.
MoveParserShared(p, q) ==
  /\ p # q
  /\ parsers' = [parsers EXCEPT ![q] = parsers[p]]
  /\ UNCHANGED <<states, handles, walk, calls>>

\* q takes over p's State, or p's lifetime ends.
MoveParser(p, q) ==
  /\ p # q
  /\ parsers' = [parsers EXCEPT ![q] = parsers[p], ![p] = None]
  /\ UNCHANGED <<states, handles, walk, calls>>
DropParser(p) ==
  /\ parsers[p] # None
  /\ parsers' = [parsers EXCEPT ![p] = None]
  /\ UNCHANGED <<states, handles, walk, calls>>

-----------------------------------------------------------------------------
(* The Json variables.                                                     *)

Copy(h, g) ==
  /\ handles' = [handles EXCEPT ![g] = handles[h]]
  /\ UNCHANGED <<states, parsers, walk, calls>>

\* The defaulted move takes the shared pointer only: h is left a view.
MoveJson(h, g) ==
  /\ h # g
  /\ handles' = [handles EXCEPT ![g] = handles[h], ![h] = View(@)]
  /\ UNCHANGED <<states, parsers, walk, calls>>

\* The empty Json is assigned; the end of a Json nobody iterates over is no different.
Drop(h) ==
  /\ handles' = [handles EXCEPT ![h] = Empty]
  /\ UNCHANGED <<states, parsers, walk, calls>>

\* at() and operator[]: the child, or an empty Json.
At(h, g) ==
  /\ Readable(handles[h])
  /\ \/ Valid(handles[h]) /\ handles' = [handles EXCEPT ![g] = Child(handles[h])]
     \/ handles' = [handles EXCEPT ![g] = Empty]
  /\ UNCHANGED <<states, parsers, walk, calls>>

\* for_each_element() and for_each_member() fix which elements they go through.
StartWalk(h) ==
  /\ walk.handle = None
  /\ Readable(handles[h]) /\ Valid(handles[h])
  /\ walk' = [handle |-> h, tape |-> handles[h].tape, doc |-> handles[h].doc]
  /\ UNCHANGED <<states, parsers, handles, calls>>

\* The next element, with what the Json they were called on holds by now: the
\* callback may have assigned to it.
WalkedChild == [Child(handles[walk.handle]) EXCEPT !.tape = walk.tape, !.doc = walk.doc]

\* The callback is given one child after the other, whatever it does meanwhile.
VisitChild(g) ==
  /\ walk.handle # None
  /\ Owned(walk.tape)
  /\ handles' = [handles EXCEPT ![g] = WalkedChild]
  /\ UNCHANGED <<states, parsers, walk, calls>>
EndWalk ==
  /\ walk.handle # None
  /\ walk' = NoWalk
  /\ UNCHANGED <<states, parsers, handles, calls>>

-----------------------------------------------------------------------------
Init ==
  /\ states = [s \in States |-> Unborn]
  /\ parsers = [p \in Parsers |-> None]
  /\ handles = [h \in Handles |-> Empty]
  /\ walk = NoWalk
  /\ calls = 0

Next ==
  \/ \E h \in Handles, t \in Texts, o \in Options :
       Parse(h, t, o) \/ \E p \in Parsers : ParserParse(p, h, t, o)
  \/ \E p \in Parsers : Reset(p) \/ DropParser(p) \/ \E q \in Parsers : MoveParser(p, q)
  \/ \E h \in Handles : Drop(h) \/ StartWalk(h) \/ VisitChild(h)
  \/ \E h, g \in Handles : Copy(h, g) \/ MoveJson(h, g) \/ At(h, g)
  \/ EndWalk

Spec == Init /\ [][Next]_vars

-----------------------------------------------------------------------------
\* The types; no Json is of a generation its State has yet to reach, or of none.
TypeOK ==
  /\ states \in [States -> State]
  /\ parsers \in [Parsers -> States \cup {None}]
  /\ handles \in [Handles -> Json]
  /\ walk \in Walk
  /\ \A h \in Handles :
       LET v == handles[h]
       IN v.state # None => v.generation \in 1 .. states[v.state].generation
  /\ calls \in 0 .. MaxCalls

\* A Json that a caller may look at is valid exactly while its State still
\* holds the document it came from, through copies, moves, views of views and
\* iterations that the document's parser interrupts (lines 1862-1901), as long
\* as it is not a child of an iteration whose Json was assigned one of another
\* document (lines 195 and 213): such a stray is valid while that one would be.
ValidExactly ==
  \A h \in Handles :
    LET v == handles[h]
    IN Usable(v) /\ v.state # None /\ ~ Stray(v)
       => (Valid(v) <=> states[v.state].content = v.doc)

\* A document of json::parse() never becomes invalid (docs/json-README.md:18).
Independent ==
  \A h \in Handles :
    LET v == handles[h]
    IN Usable(v) /\ v.state # None /\ ~ states[v.state].pooled => Valid(v)

\* Once no parser holds its State, a document stays as it is: destroying a
\* parser, moving it, or parsing with another one never makes it invalid.
LeftAlone ==
  [][\A h \in Handles :
       LET v == handles[h]
       IN /\ v.state # None /\ Owned(v.state) /\ Owned(v.state)'
          /\ \A p \in Parsers : parsers[p] # v.state
          => states'[v.state].generation = states[v.state].generation]_vars

\* A parser does not change what another one's documents are worth: each State
\* is in the hands of at most one parser.
OneParserEach ==
  \A p, q \in Parsers : parsers[p] # None /\ parsers[p] = parsers[q] => p = q

\* With document limits enforced a parser that has been used accepts what a
\* fresh one accepts (tests/test_parser_boundaries.cpp, check_json_context).
AsFresh ==
  \A s \in States, t \in Texts, o \in Options :
    o.enforce => (Accepts(states[s], t, o) <=> Accepts(Unborn, t, o))

\* The next call of Parser::parse, failed or not, makes every Json that the
\* parser returned invalid (docs/json-README.md:18).
ParseInvalidates ==
  [][\A p \in Parsers :
       (\E g \in Handles, t \in Texts, o \in Options : ParserParse(p, g, t, o)) =>
         \A h \in Handles :
           LET v == handles[h]
           IN v.state # None /\ v.state = parsers[p]
              => v.generation # states'[v.state].generation]_vars
=============================================================================
