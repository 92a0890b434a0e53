----------------------- MODULE DocumentLifetimeProofs -----------------------
(***************************************************************************)
(* A Json that may be looked at is valid exactly while its State holds its *)
(* document, strays excepted, and where strays come from: the proofs, for  *)
(* any number of States, Parsers, Jsons, texts and calls.                  *)
(***************************************************************************)
EXTENDS DocumentLifetime, TLAPS

\* What is known of a Json even when nobody owns its State any more: its
\* generation tells whether the State still holds the document it was taken from,
\* stray or not.
Known(v) ==
  v.state # None =>
    /\ states[v.state].born
    /\ v.stamp \in 1 .. calls
    /\ v.generation = states[v.state].generation <=> states[v.state].content = v.stamp

\* Besides: a parser's State is allocated, and no document is of a call yet to come.
IInv ==
  /\ \A h \in Handles : Known(handles[h])
  /\ \A p \in Parsers : parsers[p] # None => states[parsers[p]].born
  /\ \A s \in States : states[s].content <= calls

-----------------------------------------------------------------------------
(* Types.                                                                  *)

Reached(v) == v.state # None => v.generation \in 1 .. states[v.state].generation

LEMMA TypeSplit ==
  TypeOK <=> /\ states \in [States -> State]
             /\ parsers \in [Parsers -> States \cup {None}]
             /\ handles \in [Handles -> Json]
             /\ walk \in Walk
             /\ calls \in 0 .. MaxCalls
             /\ \A h \in Handles : Reached(handles[h])
  BY DEF TypeOK, Reached

LEMMA StateValues ==
  /\ Unborn \in State
  /\ \A pooled \in BOOLEAN : New(pooled) \in State /\ New(pooled).born
                               /\ New(pooled).content = 0
                               /\ New(pooled).generation = 0
                               /\ New(pooled).pooled = pooled
  BY DEF Unborn, New, State

LEMMA JsonValues ==
  /\ Empty \in Json /\ Empty.state = None
  /\ \A v \in Json : /\ View(v) \in Json /\ View(v).state = v.state
                     /\ View(v).generation = v.generation
                     /\ View(v).stamp = v.stamp /\ View(v).doc = v.doc
  /\ \A s \in States, g \in Nat, d \in Nat :
       /\ Root(s, g, d) \in Json /\ Root(s, g, d).state = s
       /\ Root(s, g, d).generation = g
       /\ Root(s, g, d).stamp = d /\ Root(s, g, d).doc = d
  BY DEF Empty, View, Root, Json

\* Room for a text changes neither the generation nor the document of a State.
LEMMA AllocatedValues ==
  ASSUME NEW st \in State, NEW t \in Texts, NEW o \in Options
  PROVE  /\ Allocated(st, t, o) \in State
         /\ Allocated(st, t, o).generation = st.generation
         /\ Allocated(st, t, o).born = st.born
         /\ Allocated(st, t, o).pooled = st.pooled
  <1>1. t \in Text /\ o \in Option
    BY LifetimeAssumption
  <1>2. Needed(t) \in Nat /\ Depth(o) \in Nat
    BY <1>1 DEF Needed, Depth, Greater, MinCapacity, Text, Option
  <1>3. QED
    BY <1>2 DEF Allocated, State

\* A parse that runs starts a new generation, which holds document d or none.
LEMMA ParsedValues ==
  ASSUME NEW st \in State, NEW t \in Texts, NEW o \in Options, NEW d \in Nat
  PROVE  /\ Parsed(st, t, o, d) \in State
         /\ Parsed(st, t, o, d).generation = st.generation + 1
         /\ Parsed(st, t, o, d).born = st.born
         /\ Parsed(st, t, o, d).pooled = st.pooled
         /\ Parsed(st, t, o, d).content = IF Accepts(st, t, o) THEN d ELSE 0
  <1> DEFINE a == Allocated(st, t, o)
             c == IF Accepts(st, t, o) THEN d ELSE 0
  <1>1. /\ a \in State /\ a.generation = st.generation /\ a.born = st.born
        /\ a.pooled = st.pooled /\ c \in Nat
    BY AllocatedValues
  <1>2. Parsed(st, t, o, d) = [[a EXCEPT !.generation = @ + 1] EXCEPT !.content = c]
    BY DEF Parsed
  <1> HIDE DEF a, c
  <1>3. [a EXCEPT !.generation = @ + 1] \in State
        /\ [a EXCEPT !.generation = @ + 1].generation = a.generation + 1
        /\ [a EXCEPT !.generation = @ + 1].born = a.born
        /\ [a EXCEPT !.generation = @ + 1].pooled = a.pooled
    BY <1>1 DEF State
  <1> DEFINE b == [a EXCEPT !.generation = @ + 1]
  <1> HIDE DEF b
  <1>4. b \in State /\ b.generation = a.generation + 1 /\ b.born = a.born
        /\ b.pooled = a.pooled
    BY <1>3 DEF b
  <1>5. /\ [b EXCEPT !.content = c] \in State /\ [b EXCEPT !.content = c].content = c
        /\ [b EXCEPT !.content = c].generation = b.generation
        /\ [b EXCEPT !.content = c].born = b.born
        /\ [b EXCEPT !.content = c].pooled = b.pooled
    BY <1>1, <1>4 DEF State
  <1>6. Parsed(st, t, o, d) = [b EXCEPT !.content = c]
    BY <1>2 DEF b
  <1>7. QED
    BY <1>1, <1>4, <1>5, <1>6 DEF c

-----------------------------------------------------------------------------
(* Steps.                                                                  *)

\* Steps that leave the States alone and make each Json of Jsons there are.
LEMMA JsonsMade ==
  ASSUME TypeOK, IInv, UNCHANGED <<states, calls>>,
         parsers' \in [Parsers -> States \cup {None}],
         \A p \in Parsers : parsers'[p] # None => states[parsers'[p]].born,
         handles' \in [Handles -> Json],
         \A g \in Handles : Known(handles'[g]) /\ Reached(handles'[g]),
         walk' \in Walk
  PROVE  TypeOK' /\ IInv'
  <1>1. \A g \in Handles : (Known(handles[g]))' /\ (Reached(handles[g]))'
    BY DEF Known, Reached
  <1>2. IInv'
    <2>1. \A s \in States : (states[s].content <= calls)'
      BY DEF IInv
    <2>2. (\A p \in Parsers : parsers[p] # None => states[parsers[p]].born)'
      OBVIOUS
    <2>3. QED
      BY <1>1, <2>1, <2>2 DEF IInv
  <1>3. TypeOK'
    <2>1. (states \in [States -> State])' /\ (calls \in 0 .. MaxCalls)'
      BY TypeSplit
    <2>2. (\A h \in Handles : Reached(handles[h]))'
      BY <1>1
    <2>3. QED
      BY <2>1, <2>2 DEF TypeOK, Reached
  <1>4. QED
    BY <1>2, <1>3

\* What is known of a Json outlives a change of one State: one that was not
\* allocated, one that keeps generation and document, or one that leaves both behind.
LEMMA KnownStays ==
  ASSUME TypeOK, NEW s \in States, NEW new \in State,
         states' = [states EXCEPT ![s] = new],
         calls' \in Nat, calls <= calls',
         \/ ~ states[s].born
         \/ new = states[s]
         \/ /\ new.born
            /\ new.generation > states[s].generation
            /\ new.content \notin 1 .. calls,
         NEW v \in Json, Known(v), Reached(v)
  PROVE  (Known(v))' /\ (Reached(v))'
  <1>1. states \in [States -> State] /\ calls \in Nat
    BY TypeSplit, LifetimeAssumption
  <1>2. CASE v.state = None
    BY <1>2 DEF Known, Reached
  <1>3. CASE v.state # None
    <2>1. v.state \in States /\ v.generation \in Nat /\ v.stamp \in 1 .. calls /\ states[v.state].born
      BY <1>3 DEF Known, Json
    <2>2. v.stamp \in 1 .. calls'
      BY <1>1, <2>1
    <2>3. CASE v.state # s
      <3>1. states'[v.state] = states[v.state]
        BY <1>1, <2>1, <2>3
      <3>2. QED
        BY <1>3, <2>1, <2>2, <3>1 DEF Known, Reached
    <2>4. CASE v.state = s
      <3>1. states'[s] = new
        BY <1>1
      <3>2. CASE new = states[s]
        BY <1>3, <2>1, <2>2, <2>4, <3>1, <3>2 DEF Known, Reached
      <3>3. CASE new # states[s]
        <4>1. new.born /\ new.generation > states[s].generation /\ new.content # v.stamp
          BY <2>1, <2>4, <3>3
        <4>2. new.generation \in Nat /\ states[s].generation \in Nat
          BY <1>1 DEF State
        <4>3. v.generation \in 1 .. states[s].generation
          BY <1>3, <2>4 DEF Reached
        <4>4. v.generation # new.generation /\ v.generation \in 1 .. new.generation
          BY <4>1, <4>2, <4>3
        <4>5. QED
          BY <1>3, <2>2, <2>4, <3>1, <4>1, <4>4 DEF Known, Reached
      <3>4. QED
        BY <3>2, <3>3
    <2>5. QED
      BY <2>3, <2>4
  <1>4. QED
    BY <1>2, <1>3

\* The same, when also the Jsons and the parsers may change.
LEMMA StateChanged ==
  ASSUME TypeOK, IInv, NEW s \in States, NEW new \in State,
         states' = [states EXCEPT ![s] = new],
         calls' \in 0 .. MaxCalls, calls <= calls',
         \/ ~ states[s].born
         \/ new = states[s]
         \/ /\ new.born
            /\ new.generation > states[s].generation
            /\ new.content \notin 1 .. calls,
         new.content <= calls', new.born,
         parsers' \in [Parsers -> States \cup {None}],
         \A p \in Parsers : parsers'[p] \in {parsers[p], s, None},
         handles' \in [Handles -> Json],
         \A g \in Handles : \/ handles'[g] = handles[g]
                            \/ (Known(handles[g]))' /\ (Reached(handles[g]))',
         walk' = walk
  PROVE  TypeOK' /\ IInv'
  <1>1. /\ states \in [States -> State] /\ calls \in Nat /\ calls' \in Nat
        /\ handles \in [Handles -> Json] /\ walk \in Walk
        /\ \A g \in Handles : Known(handles[g]) /\ Reached(handles[g])
    BY TypeSplit, LifetimeAssumption DEF IInv
  <1>2. \A v \in Json : Known(v) /\ Reached(v) => (Known(v))' /\ (Reached(v))'
    BY <1>1, KnownStays
  <1>3. ASSUME NEW g \in Handles
        PROVE  (Known(handles[g]))' /\ (Reached(handles[g]))'
    <2>1. CASE handles'[g] = handles[g]
      <3> DEFINE v == handles[g]
      <3>1. states' = states' /\ v \in Json /\ Known(v) /\ Reached(v)
        BY <1>1
      <3>2. PICK w \in Json : w = v
        BY <3>1
      <3>3. (Known(w))' /\ (Reached(w))'
        BY <1>2, <3>1, <3>2
      <3>4. QED
        BY <2>1, <3>2, <3>3 DEF Known, Reached
    <2>2. QED
      BY <2>1
  <1>4. states' \in [States -> State]
    BY <1>1
  <1>5. \A r \in States : states'[r] = new \/ states'[r] = states[r]
    BY <1>1
  <1>6. \A r \in States : states'[r].content <= calls'
    BY <1>1, <1>5 DEF IInv, State
  <1>7. \A p \in Parsers : parsers'[p] # None => states'[parsers'[p]].born
    <2>1. \A r \in States : states[r].born => states'[r].born
      BY <1>5
    <2>2. states'[s].born
      BY <1>1
    <2>3. \A p \in Parsers : parsers[p] # None => parsers[p] \in States /\ states[parsers[p]].born
      BY TypeSplit DEF IInv
    <2>4. QED
      BY <2>1, <2>2, <2>3
  <1>8. IInv'
    BY <1>3, <1>6, <1>7 DEF IInv
  <1>9. TypeOK'
    <2>1. walk' \in Walk
      BY <1>1
    <2>2. QED
      BY <1>3, <1>4, <2>1 DEF TypeOK, Reached
  <1>10. QED
    BY <1>8, <1>9

-----------------------------------------------------------------------------
(* The operations.                                                         *)

\* A call of parse, with a State of its own or that of a parser.
LEMMA ParseSteps ==
  ASSUME TypeOK, IInv, NEW s \in States, NEW st \in State, NEW t \in Texts,
         NEW o \in Options, NEW h \in Handles,
         NewCall, ParseWithState(s, st, t, o, h),
         st.born, (~ states[s].born /\ st.content = 0) \/ st = states[s],
         parsers' \in [Parsers -> States \cup {None}],
         \A p \in Parsers : parsers'[p] \in {parsers[p], s},
         walk' = walk
  PROVE  TypeOK' /\ IInv'
  <1>1. /\ calls \in 0 .. MaxCalls /\ MaxCalls \in Nat /\ calls' = calls + 1
        /\ calls' \in 0 .. MaxCalls /\ calls <= calls'
        /\ states \in [States -> State] /\ handles \in [Handles -> Json]
    BY TypeSplit, LifetimeAssumption DEF NewCall
  <1>2. st.generation \in Nat /\ states[s].generation \in Nat /\ st.content <= calls
    BY <1>1 DEF State, IInv
  <1>3. CASE Oversize(t, o)
    <2>1. states' = [states EXCEPT ![s] = st] /\ handles' = handles
      BY <1>3 DEF ParseWithState
    <2>2. st.content <= calls'
      BY <1>1, <1>2 DEF State
    <2>3. handles' \in [Handles -> Json]
      BY <1>1, <2>1
    <2>4. ~ states[s].born \/ st = states[s]
      OBVIOUS
    <2>5. \A p \in Parsers : parsers'[p] \in {parsers[p], s, None}
      OBVIOUS
    <2>6. QED
      BY <1>1, <2>1, <2>2, <2>3, <2>4, <2>5, StateChanged
  <1>4. CASE ~ Oversize(t, o)
    <2> DEFINE new == Parsed(st, t, o, calls + 1)
               made == Root(s, st.generation + 1, calls + 1)
               taken == Accepts(st, t, o)
    <2>1. /\ states' = [states EXCEPT ![s] = new]
          /\ handles' = IF taken THEN [handles EXCEPT ![h] = made] ELSE handles
      BY <1>4 DEF ParseWithState
    <2>2. /\ new \in State /\ new.generation = st.generation + 1 /\ new.born
          /\ new.content = IF taken THEN calls + 1 ELSE 0
      BY <1>1, ParsedValues
    <2>3. /\ made \in Json /\ made.state = s /\ made.stamp = calls + 1
          /\ made.generation = st.generation + 1
      BY <1>1, <1>2, JsonValues
    <2> HIDE DEF new, made, taken
    <2>4. new.content \notin 1 .. calls /\ new.content <= calls'
      BY <1>1, <2>2
    <2>5. ~ states[s].born \/ new.generation > states[s].generation
      BY <1>2, <2>2
    <2>6. handles' \in [Handles -> Json]
      BY <1>1, <2>1, <2>3
    <2>7. ASSUME taken
          PROVE  \A g \in Handles : handles'[g] = handles[g] \/ handles'[g] = made
      BY <1>1, <2>1, <2>7
    <2>8. s # None /\ states'[s] = new
      BY <1>1, <2>1, LifetimeAssumption
    <2>9. ASSUME NEW g \in Handles
          PROVE  \/ handles'[g] = handles[g]
                 \/ (Known(handles[g]))' /\ (Reached(handles[g]))'
      <3>1. CASE ~ taken
        BY <2>1, <3>1
      <3>2. CASE taken /\ handles'[g] = made
        <4>1. handles'[g].state = s /\ handles'[g].stamp = calls'
              /\ handles'[g].generation = states'[s].generation
              /\ states'[s].content = calls' /\ states'[s].born
          BY <1>1, <2>2, <2>3, <2>8, <3>2
        <4>2. calls' \in 1 .. calls' /\ states'[s].generation \in 1 .. states'[s].generation
          BY <1>1, <1>2, <2>2, <2>8
        <4>3. QED
          BY <4>1, <4>2 DEF Known, Reached
      <3>3. QED
        BY <2>7, <3>1, <3>2
    <2>10. \A p \in Parsers : parsers'[p] \in {parsers[p], s, None}
      OBVIOUS
    <2>11. QED
      BY <1>1, <2>1, <2>2, <2>4, <2>5, <2>6, <2>9, <2>10, StateChanged
  <1>5. QED
    BY <1>3, <1>4

\* A State is given up: its generation moves on, its document goes.
LEMMA ResetSteps ==
  ASSUME TypeOK, IInv, NEW p \in Parsers, Reset(p)
  PROVE  TypeOK' /\ IInv'
  <1> DEFINE s == parsers[p]
             a == [states[s] EXCEPT !.generation = @ + 1]
             new == [a EXCEPT !.content = 0]
  <1>1. /\ states \in [States -> State] /\ calls \in 0 .. MaxCalls /\ MaxCalls \in Nat
        /\ parsers \in [Parsers -> States \cup {None}] /\ s \in States
        /\ handles \in [Handles -> Json]
        /\ calls' = calls /\ handles' = handles /\ walk' = walk
        /\ parsers' = [parsers EXCEPT ![p] = None]
    BY TypeSplit, LifetimeAssumption DEF Reset
  <1>2. states[s].born
    BY DEF IInv, Reset
  <1>3. states' = [states EXCEPT ![s] = new]
    <2>1. states' = [states EXCEPT ![s].generation = @ + 1, ![s].content = 0]
      BY DEF Reset
    <2>2. states' = [[states EXCEPT ![s] = a] EXCEPT ![s] = [@ EXCEPT !.content = 0]]
      BY <2>1
    <2>3. QED
      BY <1>1, <2>2
  <1>4. a \in State /\ a.generation = states[s].generation + 1 /\ a.born
    BY <1>1, <1>2 DEF State
  <1> HIDE DEF a
  <1>5. new \in State /\ new.generation = a.generation /\ new.content = 0 /\ new.born
    BY <1>4 DEF State
  <1>6. states[s].generation \in Nat
    BY <1>1 DEF State
  <1>7. new.generation > states[s].generation /\ new.content \notin 1 .. calls
    BY <1>1, <1>4, <1>5, <1>6
  <1> HIDE DEF new
  <1>8. /\ parsers' \in [Parsers -> States \cup {None}]
        /\ \A q \in Parsers : parsers'[q] \in {parsers[q], s, None}
    BY <1>1
  <1>9. new.content <= calls' /\ calls <= calls'
    BY <1>1, <1>5
  <1> HIDE DEF s
  <1>10. QED
    BY <1>1, <1>3, <1>5, <1>7, <1>8, <1>9, StateChanged

\* A Json takes the place of another: every operation of one that does not parse.
LEMMA JsonSteps ==
  ASSUME TypeOK, IInv, UNCHANGED <<states, parsers, walk, calls>>,
         handles' \in [Handles -> Json],
         \A g \in Handles : Known(handles'[g]) /\ Reached(handles'[g])
  PROVE  TypeOK' /\ IInv'
  <1>1. /\ parsers' \in [Parsers -> States \cup {None}]
        /\ \A p \in Parsers : parsers'[p] # None => states[parsers'[p]].born
        /\ walk' \in Walk
    BY TypeSplit DEF IInv
  <1>2. QED
    BY <1>1, JsonsMade

\* Copies, views and empty Jsons are of no other generation or document.
LEMMA KnownValues ==
  /\ Known(Empty) /\ Reached(Empty)
  /\ \A v \in Json : Known(v) => Known(View(v))
  /\ \A v \in Json : Reached(v) => Reached(View(v))
  BY JsonValues DEF Known, Reached

\* A child of an iteration is as valid as the Json it was called on is by now.
LEMMA WalkedValues ==
  ASSUME TypeOK, walk.handle # None
  PROVE  /\ WalkedChild \in Json
         /\ Known(handles[walk.handle]) => Known(WalkedChild)
         /\ Reached(handles[walk.handle]) => Reached(WalkedChild)
         /\ walk.handle \in Handles
         /\ WalkedChild.stamp = handles[walk.handle].stamp
         /\ WalkedChild.doc = walk.doc
  <1> DEFINE h == walk.handle
             v == View(handles[h])
             a == [v EXCEPT !.tape = walk.tape]
  <1>1. /\ h \in Handles /\ walk.tape \in States \cup {None} /\ walk.doc \in Nat
        /\ handles[h] \in Json
    BY TypeSplit DEF Walk
  <1>2. /\ v \in Json /\ v.state = handles[h].state
        /\ v.generation = handles[h].generation /\ v.stamp = handles[h].stamp
    BY <1>1, JsonValues
  <1>3. WalkedChild = [a EXCEPT !.doc = walk.doc]
    BY DEF WalkedChild, Child
  <1> HIDE DEF v
  <1>4. /\ a \in Json /\ a.state = v.state
        /\ a.generation = v.generation /\ a.stamp = v.stamp
    BY <1>1, <1>2 DEF Json
  <1> HIDE DEF a
  <1>5. /\ WalkedChild \in Json /\ WalkedChild.state = a.state
        /\ WalkedChild.generation = a.generation /\ WalkedChild.stamp = a.stamp
        /\ WalkedChild.doc = walk.doc
    BY <1>1, <1>3, <1>4 DEF Json
  <1>6. QED
    BY <1>1, <1>2, <1>4, <1>5 DEF Known, Reached

\* Every step keeps the types and the inductive invariant.
LEMMA Steps ==
  ASSUME TypeOK, IInv, [Next]_vars
  PROVE  TypeOK' /\ IInv'
  <1>1. /\ parsers \in [Parsers -> States \cup {None}] /\ handles \in [Handles -> Json]
        /\ states \in [States -> State] /\ walk \in Walk
        /\ \A p \in Parsers : parsers[p] # None => states[parsers[p]].born
        /\ \A h \in Handles : Known(handles[h]) /\ Reached(handles[h])
    BY TypeSplit DEF IInv
  <1>2. ASSUME NEW h \in Handles, NEW t \in Texts, NEW o \in Options, Parse(h, t, o)
        PROVE  TypeOK' /\ IInv'
    <2>1. PICK s \in States : /\ ~ states[s].born /\ NewCall
                              /\ ParseWithState(s, New(FALSE), t, o, h)
                              /\ UNCHANGED <<parsers, walk>>
      BY <1>2 DEF Parse
    <2>2. New(FALSE) \in State /\ New(FALSE).born /\ New(FALSE).content = 0
      BY StateValues
    <2>3. QED
      BY <1>1, <2>1, <2>2, ParseSteps
  <1>3. ASSUME NEW h \in Handles, NEW t \in Texts, NEW o \in Options, NEW p \in Parsers,
               ParserParse(p, h, t, o)
        PROVE  TypeOK' /\ IInv'
    <2> DEFINE old(s) == IF parsers[p] = None THEN New(TRUE) ELSE states[s]
    <2>1. PICK s \in States :
            /\ IF parsers[p] = None THEN ~ states[s].born ELSE s = parsers[p]
            /\ NewCall /\ ParseWithState(s, old(s), t, o, h)
            /\ parsers' = [parsers EXCEPT ![p] = s] /\ walk' = walk
      BY <1>3 DEF ParserParse
    <2>2. /\ parsers' \in [Parsers -> States \cup {None}]
          /\ \A q \in Parsers : parsers'[q] \in {parsers[q], s}
      BY <1>1, <2>1
    <2>3. /\ old(s) \in State /\ old(s).born
          /\ (~ states[s].born /\ old(s).content = 0) \/ old(s) = states[s]
      BY <1>1, <2>1, StateValues
    <2> HIDE DEF old
    <2>4. QED
      BY <2>1, <2>2, <2>3, ParseSteps
  <1>4. ASSUME NEW p \in Parsers, NEW q \in Parsers, MoveParser(p, q) \/ DropParser(p)
        PROVE  TypeOK' /\ IInv'
    <2>1. /\ UNCHANGED <<states, handles, walk, calls>>
          /\ parsers' \in [Parsers -> States \cup {None}]
          /\ \A r \in Parsers : parsers'[r] \in {parsers[p], parsers[r], None}
      BY <1>1, <1>4 DEF MoveParser, DropParser
    <2>2. \A r \in Parsers : parsers'[r] # None => states[parsers'[r]].born
      BY <1>1, <2>1
    <2>3. QED
      BY <1>1, <2>1, <2>2, JsonsMade
  <1>5. ASSUME NEW h \in Handles, NEW g \in Handles, Copy(h, g) \/ MoveJson(h, g)
        PROVE  TypeOK' /\ IInv'
    <2>1. View(handles[h]) \in Json /\ Known(View(handles[h])) /\ Reached(View(handles[h]))
      BY <1>1, JsonValues, KnownValues
    <2>2. /\ handles' \in [Handles -> Json]
          /\ \A k \in Handles : handles'[k] \in {handles[k], handles[h], View(handles[h])}
      BY <1>1, <1>5, <2>1 DEF Copy, MoveJson
    <2>3. \A k \in Handles : Known(handles'[k]) /\ Reached(handles'[k])
      BY <1>1, <2>1, <2>2
    <2>4. UNCHANGED <<states, parsers, walk, calls>>
      BY <1>5 DEF Copy, MoveJson
    <2>5. QED
      BY <2>2, <2>3, <2>4, JsonSteps
  <1>6. ASSUME NEW h \in Handles, NEW g \in Handles, Drop(g) \/ At(h, g) \/ VisitChild(g)
        PROVE  TypeOK' /\ IInv'
    <2>1. PICK v : /\ handles' = [handles EXCEPT ![g] = v]
                   /\ v \in {Empty, View(handles[h])} \/ (v = WalkedChild /\ walk.handle # None)
      BY <1>6 DEF Drop, At, VisitChild, Child
    <2>2. v \in Json /\ Known(v) /\ Reached(v)
      BY <1>1, <2>1, JsonValues, KnownValues, WalkedValues
    <2>3. handles' \in [Handles -> Json] /\ \A k \in Handles : handles'[k] \in {handles[k], v}
      BY <1>1, <2>1, <2>2
    <2>4. \A k \in Handles : Known(handles'[k]) /\ Reached(handles'[k])
      BY <1>1, <2>2, <2>3
    <2>5. UNCHANGED <<states, parsers, walk, calls>>
      BY <1>6 DEF Drop, At, VisitChild
    <2>6. QED
      BY <2>3, <2>4, <2>5, JsonSteps
  <1>7. ASSUME NEW h \in Handles, StartWalk(h)
        PROVE  TypeOK' /\ IInv'
    <2>1. /\ UNCHANGED <<states, parsers, handles, calls>> /\ walk' \in Walk
      BY <1>1, <1>7 DEF StartWalk, Walk, Json
    <2>2. QED
      BY <1>1, <2>1, JsonsMade
  <1>8. CASE EndWalk
    <2>1. /\ UNCHANGED <<states, parsers, handles, calls>> /\ walk' \in Walk
      BY <1>8 DEF EndWalk, NoWalk, Walk
    <2>2. QED
      BY <1>1, <2>1, JsonsMade
  <1>9. CASE UNCHANGED vars
    BY <1>1, <1>9, JsonsMade DEF vars
  <1>10. QED
    BY <1>2, <1>3, <1>4, <1>5, <1>6, <1>7, <1>8, <1>9, ResetSteps DEF Next

\* The types and the inductive invariant hold in every reachable state, for any
\* number of States, Parsers, Jsons, texts and calls.
THEOREM Invariance == Spec => [](TypeOK /\ IInv)
  <1>1. Init => TypeOK
    BY StateValues, JsonValues, LifetimeAssumption DEF Init, TypeOK, NoWalk, Walk
  <1>2. Init => IInv
    <2>1. SUFFICES ASSUME Init PROVE IInv
      OBVIOUS
    <2>2. calls = 0 /\ \A s \in States : states[s].content = 0
      BY <2>1 DEF Init, Unborn
    <2>3. \A h \in Handles : Known(handles[h])
      BY <2>1, KnownValues DEF Init
    <2>4. \A p \in Parsers : parsers[p] = None
      BY <2>1 DEF Init
    <2>5. QED
      BY <2>2, <2>3, <2>4 DEF IInv
  <1>3. TypeOK /\ IInv /\ [Next]_vars => (TypeOK /\ IInv)'
    BY Steps
  <1>4. QED
    BY <1>1, <1>2, <1>3, PTL DEF Spec

\* Every field has its type, and no Json is of a generation yet to come (line 1862).
THEOREM Typing == Spec => []TypeOK
  BY Invariance, PTL

\* A Json that a caller may look at, and that is no stray, is valid exactly while
\* its State holds the document it came from (lines 1862-1901).
THEOREM Validity == Spec => []ValidExactly
  <1>1. IInv => ValidExactly
    BY DEF IInv, Known, ValidExactly, Valid, Stray
  <1>2. QED
    BY <1>1, Invariance, PTL

\* The walked Json has been assigned one of another document.
Reassigned == walk.handle # None /\ handles[walk.handle].doc # walk.doc

NoStray == \A h \in Handles : ~ Stray(handles[h])

\* No step makes a first stray, unless an iteration goes on with a Json of another
\* document than the one it began with.
LEMMA StepsStayOnCourse ==
  ASSUME TypeOK, IInv, [Next]_vars, NoStray, ~ Reassigned
  PROVE  NoStray'
  <1>1. handles \in [Handles -> Json] /\ \A h \in Handles : handles[h].stamp = handles[h].doc
    BY TypeSplit DEF NoStray, Stray
  <1>2. ASSUME NEW g \in Handles, NEW v, v.stamp = v.doc, handles' = [handles EXCEPT ![g] = v]
        PROVE  NoStray'
    BY <1>1, <1>2 DEF NoStray, Stray
  <1>3. CASE handles' = handles
    BY <1>1, <1>3 DEF NoStray, Stray
  <1>4. /\ Empty.stamp = Empty.doc
        /\ \A h \in Handles : View(handles[h]).stamp = View(handles[h]).doc
    BY <1>1, JsonValues DEF Empty
  <1>5. ASSUME NEW s \in States, NEW st, NEW t \in Texts, NEW o \in Options, NEW h \in Handles,
               ParseWithState(s, st, t, o, h)
        PROVE  NoStray'
    <2>1. Root(s, st.generation + 1, calls + 1).stamp = Root(s, st.generation + 1, calls + 1).doc
      BY DEF Root
    <2>2. QED
      BY <1>2, <1>3, <1>5, <2>1 DEF ParseWithState
  <1>6. ASSUME NEW h \in Handles, NEW t \in Texts, NEW o \in Options, NEW p \in Parsers,
               ParserParse(p, h, t, o)
        PROVE  NoStray'
    BY <1>5, <1>6 DEF ParserParse
  <1>7. ASSUME NEW h \in Handles, NEW t \in Texts, NEW o \in Options, Parse(h, t, o)
        PROVE  NoStray'
    BY <1>5, <1>7 DEF Parse
  <1>8. ASSUME NEW h \in Handles, NEW g \in Handles, Copy(h, g) \/ Drop(g) \/ At(h, g)
        PROVE  NoStray'
    BY <1>1, <1>2, <1>4, <1>8 DEF Copy, Drop, At, Child
  <1>9. ASSUME NEW h \in Handles, NEW g \in Handles, MoveJson(h, g)
        PROVE  NoStray'
    <2>1. \A k \in Handles : handles'[k] \in {handles[k], handles[h], View(handles[h])}
      BY <1>1, <1>9 DEF MoveJson
    <2>2. QED
      BY <1>1, <1>4, <2>1 DEF NoStray, Stray
  <1>10. ASSUME NEW g \in Handles, VisitChild(g)
         PROVE  NoStray'
    <2>1. walk.handle # None /\ handles' = [handles EXCEPT ![g] = WalkedChild]
      BY <1>10 DEF VisitChild
    <2>2. WalkedChild.stamp = WalkedChild.doc
      BY <1>1, <2>1, WalkedValues DEF Reassigned
    <2>3. QED
      BY <1>2, <2>1, <2>2
  <1>11. ASSUME NEW p \in Parsers, NEW q \in Parsers,
                Reset(p) \/ DropParser(p) \/ MoveParser(p, q)
         PROVE  handles' = handles
    BY <1>11 DEF Reset, DropParser, MoveParser
  <1>12. ASSUME NEW h \in Handles, StartWalk(h)
         PROVE  handles' = handles
    BY <1>12 DEF StartWalk
  <1>13. CASE EndWalk \/ UNCHANGED vars
    BY <1>3, <1>13 DEF EndWalk, vars
  <1>14. QED
    BY <1>3, <1>6, <1>7, <1>8, <1>9, <1>10, <1>11, <1>12, <1>13 DEF Next

\* What Validity leaves out: the first stray is the child of an iteration whose Json
\* has been assigned one of another document (lines 195 and 213).
THEOREM Straying == Spec => [][NoStray /\ ~ Reassigned => NoStray']_vars
  <1>1. TypeOK /\ IInv /\ [Next]_vars => [NoStray /\ ~ Reassigned => NoStray']_vars
    BY StepsStayOnCourse
  <1>2. QED
    BY <1>1, Invariance, PTL DEF Spec

-----------------------------------------------------------------------------
(* Which States a parser holds.                                            *)

\* A State that no Parser made holds its first document for ever.
Apart ==
  /\ \A p \in Parsers : parsers[p] # None => states[parsers[p]].pooled
  /\ \A s \in States : states[s].born /\ ~ states[s].pooled => states[s].generation <= 1

\* What a parse does to its State.
LEMMA ParseChanges ==
  ASSUME TypeOK, NEW s \in States, NEW st \in State, NEW t \in Texts, NEW o \in Options,
         NEW h \in Handles, ParseWithState(s, st, t, o, h)
  PROVE  \E new \in State :
           /\ states' = [states EXCEPT ![s] = new]
           /\ new.born = st.born /\ new.pooled = st.pooled
           /\ new.generation <= st.generation + 1
  <1>1. calls + 1 \in Nat /\ st.generation \in Nat
    BY TypeSplit, LifetimeAssumption DEF State
  <1>2. CASE Oversize(t, o)
    BY <1>1, <1>2 DEF ParseWithState
  <1>3. CASE ~ Oversize(t, o)
    <2>1. states' = [states EXCEPT ![s] = Parsed(st, t, o, calls + 1)]
      BY <1>3 DEF ParseWithState
    <2> DEFINE new == Parsed(st, t, o, calls + 1)
    <2>2. /\ new \in State /\ new.born = st.born /\ new.pooled = st.pooled
          /\ new.generation <= st.generation + 1
      BY <1>1, ParsedValues
    <2> HIDE DEF new
    <2>3. QED
      BY <2>1, <2>2 DEF new
  <1>4. QED
    BY <1>2, <1>3

\* Steps that leave the States alone and hand on what the parsers hold.
LEMMA ParsersMove ==
  ASSUME TypeOK, Apart, OneParserEach, states' = states,
         \/ parsers' = parsers
         \/ \E p, q \in Parsers : MoveParser(p, q)
         \/ \E p \in Parsers : DropParser(p)
  PROVE  Apart' /\ OneParserEach'
  <1>1. parsers \in [Parsers -> States \cup {None}]
    BY TypeSplit
  <1>2. CASE parsers' = parsers
    BY <1>2 DEF Apart, OneParserEach
  <1>3. ASSUME NEW p \in Parsers, NEW q \in Parsers, MoveParser(p, q)
        PROVE  Apart' /\ OneParserEach'
    <2>1. /\ parsers'[p] = None /\ parsers'[q] = parsers[p]
          /\ \A r \in Parsers \ {p, q} : parsers'[r] = parsers[r]
      BY <1>1, <1>3 DEF MoveParser
    <2>2. QED
      BY <2>1 DEF Apart, OneParserEach
  <1>4. ASSUME NEW p \in Parsers, DropParser(p)
        PROVE  Apart' /\ OneParserEach'
    <2>1. parsers'[p] = None /\ \A r \in Parsers \ {p} : parsers'[r] = parsers[r]
      BY <1>1, <1>4 DEF DropParser
    <2>2. QED
      BY <2>1 DEF Apart, OneParserEach
  <1>5. QED
    BY <1>2, <1>3, <1>4

\* A State is in the hands of one parser, or of none for ever.
LEMMA Holding ==
  ASSUME TypeOK, IInv, Apart, OneParserEach, [Next]_vars
  PROVE  Apart' /\ OneParserEach'
  <1>1. /\ parsers \in [Parsers -> States \cup {None}]
        /\ states \in [States -> State]
        /\ \A p \in Parsers : parsers[p] # None => parsers[p] \in States
                                                   /\ states[parsers[p]].born
    BY TypeSplit DEF IInv
  <1>2. ASSUME NEW h \in Handles, NEW t \in Texts, NEW o \in Options, Parse(h, t, o)
        PROVE  Apart' /\ OneParserEach'
    <2>1. PICK s \in States : /\ ~ states[s].born
                              /\ ParseWithState(s, New(FALSE), t, o, h)
                              /\ parsers' = parsers
      BY <1>2 DEF Parse
    <2>2. PICK new \in State : /\ states' = [states EXCEPT ![s] = new]
                               /\ ~ new.pooled /\ new.generation <= 1
      <3>1. New(FALSE) \in State /\ New(FALSE).generation = 0 /\ New(FALSE).pooled = FALSE
        BY StateValues
      <3> DEFINE st == New(FALSE)
      <3> HIDE DEF st
      <3>2. /\ st \in State /\ st.generation = 0 /\ st.pooled = FALSE
            /\ ParseWithState(s, st, t, o, h)
        BY <2>1, <3>1 DEF st
      <3>3. PICK new \in State : /\ states' = [states EXCEPT ![s] = new]
                                 /\ new.pooled = st.pooled
                                 /\ new.generation <= st.generation + 1
        BY <3>2, ParseChanges
      <3>4. new.pooled = FALSE /\ new.generation <= 1
        BY <3>2, <3>3
      <3>5. QED
        BY <3>3, <3>4
    <2>3. states'[s] = new /\ \A r \in States \ {s} : states'[r] = states[r]
      BY <1>1, <2>2
    <2>4. \A p \in Parsers : parsers[p] # s
      BY <1>1, <2>1, LifetimeAssumption
    <2>5. QED
      BY <1>1, <2>1, <2>2, <2>3, <2>4 DEF Apart, OneParserEach
  <1>3. ASSUME NEW h \in Handles, NEW t \in Texts, NEW o \in Options, NEW p \in Parsers,
               ParserParse(p, h, t, o)
        PROVE  Apart' /\ OneParserEach'
    <2> DEFINE old(s) == IF parsers[p] = None THEN New(TRUE) ELSE states[s]
    <2>1. PICK s \in States :
            /\ IF parsers[p] = None THEN ~ states[s].born ELSE s = parsers[p]
            /\ ParseWithState(s, old(s), t, o, h)
            /\ parsers' = [parsers EXCEPT ![p] = s]
      BY <1>3 DEF ParserParse
    <2>2. old(s) \in State /\ old(s).pooled
      BY <1>1, <2>1, StateValues DEF Apart
    <2> HIDE DEF old
    <2>3. PICK new \in State : states' = [states EXCEPT ![s] = new] /\ new.pooled = old(s).pooled
      BY <2>1, <2>2, ParseChanges
    <2>4. states'[s] = new /\ \A r \in States \ {s} : states'[r] = states[r]
      BY <1>1, <2>3
    <2>5. parsers'[p] = s /\ \A q \in Parsers \ {p} : parsers'[q] = parsers[q]
      BY <1>1, <2>1
    <2>6. \A q \in Parsers \ {p} : parsers[q] # s
      BY <1>1, <2>1, LifetimeAssumption DEF OneParserEach
    <2>7. Apart'
      <3>1. states'[s].pooled
        BY <2>2, <2>3, <2>4
      <3>2. \A q \in Parsers : parsers'[q] # None => states'[parsers'[q]].pooled
        BY <1>1, <2>4, <2>5, <2>6, <3>1 DEF Apart
      <3>3. \A r \in States : states'[r].born /\ ~ states'[r].pooled => states'[r].generation <= 1
        BY <2>4, <3>1 DEF Apart
      <3>4. QED
        BY <3>2, <3>3 DEF Apart
    <2>8. OneParserEach'
      BY <2>5, <2>6 DEF OneParserEach
    <2>9. QED
      BY <2>7, <2>8
  <1>4. ASSUME NEW p \in Parsers, Reset(p)
        PROVE  Apart' /\ OneParserEach'
    <2>1. parsers[p] \in States /\ states[parsers[p]].pooled
      BY <1>1, <1>4 DEF Reset, Apart
    <2>2. /\ states'[parsers[p]].pooled
          /\ \A r \in States \ {parsers[p]} : states'[r] = states[r]
      <3>1. states' = [states EXCEPT ![parsers[p]].generation = @ + 1, ![parsers[p]].content = 0]
        BY <1>4 DEF Reset
      <3>2. states'[parsers[p]] = [[states[parsers[p]] EXCEPT !.generation = @ + 1]
                                     EXCEPT !.content = 0]
        BY <1>1, <2>1, <3>1
      <3>3. states[parsers[p]] \in State
        BY <1>1, <2>1
      <3>4. states'[parsers[p]].pooled = states[parsers[p]].pooled
        BY <3>2, <3>3 DEF State
      <3>5. QED
        BY <1>1, <2>1, <3>1, <3>4
    <2>3. parsers'[p] = None /\ \A q \in Parsers \ {p} : parsers'[q] = parsers[q]
      BY <1>1, <1>4 DEF Reset
    <2>4. QED
      BY <1>1, <2>1, <2>2, <2>3 DEF Apart, OneParserEach
  <1>5. CASE UNCHANGED vars
    BY <1>5, ParsersMove DEF vars
  <1>6. ASSUME NEW h \in Handles, NEW g \in Handles,
               \/ Drop(h) \/ StartWalk(h) \/ VisitChild(h)
               \/ Copy(h, g) \/ MoveJson(h, g) \/ At(h, g)
        PROVE  Apart' /\ OneParserEach'
    BY <1>6, ParsersMove DEF Drop, StartWalk, VisitChild, Copy, MoveJson, At
  <1>7. CASE EndWalk
    BY <1>7, ParsersMove DEF EndWalk
  <1>8. ASSUME NEW p \in Parsers, NEW q \in Parsers, DropParser(p) \/ MoveParser(p, q)
        PROVE  Apart' /\ OneParserEach'
    <2>1. states' = states
      BY <1>8 DEF DropParser, MoveParser
    <2>2. QED
      BY <1>8, <2>1, ParsersMove
  <1>9. CASE \E h \in Handles : Drop(h) \/ StartWalk(h) \/ VisitChild(h)
    BY <1>6, <1>9
  <1>10. QED
    BY <1>2, <1>3, <1>4, <1>5, <1>6, <1>7, <1>8, <1>9 DEF Next

LEMMA HoldingAlways == Spec => [](TypeOK /\ IInv /\ Apart /\ OneParserEach)
  <1>1. Init => Apart /\ OneParserEach
    BY DEF Init, Apart, OneParserEach, Unborn
  <1>2. TypeOK /\ IInv /\ Apart /\ OneParserEach /\ [Next]_vars => (Apart /\ OneParserEach)'
    BY Holding
  <1>3. QED
    BY <1>1, <1>2, Invariance, PTL DEF Spec

\* No two parsers parse into the same State, whatever is moved where (lines 237-249).
THEOREM Separation == Spec => []OneParserEach
  BY HoldingAlways, PTL

\* A document of json::parse() never becomes invalid (docs/json-README.md:18).
THEOREM Independence == Spec => []Independent
  <1>1. TypeOK /\ IInv /\ Apart => Independent
    <2>1. SUFFICES ASSUME TypeOK, IInv, Apart, NEW h \in Handles,
                          handles[h].state # None, ~ states[handles[h].state].pooled
                   PROVE  Valid(handles[h])
      BY DEF Independent
    <2> DEFINE v == handles[h]
    <2>2. v.state \in States /\ states[v.state].born /\ states[v.state].generation \in Nat
      BY <2>1, TypeSplit DEF IInv, Known, Json, State
    <2>3. v.generation \in 1 .. states[v.state].generation
      BY <2>1, TypeSplit DEF Reached
    <2>4. states[v.state].generation <= 1
      BY <2>1, <2>2 DEF Apart
    <2>5. QED
      BY <2>1, <2>2, <2>3, <2>4 DEF Valid
  <1>2. QED
    BY <1>1, HoldingAlways, PTL

\* What a step does to a State that no parser holds: nothing to its generation.
Untouched ==
  \A h \in Handles :
    LET v == handles[h]
    IN /\ v.state # None /\ Owned(v.state) /\ Owned(v.state)'
       /\ \A p \in Parsers : parsers[p] # v.state
       => states'[v.state].generation = states[v.state].generation

LEMMA StepsLeaveAlone ==
  ASSUME TypeOK, IInv, [Next]_vars
  PROVE  Untouched
  <1>1. states \in [States -> State]
    BY TypeSplit
  <1>2. SUFFICES ASSUME NEW s \in States, states[s].born, \A p \in Parsers : parsers[p] # s
                 PROVE  states'[s] = states[s]
    BY TypeSplit DEF Untouched, IInv, Known, Json
  <1>3. CASE states' = states
    BY <1>3
  <1>4. ASSUME NEW r \in States, NEW new, states' = [states EXCEPT ![r] = new], r # s
        PROVE  states'[s] = states[s]
    BY <1>1, <1>4
  <1>5. ASSUME NEW h \in Handles, NEW t \in Texts, NEW o \in Options, Parse(h, t, o)
        PROVE  states'[s] = states[s]
    <2>1. PICK r \in States : ~ states[r].born /\ ParseWithState(r, New(FALSE), t, o, h)
      BY <1>5 DEF Parse
    <2>2. r # s
      BY <1>2, <2>1
    <2>3. QED
      BY <1>4, <2>1, <2>2 DEF ParseWithState
  <1>6. ASSUME NEW h \in Handles, NEW t \in Texts, NEW o \in Options, NEW p \in Parsers,
               ParserParse(p, h, t, o)
        PROVE  states'[s] = states[s]
    <2> DEFINE old(r) == IF parsers[p] = None THEN New(TRUE) ELSE states[r]
    <2>1. PICK r \in States :
            /\ IF parsers[p] = None THEN ~ states[r].born ELSE r = parsers[p]
            /\ ParseWithState(r, old(r), t, o, h)
      BY <1>6 DEF ParserParse
    <2>2. r # s
      BY <1>2, <2>1
    <2>3. QED
      BY <1>4, <2>1, <2>2 DEF ParseWithState
  <1>7. ASSUME NEW p \in Parsers, Reset(p)
        PROVE  states'[s] = states[s]
    <2>1. states' = [states EXCEPT ![parsers[p]].generation = @ + 1, ![parsers[p]].content = 0]
      BY <1>7 DEF Reset
    <2>2. parsers[p] # s
      BY <1>2
    <2>3. QED
      BY <1>1, <2>1, <2>2
  <1>8. ASSUME NEW h \in Handles, NEW g \in Handles,
               \/ Drop(h) \/ StartWalk(h) \/ VisitChild(h)
               \/ Copy(h, g) \/ MoveJson(h, g) \/ At(h, g)
        PROVE  states' = states
    BY <1>8 DEF Drop, StartWalk, VisitChild, Copy, MoveJson, At
  <1>9. ASSUME NEW p \in Parsers, NEW q \in Parsers, DropParser(p) \/ MoveParser(p, q)
        PROVE  states' = states
    BY <1>9 DEF DropParser, MoveParser
  <1>10. CASE EndWalk \/ UNCHANGED vars
    BY <1>3, <1>10 DEF EndWalk, vars
  <1>11. QED
    BY <1>3, <1>5, <1>6, <1>7, <1>8, <1>9, <1>10 DEF Next

\* A document whose State no parser holds stays as it is (docs/json-README.md:18).
THEOREM Undisturbed == Spec => LeftAlone
  <1>1. TypeOK /\ IInv /\ [Next]_vars => [Untouched]_vars
    BY StepsLeaveAlone
  <1>2. QED
    BY <1>1, Invariance, PTL DEF Spec, LeftAlone, Untouched

-----------------------------------------------------------------------------
\* A parser takes on what it lacks, so that the walk alone decides on the depth.
LEMMA DepthIsTheWalks ==
  ASSUME NEW st \in State, NEW t \in Texts, NEW o \in Options, o.enforce
  PROVE  Accepts(st, t, o) <=> t.wellFormed /\ t.depth <= o.maxDepth
  <1>1. /\ t.depth \in Nat /\ t.size \in Nat /\ o.maxDepth \in Nat
        /\ st.maxDepth \in Nat
    BY LifetimeAssumption DEF Text, Option, State
  <1>2. Depth(o) \in Nat /\ o.maxDepth <= Depth(o)
    BY <1>1 DEF Depth, Greater
  <1>3. Allocated(st, t, o).maxDepth \in Nat /\ Depth(o) <= Allocated(st, t, o).maxDepth
    <2>1. CASE TooSmall(st, t, o)
      <3>1. Allocated(st, t, o).maxDepth = Depth(o)
        BY <2>1 DEF Allocated, State
      <3>2. QED
        BY <1>2, <3>1
    <2>2. CASE ~ TooSmall(st, t, o)
      <3>1. Allocated(st, t, o) = st
        BY <2>2 DEF Allocated
      <3>2. ~ (st.maxDepth < Depth(o))
        BY <2>2 DEF TooSmall
      <3>3. QED
        BY <1>1, <1>2, <3>1, <3>2
    <2>3. QED
      BY <2>1, <2>2
  <1>4. t.depth <= o.maxDepth => t.depth <= Allocated(st, t, o).maxDepth
    BY <1>1, <1>2, <1>3
  <1>5. QED
    BY <1>4 DEF Accepts, WithinLimits

\* With document limits enforced, what a parser has parsed before does not change
\* what it accepts (json.hpp:1862-1901).
THEOREM Freshness == Spec => []AsFresh
  <1>1. TypeOK => AsFresh
    <2>1. Unborn \in State
      BY DEF Unborn, State
    <2>2. TypeOK => \A s \in States : states[s] \in State
      BY DEF TypeOK
    <2>3. QED
      BY <2>1, <2>2, DepthIsTheWalks DEF AsFresh
  <1>2. QED
    BY <1>1, Typing, PTL
=============================================================================
