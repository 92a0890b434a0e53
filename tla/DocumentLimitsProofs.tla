------------------------ MODULE DocumentLimitsProofs ------------------------
(***************************************************************************)
(* Texts too short to exceed a limit exceed none; each walk refuses what   *)
(* it should; json::parse and deserialize agree on the verdict: proofs for *)
(* any document, options, sizes of keys and strings and any number of      *)
(* inline places.                                                          *)
(***************************************************************************)
EXTENDS DocumentLimits, SequenceTheorems, TLAPS

\* What the types rest on: each key on the stack has been a child of its object.
FrameOK(f) ==
  /\ Len(f.inline) <= InlineCapacity
  /\ Len(f.scanInline) <= InlineCapacity
  /\ f.left <= f.value.size
  /\ Len(f.inline) <= f.value.size - f.left

FramesOK == \A i \in 1 .. Len(stack) : FrameOK(stack[i])

\* What the length of the text rests on: every open container is a value.
Bounds == TextBounds /\ Len(stack) <= facts.values

-----------------------------------------------------------------------------
(* Sequences of frames.                                                    *)

LEMMA Replaced ==
  ASSUME NEW S, NEW s \in Seq(S), s # <<>>, NEW e \in S
  PROVE  /\ [s EXCEPT ![Len(s)] = e] \in Seq(S)
         /\ Len([s EXCEPT ![Len(s)] = e]) = Len(s)
         /\ \A i \in 1 .. Len(s) :
              [s EXCEPT ![Len(s)] = e][i] = IF i = Len(s) THEN e ELSE s[i]
  OBVIOUS

LEMMA Shortened ==
  ASSUME NEW S, NEW s \in Seq(S), s # <<>>
  PROVE  /\ SubSeq(s, 1, Len(s) - 1) \in Seq(S)
         /\ Len(SubSeq(s, 1, Len(s) - 1)) = Len(s) - 1
         /\ \A i \in 1 .. Len(s) - 1 : SubSeq(s, 1, Len(s) - 1)[i] = s[i]
<1> DEFINE n == Len(s) - 1
           r == SubSeq(s, 1, n)
<1>1. n \in Nat /\ \A i \in 1 .. n : s[i] \in S
  OBVIOUS
<1> HIDE DEF n
<1>2. /\ r \in Seq(S)
      /\ Len(r) = IF 1 <= n THEN n - 1 + 1 ELSE 0
      /\ \A i \in 1 .. n - 1 + 1 : r[i] = s[1 + i - 1]
  BY <1>1, SubSeqProperties
<1> HIDE DEF r
<1>3. Len(r) = n /\ n - 1 + 1 = n /\ \A i \in 1 .. n : 1 + i - 1 = i
  BY <1>1, <1>2
<1>4. \A i \in 1 .. n : r[i] = s[i]
  BY <1>2, <1>3
<1> QED
  BY <1>2, <1>3, <1>4 DEF n, r

LEMMA Extended ==
  ASSUME NEW S, NEW s \in Seq(S), NEW e \in S
  PROVE  /\ s \o <<e>> \in Seq(S)
         /\ Len(s \o <<e>>) = Len(s) + 1
         /\ \A i \in 1 .. Len(s) + 1 : (s \o <<e>>)[i] = IF i = Len(s) + 1 THEN e ELSE s[i]
         /\ s \o <<>> = s
  OBVIOUS

-----------------------------------------------------------------------------
(* Values and frames.                                                      *)

LEMMA ValueFields ==
  ASSUME NEW v \in Value
  PROVE  v.size \in Nat /\ v.kind \in {"scalar", "string", "array", "object"}
  BY LimitsAssumption DEF Value

\* A container opens with all its children to come and no key seen.
LEMMA OpenedFrame ==
  ASSUME NEW v \in Value
  PROVE  \/ Opening(v) = <<>>
         \/ \E f \in Frame : Opening(v) = <<f>> /\ FrameOK(f)
<1>1. CASE v \notin Container
  BY <1>1 DEF Opening
<1>2. CASE v \in Container
  <2> DEFINE f == [value |-> v, left |-> v.size, keys |-> {}, inline |-> <<>>, heap |-> <<>>,
                   scanInline |-> <<>>, scanHeap |-> <<>>]
  <2>1. v.size \in Nat
    BY ValueFields
  <2>2. f \in Frame
    BY <1>2, <2>1 DEF Frame
  <2>3. FrameOK(f)
    BY <2>1, LimitsAssumption DEF FrameOK
  <2>4. Opening(v) = <<f>>
    BY <1>2 DEF Opening
  <2> QED
    BY <2>2, <2>3, <2>4
<1> QED
  BY <1>1, <1>2

LEMMA FrameFields ==
  ASSUME NEW f \in Frame
  PROVE  /\ f.value \in Value /\ f.value.size \in Nat /\ f.left \in Nat
         /\ f.inline \in Seq(Keys) /\ f.scanInline \in Seq(Keys)
         /\ f.heap \in Seq(Keys) /\ f.scanHeap \in Seq(Keys) /\ f.keys \in SUBSET Keys
  BY ValueFields DEF Frame, Container

\* One child less to come makes room for one key.
LEMMA ChildTaken ==
  ASSUME NEW f \in Frame, FrameOK(f), f.left > 0
  PROVE  LET g == [f EXCEPT !.left = @ - 1]
         IN /\ g \in Frame /\ FrameOK(g)
            /\ Len(g.inline) + 1 <= g.value.size - g.left
<1> DEFINE g == [f EXCEPT !.left = @ - 1]
<1>1. /\ g.left = f.left - 1 /\ g.value = f.value /\ g.inline = f.inline
      /\ g.scanInline = f.scanInline
  BY DEF Frame
<1>2. f.left - 1 \in Nat
  BY FrameFields
<1>3. g \in Frame
  BY <1>2 DEF Frame
<1> HIDE DEF g
<1>4. FrameOK(g) /\ Len(g.inline) + 1 <= g.value.size - g.left
  BY <1>1, FrameFields DEF FrameOK
<1> QED
  BY <1>3, <1>4 DEF g

LEMMA KeyKept ==
  ASSUME NEW f \in Frame, NEW k \in Keys, FrameOK(f),
         Len(f.inline) + 1 <= f.value.size - f.left
  PROVE  LET g == [f EXCEPT !.keys = @ \cup {k}]
         IN /\ g \in Frame /\ FrameOK(g)
            /\ Len(g.inline) + 1 <= g.value.size - g.left
<1> DEFINE g == [f EXCEPT !.keys = @ \cup {k}]
<1>1. /\ g.left = f.left /\ g.value = f.value /\ g.inline = f.inline
      /\ g.scanInline = f.scanInline
  BY DEF Frame
<1>2. f.keys \cup {k} \in SUBSET Keys
  BY FrameFields
<1>3. g \in Frame
  BY <1>2 DEF Frame
<1> HIDE DEF g
<1> QED
  BY <1>1, <1>3 DEF FrameOK, g

\* observe() keeps a key on the stack only when the whole object fits there.
LEMMA KeyObserved ==
  ASSUME NEW f \in Frame, NEW k \in Keys, FrameOK(f),
         Len(f.inline) + 1 <= f.value.size - f.left
  PROVE  Observed(f, k) \in Frame /\ FrameOK(Observed(f, k))
<1>1. CASE FitsInline(f) /\ k \notin Elements(f.inline)
  <2> DEFINE g == [f EXCEPT !.inline = Append(@, k)]
  <2>1. /\ g.left = f.left /\ g.value = f.value /\ g.inline = Append(f.inline, k)
        /\ g.scanInline = f.scanInline
    BY DEF Frame
  <2>6. Append(f.inline, k) \in Seq(Keys)
    BY FrameFields
  <2>2. g \in Frame
    BY <2>6 DEF Frame
  <2>3. Len(Append(f.inline, k)) = Len(f.inline) + 1 /\ Len(f.inline) \in Nat
    BY FrameFields
  <2>4. Observed(f, k) = g
    BY <1>1 DEF Observed
  <2> HIDE DEF g
  <2>5. FrameOK(g)
    BY <1>1, <2>1, <2>3, FrameFields, LimitsAssumption DEF FrameOK, FitsInline
  <2> QED
    BY <2>2, <2>4, <2>5
<1>2. CASE ~ FitsInline(f) /\ options.reject
  <2> DEFINE g == [f EXCEPT !.heap = Append(@, k)]
  <2>4. Append(f.heap, k) \in Seq(Keys)
    BY FrameFields
  <2>1. /\ g.left = f.left /\ g.value = f.value /\ g.inline = f.inline
        /\ g.scanInline = f.scanInline
    BY DEF Frame
  <2>2. g \in Frame
    BY <2>4 DEF Frame
  <2>3. Observed(f, k) = g
    BY <1>2 DEF Observed
  <2> HIDE DEF g
  <2> QED
    BY <2>1, <2>2, <2>3 DEF FrameOK
<1>3. CASE \/ FitsInline(f) /\ k \in Elements(f.inline)
           \/ ~ FitsInline(f) /\ ~ options.reject
  BY <1>3 DEF Observed
<1> QED
  BY <1>1, <1>2, <1>3

\* The scan keeps a key on the stack only while there is room.
LEMMA KeyScanned ==
  ASSUME NEW f \in Frame, NEW k \in Keys, FrameOK(f)
  PROVE  ScanObserved(f, k) \in Frame /\ FrameOK(ScanObserved(f, k))
<1>1. CASE ~ options.reject
  BY <1>1 DEF ScanObserved
<1>2. CASE options.reject /\ ~ OnHeap(f) /\ Len(f.scanInline) < InlineCapacity
  <2> DEFINE g == [f EXCEPT !.scanInline = Append(@, k)]
  <2>1. /\ g.left = f.left /\ g.value = f.value /\ g.inline = f.inline
        /\ g.scanInline = Append(f.scanInline, k)
    BY DEF Frame
  <2>6. Append(f.scanInline, k) \in Seq(Keys)
    BY FrameFields
  <2>2. g \in Frame
    BY <2>6 DEF Frame
  <2>3. Len(Append(f.scanInline, k)) = Len(f.scanInline) + 1 /\ Len(f.scanInline) \in Nat
    BY FrameFields
  <2>4. ScanObserved(f, k) = g
    BY <1>2 DEF ScanObserved
  <2> HIDE DEF g
  <2>5. FrameOK(g)
    BY <1>2, <2>1, <2>3, LimitsAssumption DEF FrameOK
  <2> QED
    BY <2>2, <2>4, <2>5
<1>3. ASSUME NEW h \in Seq(Keys) PROVE [f EXCEPT !.scanHeap = h] \in Frame /\ FrameOK([f EXCEPT !.scanHeap = h])
  <2> DEFINE g == [f EXCEPT !.scanHeap = h]
  <2>1. /\ g.left = f.left /\ g.value = f.value /\ g.inline = f.inline
        /\ g.scanInline = f.scanInline
    BY DEF Frame
  <2>2. g \in Frame
    BY DEF Frame
  <2> HIDE DEF g
  <2>3. FrameOK(g)
    BY <2>1 DEF FrameOK
  <2> QED
    BY <2>2, <2>3 DEF g
<1>4. CASE options.reject /\ OnHeap(f)
  <2>1. Append(f.scanHeap, k) \in Seq(Keys)
    BY FrameFields
  <2>2. ScanObserved(f, k) = [f EXCEPT !.scanHeap = Append(f.scanHeap, k)]
    BY <1>4 DEF ScanObserved
  <2> QED
    BY <1>3, <2>1, <2>2
<1>5. CASE options.reject /\ ~ OnHeap(f) /\ ~ (Len(f.scanInline) < InlineCapacity)
  <2>1. Spilled(f, k) \in Seq(Keys)
    BY FrameFields DEF Spilled
  <2>2. ScanObserved(f, k) = [f EXCEPT !.scanHeap = Spilled(f, k)]
    BY <1>5 DEF ScanObserved
  <2> QED
    BY <1>3, <2>1, <2>2
<1> QED
  BY <1>1, <1>2, <1>4, <1>5

LEMMA ContainerEntered ==
  ASSUME NEW k \in Keys, Top \in Frame, FrameOK(Top), Top.left > 0
  PROVE  Entered(k) \in Frame /\ FrameOK(Entered(k))
<1> DEFINE f == [Top EXCEPT !.left = @ - 1]
           g == [f EXCEPT !.keys = @ \cup {k}]
<1>1. f \in Frame /\ FrameOK(f) /\ Len(f.inline) + 1 <= f.value.size - f.left
  BY ChildTaken
<1> HIDE DEF f
<1>2. g \in Frame /\ FrameOK(g) /\ Len(g.inline) + 1 <= g.value.size - g.left
  BY <1>1, KeyKept
<1> HIDE DEF g
<1>3. Observed(g, k) \in Frame /\ FrameOK(Observed(g, k))
  BY <1>2, KeyObserved
<1>4. ScanObserved(Observed(g, k), k) \in Frame /\ FrameOK(ScanObserved(Observed(g, k), k))
  BY <1>3, KeyScanned
<1>5. Entered(k) = IF InObject THEN ScanObserved(Observed(g, k), k) ELSE f
  BY DEF Entered, f, g
<1> QED
  BY <1>1, <1>4, <1>5

-----------------------------------------------------------------------------
(* The steps, and the invariants.                                          *)

LEMMA InitialTypes == Init => TypeOK /\ FramesOK
<1> SUFFICES ASSUME Init PROVE TypeOK /\ FramesOK
  OBVIOUS
<1>1. stack = <<>>
  BY DEF Init
<1>2. stack \in Seq(Frame) /\ FramesOK
  BY <1>1 DEF FramesOK
<1>3. \A i \in 1 .. Len(stack) : /\ Len(stack[i].inline) <= InlineCapacity
                                 /\ Len(stack[i].scanInline) <= InlineCapacity
                                 /\ stack[i].left <= stack[i].value.size
  BY <1>1
<1> QED
  BY <1>2, <1>3 DEF Init, TypeOK, Facts

\* What the open containers are after a step of the walks.
LEMMA VisitedFrames ==
  ASSUME TypeOK, FramesOK, NEW v \in Value, NEW k \in Keys, Visit(v, k)
  PROVE  stack' \in Seq(Frame) /\ FramesOK' /\ Len(stack') <= Len(stack) + 1
<1> DEFINE under == IF stack = <<>> THEN <<>> ELSE [stack EXCEPT ![Len(stack)] = Entered(k)]
<1>1. stack' = under \o Opening(v)
  BY DEF Visit
<1>2. stack \in Seq(Frame)
  BY DEF TypeOK
<1>3. /\ under \in Seq(Frame) /\ Len(under) = Len(stack)
      /\ \A i \in 1 .. Len(under) : FrameOK(under[i])
  <2>1. CASE stack = <<>>
    BY <2>1
  <2>2. CASE stack # <<>>
    <3>1. Top \in Frame /\ FrameOK(Top)
      BY <1>2, <2>2 DEF Top, FramesOK
    <3>2. Top.left > 0
      BY <2>2 DEF Visit, Expected
    <3>3. Entered(k) \in Frame /\ FrameOK(Entered(k))
      BY <3>1, <3>2, ContainerEntered
    <3>4. under = [stack EXCEPT ![Len(stack)] = Entered(k)]
      BY <2>2
    <3> HIDE DEF under
    <3>5. /\ under \in Seq(Frame) /\ Len(under) = Len(stack)
          /\ \A i \in 1 .. Len(stack) : under[i] = IF i = Len(stack) THEN Entered(k) ELSE stack[i]
      BY <1>2, <2>2, <3>3, <3>4, Replaced
    <3> QED
      BY <3>3, <3>5 DEF FramesOK
  <2> QED
    BY <2>1, <2>2
<1> HIDE DEF under
<1>4. CASE Opening(v) = <<>>
  <2>1. stack' = under
    BY <1>1, <1>3, <1>4
  <2> QED
    BY <1>2, <1>3, <2>1 DEF FramesOK
<1>5. CASE \E f \in Frame : Opening(v) = <<f>> /\ FrameOK(f)
  <2>1. PICK f \in Frame : Opening(v) = <<f>> /\ FrameOK(f)
    BY <1>5
  <2>2. stack' = under \o <<f>>
    BY <1>1, <2>1
  <2>3. /\ stack' \in Seq(Frame) /\ Len(stack') = Len(under) + 1
        /\ \A i \in 1 .. Len(under) + 1 : stack'[i] = IF i = Len(under) + 1 THEN f ELSE under[i]
    BY <1>3, <2>2, Extended
  <2>4. Len(under) \in Nat
    BY <1>3
  <2>5. ASSUME NEW i \in 1 .. Len(stack') PROVE FrameOK(stack'[i])
    BY <1>3, <2>1, <2>3, <2>4
  <2> QED
    BY <1>2, <1>3, <2>3, <2>4, <2>5 DEF FramesOK
<1> QED
  BY <1>4, <1>5, OpenedFrame

LEMMA ClosedFrames ==
  ASSUME TypeOK, FramesOK, Close
  PROVE  stack' \in Seq(Frame) /\ FramesOK' /\ Len(stack') <= Len(stack)
<1>1. stack \in Seq(Frame) /\ stack # <<>> /\ stack' = SubSeq(stack, 1, Len(stack) - 1)
  BY DEF TypeOK, Close
<1>2. /\ stack' \in Seq(Frame) /\ Len(stack') = Len(stack) - 1
      /\ \A i \in 1 .. Len(stack) - 1 : stack'[i] = stack[i]
  BY <1>1, Shortened
<1>3. Len(stack) \in Nat
  BY <1>1
<1> QED
  BY <1>2, <1>3 DEF FramesOK

\* A value takes a byte at least, and as many as it has characters or children.
LEMMA BytesTaken ==
  ASSUME NEW v \in Value
  PROVE  Bytes(v) \in Nat /\ 1 <= Bytes(v) /\ v.size <= Bytes(v)
<1>1. v.size \in Nat /\ (v.kind = "scalar" => v.size = 0)
  BY ValueFields DEF Value
<1> QED
  BY <1>1 DEF Bytes, Greater

\* The text that a step of the walks takes.
LEMMA TextTaken ==
  ASSUME TypeOK, NEW v \in Value, NEW k \in Keys, Visit(v, k)
  PROVE  /\ bytes' \in Nat /\ bytes + 1 <= bytes' /\ v.size <= bytes'
         /\ InObject => KeySize(k) <= bytes'
<1>1. /\ Bytes(v) \in Nat /\ 1 <= Bytes(v) /\ v.size <= Bytes(v)
      /\ v.size \in Nat /\ KeySize(k) \in Nat /\ bytes \in Nat
  BY BytesTaken, ValueFields, LimitsAssumption DEF TypeOK
<1>2. bytes' = bytes + Bytes(v) + (IF InObject THEN KeySize(k) + 3 ELSE 0)
  BY DEF Visit
<1> QED
  BY <1>1, <1>2

LEMMA AddedTypes ==
  ASSUME TypeOK, NEW v \in Value, NEW k \in Keys
  PROVE  Added(v, k) \in Facts
<1>1. /\ facts \in Facts /\ v.size \in Nat /\ KeySize(k) \in Nat /\ Len(stack) \in Nat
  BY ValueFields, LimitsAssumption DEF TypeOK
<1>2. /\ facts.levels \in Nat /\ facts.values \in Nat /\ facts.key \in Nat
      /\ facts.string \in Nat /\ facts.items \in Nat /\ facts.members \in Nat
      /\ facts.repeated \in BOOLEAN
  BY <1>1 DEF Facts
<1>3. /\ Greater(facts.levels, Depth + 1) \in Nat
      /\ Greater(facts.key, KeySize(k)) \in Nat
      /\ Greater(facts.string, v.size) \in Nat
      /\ Greater(facts.items, v.size) \in Nat
      /\ Greater(facts.members, v.size) \in Nat
  BY <1>1, <1>2 DEF Greater, Depth
<1>4. facts.repeated \/ (InObject /\ k \in Top.keys) \in BOOLEAN
  BY <1>2
<1> QED
  BY <1>2, <1>3 DEF Added, Facts

LEMMA TypesVisited ==
  ASSUME TypeOK, FramesOK, NEW v \in Value, NEW k \in Keys, Visit(v, k)
  PROVE  TypeOK' /\ FramesOK'
<1>1. stack' \in Seq(Frame) /\ FramesOK'
  BY VisitedFrames
<1>2. bytes' \in Nat
  BY TextTaken
<1>3. facts' \in Facts
  BY AddedTypes DEF Visit
<1>4. full' \in [refused : BOOLEAN, nodes : Nat]
  <2>1. full \in [refused : BOOLEAN, nodes : Nat]
    BY DEF TypeOK
  <2>2. ((InObject /\ KeyRefused(Top, k)) \/ ValueRefused(v)) \in BOOLEAN
    BY DEF KeyRefused, ValueRefused
  <2>3. full.nodes + (IF options.enforce THEN 1 ELSE 0) \in Nat
    BY <2>1
  <2> QED
    BY <2>1, <2>2, <2>3 DEF Visit
<1>5. scan' \in [keys : BOOLEAN, depth : BOOLEAN]
  <2> DEFINE seen == scan.keys \/ (InObject /\ ScanKeyRefused(Top, k))
             deep == scan.depth \/ ScanValueRefused
  <2>1. scan \in [keys : BOOLEAN, depth : BOOLEAN]
    BY DEF TypeOK
  <2>2. seen \in BOOLEAN /\ deep \in BOOLEAN
    BY <2>1
  <2>3. scan' = [scan EXCEPT !.keys = seen, !.depth = deep]
    BY DEF Visit
  <2> HIDE DEF seen, deep
  <2> QED
    BY <2>1, <2>2, <2>3
<1>6. started' \in BOOLEAN /\ done' \in BOOLEAN /\ options' \in Options
  BY DEF Visit, TypeOK
<1>7. FramesOK' => \A i \in 1 .. Len(stack') : /\ Len(stack'[i].inline) <= InlineCapacity
                                               /\ Len(stack'[i].scanInline) <= InlineCapacity
                                               /\ stack'[i].left <= stack'[i].value.size
  BY DEF FramesOK, FrameOK
<1> QED
  BY <1>1, <1>2, <1>3, <1>4, <1>5, <1>6, <1>7 DEF TypeOK

LEMMA TypesClosed ==
  ASSUME TypeOK, FramesOK, Close
  PROVE  TypeOK' /\ FramesOK'
<1>1. stack' \in Seq(Frame) /\ FramesOK'
  BY ClosedFrames
<1>2. full' \in [refused : BOOLEAN, nodes : Nat]
  BY DEF Close, TypeOK
<1>3. scan' \in [keys : BOOLEAN, depth : BOOLEAN]
  BY DEF Close, TypeOK
<1>4. FramesOK' => \A i \in 1 .. Len(stack') : /\ Len(stack'[i].inline) <= InlineCapacity
                                               /\ Len(stack'[i].scanInline) <= InlineCapacity
                                               /\ stack'[i].left <= stack'[i].value.size
  BY DEF FramesOK, FrameOK
<1> QED
  BY <1>1, <1>2, <1>3, <1>4 DEF Close, TypeOK

LEMMA TypesKept == TypeOK /\ FramesOK /\ [Next]_vars => TypeOK' /\ FramesOK'
<1> SUFFICES ASSUME TypeOK, FramesOK, [Next]_vars
             PROVE  TypeOK' /\ FramesOK'
  OBVIOUS
<1>1. ASSUME NEW v \in Value, NEW k \in Keys, Visit(v, k)
      PROVE  TypeOK' /\ FramesOK'
  BY <1>1, TypesVisited
<1>2. CASE Close
  BY <1>2, TypesClosed
<1>3. ASSUME NEW spaces \in {0, 1}, End(spaces)
      PROVE  TypeOK' /\ FramesOK'
  BY <1>3 DEF End, TypeOK, FramesOK
<1>4. CASE UNCHANGED vars
  BY <1>4 DEF vars, TypeOK, FramesOK
<1> QED
  BY <1>1, <1>2, <1>3, <1>4 DEF Next

LEMMA InitialBounds == Init => Bounds
<1> SUFFICES ASSUME Init PROVE Bounds
  OBVIOUS
<1>1. /\ facts.levels = 0 /\ facts.values = 0 /\ facts.string = 0 /\ facts.key = 0
      /\ facts.items = 0 /\ facts.members = 0 /\ bytes = 0 /\ Len(stack) = 0
  BY DEF Init
<1> QED
  BY <1>1 DEF Bounds, TextBounds

\* One value more is one level more at most, and its text bounds it.
LEMMA BoundsVisited ==
  ASSUME TypeOK, FramesOK, Bounds, NEW v \in Value, NEW k \in Keys, Visit(v, k)
  PROVE  Bounds'
<1>1. /\ facts.levels \in Nat /\ facts.values \in Nat /\ facts.key \in Nat
      /\ facts.string \in Nat /\ facts.items \in Nat /\ facts.members \in Nat
      /\ bytes \in Nat /\ v.size \in Nat /\ KeySize(k) \in Nat /\ Len(stack) \in Nat
  BY ValueFields, LimitsAssumption DEF TypeOK, Facts
<1>2. /\ facts.levels <= facts.values /\ Len(stack) <= facts.values
      /\ facts.values <= bytes /\ facts.string <= bytes /\ facts.key <= bytes
      /\ facts.items <= bytes /\ facts.members <= bytes
  BY DEF Bounds, TextBounds
<1>3. /\ bytes' \in Nat /\ bytes + 1 <= bytes' /\ v.size <= bytes'
      /\ InObject => KeySize(k) <= bytes'
  BY TextTaken
<1>4. facts' = Added(v, k)
  BY DEF Visit
<1>5. /\ facts'.levels = Greater(facts.levels, Len(stack) + 1)
      /\ facts'.values = facts.values + 1
      /\ facts'.key = IF InObject THEN Greater(facts.key, KeySize(k)) ELSE facts.key
      /\ facts'.string = IF v.kind = "string" THEN Greater(facts.string, v.size) ELSE facts.string
      /\ facts'.items = IF v.kind = "array" THEN Greater(facts.items, v.size) ELSE facts.items
      /\ facts'.members = IF v.kind = "object" THEN Greater(facts.members, v.size) ELSE facts.members
  BY <1>4 DEF Added, Depth
<1>6. facts'.levels <= facts'.values /\ facts'.values <= bytes'
  BY <1>1, <1>2, <1>3, <1>5 DEF Greater
<1>7. facts'.key <= bytes' /\ facts'.string <= bytes'
  BY <1>1, <1>2, <1>3, <1>5 DEF Greater
<1>8. facts'.items <= bytes' /\ facts'.members <= bytes'
  BY <1>1, <1>2, <1>3, <1>5 DEF Greater
<1>9. Len(stack') <= facts'.values
  <2>1. Len(stack') <= Len(stack) + 1 /\ stack' \in Seq(Frame)
    BY VisitedFrames
  <2>2. Len(stack') \in Nat
    BY <2>1
  <2> QED
    BY <1>1, <1>2, <1>5, <2>1, <2>2
<1> QED
  BY <1>6, <1>7, <1>8, <1>9 DEF Bounds, TextBounds

LEMMA BoundsKept ==
  TypeOK /\ FramesOK /\ Bounds /\ [Next]_vars => Bounds'
<1> SUFFICES ASSUME TypeOK, FramesOK, Bounds, [Next]_vars
             PROVE  Bounds'
  OBVIOUS
<1>1. ASSUME NEW v \in Value, NEW k \in Keys, Visit(v, k)
      PROVE  Bounds'
  BY <1>1, BoundsVisited
<1>2. CASE Close
  <2>1. Len(stack') <= Len(stack) /\ stack' \in Seq(Frame) /\ stack \in Seq(Frame)
    BY <1>2, ClosedFrames DEF TypeOK
  <2>2. Len(stack') \in Nat /\ Len(stack) \in Nat /\ facts.values \in Nat
    BY <2>1 DEF TypeOK, Facts
  <2>3. facts' = facts /\ bytes' = bytes
    BY <1>2 DEF Close
  <2> QED
    BY <2>1, <2>2, <2>3 DEF Bounds, TextBounds
<1>3. ASSUME NEW spaces \in {0, 1}, End(spaces)
      PROVE  Bounds'
  <2>1. facts' = facts /\ stack' = stack /\ bytes' = bytes + spaces
    BY <1>3 DEF End
  <2>2. /\ bytes \in Nat /\ facts.values \in Nat /\ facts.string \in Nat /\ facts.key \in Nat
        /\ facts.items \in Nat /\ facts.members \in Nat
    BY DEF TypeOK, Facts
  <2>3. \A n \in {facts.values, facts.string, facts.key, facts.items, facts.members} :
          n \in Nat /\ n <= bytes
    BY <2>2 DEF Bounds, TextBounds
  <2>4. \A n \in {facts.values, facts.string, facts.key, facts.items, facts.members} :
          n <= bytes + spaces
    BY <2>2, <2>3
  <2> QED
    BY <2>1, <2>4 DEF Bounds, TextBounds
<1>4. CASE UNCHANGED vars
  BY <1>4 DEF vars, Bounds, TextBounds
<1> QED
  BY <1>1, <1>2, <1>3, <1>4 DEF Next

LEMMA BoundedWithinLimits == TypeOK /\ Bounds => UnwalkedWithinLimits
<1> SUFFICES ASSUME TypeOK, Bounds, done, options.enforce, LimitsImplied
             PROVE  /\ facts.values <= options.maxNodes /\ facts.string <= options.maxString
                    /\ facts.key <= options.maxKey /\ facts.items <= options.maxItems
                    /\ facts.members <= options.maxMembers
                    /\ ~ CheckDepth => facts.levels <= options.maxDepth
  BY DEF UnwalkedWithinLimits
<1>1. /\ facts.levels \in Nat /\ facts.values \in Nat /\ facts.key \in Nat
      /\ facts.string \in Nat /\ facts.items \in Nat /\ facts.members \in Nat /\ bytes \in Nat
  BY DEF TypeOK, Facts
<1>2. options \in Option
  BY LimitsAssumption DEF TypeOK
<1>3. /\ options.maxNodes \in Nat /\ options.maxDepth \in Nat /\ options.maxString \in Nat
      /\ options.maxKey \in Nat /\ options.maxItems \in Nat /\ options.maxMembers \in Nat
  BY <1>2 DEF Option
<1>4. /\ bytes <= options.maxNodes /\ bytes <= options.maxString /\ bytes <= options.maxKey
      /\ bytes <= options.maxItems /\ bytes <= options.maxMembers
  BY DEF LimitsImplied
<1>5. /\ facts.levels <= facts.values
      /\ facts.values <= bytes /\ facts.string <= bytes /\ facts.key <= bytes
      /\ facts.items <= bytes /\ facts.members <= bytes
  BY DEF Bounds, TextBounds
<1>6. ~ CheckDepth => bytes <= options.maxDepth
  BY <1>1, <1>3 DEF CheckDepth
<1> QED
  BY <1>1, <1>3, <1>4, <1>5, <1>6

-----------------------------------------------------------------------------
\* Every field has its type in every reachable state, and neither walk ever keeps
\* more keys on its stack than fit there (json.hpp:1115, 1774).
THEOREM Typing == Spec => []TypeOK
<1>1. Init => TypeOK /\ FramesOK
  BY InitialTypes
<1>2. TypeOK /\ FramesOK /\ [Next]_vars => (TypeOK /\ FramesOK)'
  BY TypesKept
<1> QED
  BY <1>1, <1>2, PTL DEF Spec

\* The text is always as long as anything in it that a limit bounds.
THEOREM TextBounding == Spec => []TextBounds
<1>1. Init => TypeOK /\ FramesOK /\ Bounds
  BY InitialTypes, InitialBounds
<1>2. TypeOK /\ FramesOK /\ Bounds /\ [Next]_vars => (TypeOK /\ FramesOK /\ Bounds)'
  BY TypesKept, BoundsKept
<1>3. TypeOK /\ FramesOK /\ Bounds => TextBounds
  BY DEF Bounds
<1> QED
  BY <1>1, <1>2, <1>3, PTL DEF Spec

\* What deserialize() does not walk exceeds none of the limits (json.hpp:1738,
\* 2000): looking at the length of the text is enough.
THEOREM Unwalked == Spec => []UnwalkedWithinLimits
<1>1. Init => TypeOK /\ FramesOK /\ Bounds
  BY InitialTypes, InitialBounds
<1>2. TypeOK /\ FramesOK /\ Bounds /\ [Next]_vars => (TypeOK /\ FramesOK /\ Bounds)'
  BY TypesKept, BoundsKept
<1>3. TypeOK /\ FramesOK /\ Bounds => UnwalkedWithinLimits
  BY BoundedWithinLimits
<1> QED
  BY <1>1, <1>2, <1>3, PTL DEF Spec

-----------------------------------------------------------------------------
(* The two walks, as they go on.                                           *)

\* The keys the scan has kept of an object.
ScanKept(f) == IF OnHeap(f) THEN f.scanHeap ELSE f.scanInline

\* Each walk has kept every key of an open object, and what it would find
\* repeated among them is.
SeenOK(f, reject, repeated) ==
  /\ FitsInline(f) => Elements(f.inline) = f.keys /\ f.heap = <<>>
  /\ ~ FitsInline(f) /\ reject => Elements(f.heap) = f.keys
  /\ reject => Elements(ScanKept(f)) = f.keys
  /\ ~ reject => f.heap = <<>> /\ f.scanHeap = <<>>
  /\ Repeats(f.heap) \/ Repeats(f.scanInline) \/ Repeats(f.scanHeap) => repeated

Seen == \A i \in 1 .. Len(stack) : SeenOK(stack[i], options.reject, facts.repeated)

\* What remains to be found when the objects close.
HeapPending == \E i \in 1 .. Len(stack) : Repeats(stack[i].heap)
ScanPending == \E i \in 1 .. Len(stack) : Repeats(stack[i].scanHeap)

Repeated == options.reject /\ facts.repeated

\* The walk of json::parse has refused what it should, but for what is pending.
FullSound == full.refused => ~ WithinLimits \/ Repeated
FullLimits == ~ WithinLimits => full.refused
FullKeys == Repeated => full.refused \/ HeapPending
FullCount == ~ full.refused /\ options.enforce => full.nodes = facts.values

\* And so has the scan of deserialize().
ScanDepth == scan.depth <=> options.enforce /\ facts.levels > options.maxDepth
ScanSound == scan.keys => facts.repeated
ScanKeys == Repeated => scan.keys \/ ScanPending

Closed == done => stack = <<>>

Walks == /\ Seen /\ Closed
         /\ FullSound /\ FullLimits /\ FullKeys /\ FullCount
         /\ ScanDepth /\ ScanSound /\ ScanKeys

Fresh(f) == /\ f.keys = {} /\ f.inline = <<>> /\ f.heap = <<>>
            /\ f.scanInline = <<>> /\ f.scanHeap = <<>>

-----------------------------------------------------------------------------
(* Sequences of keys.                                                      *)

LEMMA Nothing == Elements(<<>>) = {} /\ ~ Repeats(<<>>)
  BY DEF Elements, Repeats

LEMMA OneMore ==
  ASSUME NEW S, NEW s \in Seq(S), NEW k \in S
  PROVE  /\ Append(s, k) \in Seq(S) /\ Append(s, k) # <<>>
         /\ Elements(Append(s, k)) = Elements(s) \cup {k}
         /\ Repeats(Append(s, k)) <=> Repeats(s) \/ k \in Elements(s)
<1> DEFINE n == Len(s)
           t == Append(s, k)
<1>1. /\ n \in Nat /\ t \in Seq(S) /\ Len(t) = n + 1
      /\ t[n + 1] = k /\ \A i \in 1 .. n : t[i] = s[i]
  BY DEF n, t
<1>2. t # <<>>
  BY <1>1
<1> HIDE DEF t, n
<1>3. Elements(t) = {t[i] : i \in 1 .. n + 1}
  BY <1>1 DEF Elements
<1>4. Elements(s) = {s[i] : i \in 1 .. n}
  BY DEF Elements, n
<1>5. Elements(t) = Elements(s) \cup {k}
  <2>1. ASSUME NEW x \in Elements(t) PROVE x \in Elements(s) \cup {k}
    <3>1. PICK i \in 1 .. n + 1 : x = t[i]
      BY <1>3
    <3>2. i \in 1 .. n \/ i = n + 1
      BY <1>1
    <3> QED
      BY <1>1, <1>4, <3>1, <3>2
  <2>2. ASSUME NEW x \in Elements(s) PROVE x \in Elements(t)
    <3>1. PICK i \in 1 .. n : x = s[i]
      BY <1>4
    <3>2. i \in 1 .. n + 1
      BY <1>1
    <3> QED
      BY <1>1, <1>3, <3>1, <3>2
  <2>3. n + 1 \in 1 .. n + 1
    BY <1>1
  <2>4. k \in Elements(t)
    BY <1>1, <1>3, <2>3
  <2> QED
    BY <2>1, <2>2, <2>4
<1>6. Repeats(s) => Repeats(t)
  <2> SUFFICES ASSUME Repeats(s) PROVE Repeats(t)
    OBVIOUS
  <2>1. PICK i, j \in 1 .. n : i < j /\ s[i] = s[j]
    BY DEF Repeats, n
  <2>2. i \in 1 .. n + 1 /\ j \in 1 .. n + 1 /\ t[i] = t[j]
    BY <1>1, <2>1
  <2> QED
    BY <1>1, <2>1, <2>2 DEF Repeats
<1>7. k \in Elements(s) => Repeats(t)
  <2> SUFFICES ASSUME k \in Elements(s) PROVE Repeats(t)
    OBVIOUS
  <2>1. PICK i \in 1 .. n : k = s[i]
    BY <1>4
  <2>2. i \in 1 .. n + 1 /\ n + 1 \in 1 .. n + 1 /\ i < n + 1 /\ t[i] = t[n + 1]
    BY <1>1, <2>1
  <2> QED
    BY <1>1, <2>2 DEF Repeats
<1>8. Repeats(t) => Repeats(s) \/ k \in Elements(s)
  <2> SUFFICES ASSUME Repeats(t) PROVE Repeats(s) \/ k \in Elements(s)
    OBVIOUS
  <2>1. PICK i, j \in 1 .. n + 1 : i < j /\ t[i] = t[j]
    BY <1>1 DEF Repeats
  <2>2. i \in 1 .. n
    BY <1>1, <2>1
  <2>3. CASE j \in 1 .. n
    BY <1>1, <2>1, <2>2, <2>3 DEF Repeats, n
  <2>4. CASE j = n + 1
    <3>1. k = s[i]
      BY <1>1, <2>1, <2>2, <2>4
    <3> QED
      BY <1>4, <2>2, <3>1
  <2> QED
    BY <1>1, <2>1, <2>3, <2>4
<1> QED
  BY <1>1, <1>2, <1>5, <1>6, <1>7, <1>8 DEF t

-----------------------------------------------------------------------------
(* What one step does to the open containers.                              *)

\* A child of an object leaves its key with both walks.
LEMMA EnteredObject ==
  ASSUME NEW k \in Keys, NEW f \in Frame, f = Top, InObject
  PROVE  LET e == Entered(k)
         IN /\ e.value = f.value
            /\ e.keys = f.keys \cup {k}
            /\ e.inline = IF FitsInline(f) /\ k \notin Elements(f.inline)
                            THEN Append(f.inline, k) ELSE f.inline
            /\ e.heap = IF ~ FitsInline(f) /\ options.reject
                          THEN Append(f.heap, k) ELSE f.heap
            /\ e.scanInline = IF /\ options.reject /\ ~ OnHeap(f)
                                 /\ Len(f.scanInline) < InlineCapacity
                                THEN Append(f.scanInline, k) ELSE f.scanInline
            /\ e.scanHeap = IF ~ options.reject THEN f.scanHeap
                            ELSE IF OnHeap(f) THEN Append(f.scanHeap, k)
                            ELSE IF Len(f.scanInline) < InlineCapacity THEN f.scanHeap
                            ELSE Append(f.scanInline, k)
<1> DEFINE d == [f EXCEPT !.left = @ - 1]
           g == [d EXCEPT !.keys = @ \cup {k}]
           h == Observed(g, k)
           e == ScanObserved(h, k)
<1>1. /\ d \in [value : Container, left : {f.left - 1}, keys : SUBSET Keys,
                inline : Seq(Keys), heap : Seq(Keys), scanInline : Seq(Keys), scanHeap : Seq(Keys)]
      /\ d.value = f.value /\ d.keys = f.keys /\ d.inline = f.inline /\ d.heap = f.heap
      /\ d.scanInline = f.scanInline /\ d.scanHeap = f.scanHeap
  BY DEF Frame
<1> HIDE DEF d
<1>2. f.keys \cup {k} \in SUBSET Keys
  BY FrameFields
<1>3. /\ g \in [value : Container, left : {f.left - 1}, keys : SUBSET Keys,
                inline : Seq(Keys), heap : Seq(Keys), scanInline : Seq(Keys), scanHeap : Seq(Keys)]
      /\ g.value = f.value /\ g.keys = f.keys \cup {k} /\ g.inline = f.inline /\ g.heap = f.heap
      /\ g.scanInline = f.scanInline /\ g.scanHeap = f.scanHeap
  BY <1>1, <1>2
<1> HIDE DEF g
<1>4. FitsInline(g) <=> FitsInline(f)
  BY <1>3 DEF FitsInline
<1>5. /\ h.value = f.value /\ h.keys = f.keys \cup {k}
      /\ h.scanInline = f.scanInline /\ h.scanHeap = f.scanHeap
      /\ h.inline = IF FitsInline(f) /\ k \notin Elements(f.inline)
                      THEN Append(f.inline, k) ELSE f.inline
      /\ h.heap = IF ~ FitsInline(f) /\ options.reject THEN Append(f.heap, k) ELSE f.heap
      /\ h \in [value : {h.value}, left : {h.left}, keys : {h.keys},
                inline : {h.inline}, heap : {h.heap},
                scanInline : {h.scanInline}, scanHeap : {h.scanHeap}]
  <2>1. CASE FitsInline(f) /\ k \in Elements(f.inline)
    <3>1. h = g
      BY <1>3, <1>4, <2>1 DEF Observed
    <3> QED
      BY <1>3, <2>1, <3>1
  <2>2. CASE FitsInline(f) /\ k \notin Elements(f.inline)
    <3>1. h = [g EXCEPT !.inline = Append(g.inline, k)]
      BY <1>3, <1>4, <2>2 DEF Observed
    <3> HIDE DEF h
    <3> QED
      BY <1>3, <2>2, <3>1
  <2>3. CASE ~ FitsInline(f) /\ options.reject
    <3>1. h = [g EXCEPT !.heap = Append(g.heap, k)]
      BY <1>3, <1>4, <2>3 DEF Observed
    <3> HIDE DEF h
    <3> QED
      BY <1>3, <2>3, <3>1
  <2>4. CASE ~ FitsInline(f) /\ ~ options.reject
    <3>1. h = g
      BY <1>3, <1>4, <2>4 DEF Observed
    <3> QED
      BY <1>3, <2>4, <3>1
  <2> QED
    BY <2>1, <2>2, <2>3, <2>4
<1> HIDE DEF h
<1>6. OnHeap(h) <=> OnHeap(f)
  BY <1>5 DEF OnHeap
<1>7. /\ e.value = h.value /\ e.keys = h.keys /\ e.inline = h.inline /\ e.heap = h.heap
      /\ e.scanInline = IF /\ options.reject /\ ~ OnHeap(f)
                           /\ Len(f.scanInline) < InlineCapacity
                          THEN Append(f.scanInline, k) ELSE f.scanInline
      /\ e.scanHeap = IF ~ options.reject THEN f.scanHeap
                      ELSE IF OnHeap(f) THEN Append(f.scanHeap, k)
                      ELSE IF Len(f.scanInline) < InlineCapacity THEN f.scanHeap
                      ELSE Append(f.scanInline, k)
  <2>1. CASE ~ options.reject
    <3>1. e = h
      BY <2>1 DEF ScanObserved
    <3> QED
      BY <1>5, <2>1, <3>1
  <2>2. CASE options.reject /\ OnHeap(f)
    <3>1. e = [h EXCEPT !.scanHeap = Append(h.scanHeap, k)]
      BY <1>6, <2>2 DEF ScanObserved
    <3> HIDE DEF e
    <3> QED
      BY <1>5, <2>2, <3>1
  <2>3. CASE options.reject /\ ~ OnHeap(f) /\ Len(f.scanInline) < InlineCapacity
    <3>1. e = [h EXCEPT !.scanInline = Append(h.scanInline, k)]
      BY <1>5, <1>6, <2>3 DEF ScanObserved
    <3> HIDE DEF e
    <3> QED
      BY <1>5, <2>3, <3>1
  <2>4. CASE options.reject /\ ~ OnHeap(f) /\ ~ (Len(f.scanInline) < InlineCapacity)
    <3>1. e = [h EXCEPT !.scanHeap = Append(h.scanInline, k)]
      BY <1>5, <1>6, <2>4 DEF ScanObserved, Spilled
    <3> HIDE DEF e
    <3> QED
      BY <1>5, <2>4, <3>1
  <2> QED
    BY <2>1, <2>2, <2>3, <2>4
<1> HIDE DEF e
<1>8. Entered(k) = e
  BY DEF Entered, d, g, h, e
<1> QED
  BY <1>5, <1>7, <1>8

\* An element of an array leaves nothing.
LEMMA EnteredArray ==
  ASSUME NEW k \in Keys, NEW f \in Frame, f = Top, ~ InObject
  PROVE  LET e == Entered(k)
         IN /\ e.value = f.value /\ e.keys = f.keys /\ e.inline = f.inline /\ e.heap = f.heap
            /\ e.scanInline = f.scanInline /\ e.scanHeap = f.scanHeap
<1>1. Entered(k) = [f EXCEPT !.left = f.left - 1]
  BY DEF Entered
<1> QED
  BY <1>1 DEF Frame

\* What the walks have kept of an open container stays what it should be.
LEMMA SeenEntered ==
  ASSUME NEW k \in Keys, NEW f \in Frame, f = Top,
         SeenOK(f, options.reject, facts.repeated)
  PROVE  LET e == Entered(k)
             again == InObject /\ k \in f.keys
         IN /\ SeenOK(e, options.reject, facts.repeated \/ again)
            /\ Repeats(f.heap) => Repeats(e.heap)
            /\ Repeats(f.scanHeap) => Repeats(e.scanHeap)
            /\ again /\ options.reject => FitsInline(f) \/ Repeats(e.heap)
            /\ again /\ options.reject => ScanKeyRefused(f, k) \/ Repeats(e.scanHeap)
<1> DEFINE e == Entered(k)
           again == InObject /\ k \in f.keys
<1>1. /\ FitsInline(f) => Elements(f.inline) = f.keys /\ f.heap = <<>>
      /\ ~ FitsInline(f) /\ options.reject => Elements(f.heap) = f.keys
      /\ options.reject /\ OnHeap(f) => Elements(f.scanHeap) = f.keys
      /\ options.reject /\ ~ OnHeap(f) => Elements(f.scanInline) = f.keys
      /\ ~ options.reject => f.heap = <<>> /\ f.scanHeap = <<>>
      /\ Repeats(f.heap) \/ Repeats(f.scanInline) \/ Repeats(f.scanHeap) => facts.repeated
  BY DEF SeenOK, ScanKept
<1>2. /\ f.inline \in Seq(Keys) /\ f.heap \in Seq(Keys)
      /\ f.scanInline \in Seq(Keys) /\ f.scanHeap \in Seq(Keys)
  BY FrameFields
<1>3. CASE ~ InObject
  <2>1. /\ e.value = f.value /\ e.keys = f.keys /\ e.inline = f.inline /\ e.heap = f.heap
        /\ e.scanInline = f.scanInline /\ e.scanHeap = f.scanHeap
    BY <1>3, EnteredArray
  <2> HIDE DEF e
  <2>2. (FitsInline(e) <=> FitsInline(f)) /\ (OnHeap(e) <=> OnHeap(f))
    BY <2>1 DEF FitsInline, OnHeap
  <2>3. SeenOK(e, options.reject, facts.repeated \/ again)
    BY <1>1, <2>1, <2>2 DEF SeenOK, ScanKept
  <2> QED
    BY <1>3, <2>1, <2>3 DEF e
<1>4. CASE InObject
  <2>1. /\ e.value = f.value /\ e.keys = f.keys \cup {k}
        /\ e.inline = IF FitsInline(f) /\ k \notin Elements(f.inline)
                        THEN Append(f.inline, k) ELSE f.inline
        /\ e.heap = IF ~ FitsInline(f) /\ options.reject THEN Append(f.heap, k) ELSE f.heap
        /\ e.scanInline = IF /\ options.reject /\ ~ OnHeap(f)
                             /\ Len(f.scanInline) < InlineCapacity
                            THEN Append(f.scanInline, k) ELSE f.scanInline
        /\ e.scanHeap = IF ~ options.reject THEN f.scanHeap
                        ELSE IF OnHeap(f) THEN Append(f.scanHeap, k)
                        ELSE IF Len(f.scanInline) < InlineCapacity THEN f.scanHeap
                        ELSE Append(f.scanInline, k)
    BY <1>4, EnteredObject
  <2> HIDE DEF e
  <2>2. FitsInline(e) <=> FitsInline(f)
    BY <2>1 DEF FitsInline
  <2>3. again <=> k \in f.keys
    BY <1>4
  <2> HIDE DEF again
  <2>4. /\ FitsInline(f) => Elements(e.inline) = e.keys /\ e.heap = <<>>
        /\ ~ options.reject => e.heap = <<>> /\ e.scanHeap = <<>>
    <3>1. /\ Append(f.inline, k) \in Seq(Keys)
          /\ Elements(Append(f.inline, k)) = Elements(f.inline) \cup {k}
      BY <1>2, OneMore
    <3> QED
      BY <1>1, <2>1, <3>1
  <2>5. ~ FitsInline(f) /\ options.reject =>
          /\ Elements(e.heap) = e.keys
          /\ Repeats(e.heap) <=> Repeats(f.heap) \/ again
    <3>1. /\ Elements(Append(f.heap, k)) = Elements(f.heap) \cup {k}
          /\ Repeats(Append(f.heap, k)) <=> Repeats(f.heap) \/ k \in Elements(f.heap)
      BY <1>2, OneMore
    <3> QED
      BY <1>1, <2>1, <2>3, <3>1
  <2>6. ~ (~ FitsInline(f) /\ options.reject) => e.heap = f.heap
    BY <2>1
  <2>7. CASE ~ options.reject
    <3>1. e.scanInline = f.scanInline /\ e.scanHeap = f.scanHeap
      BY <2>1, <2>7
    <3>2. SeenOK(e, options.reject, facts.repeated \/ again)
      BY <1>1, <2>2, <2>4, <2>6, <2>7, <3>1 DEF SeenOK
    <3> QED
      BY <2>6, <2>7, <3>1, <3>2 DEF e, again
  <2>8. CASE options.reject /\ OnHeap(f)
    <3>1. e.scanInline = f.scanInline /\ e.scanHeap = Append(f.scanHeap, k)
      BY <2>1, <2>8
    <3>2. /\ Append(f.scanHeap, k) # <<>>
          /\ Elements(Append(f.scanHeap, k)) = Elements(f.scanHeap) \cup {k}
          /\ Repeats(Append(f.scanHeap, k)) <=> Repeats(f.scanHeap) \/ k \in Elements(f.scanHeap)
      BY <1>2, OneMore
    <3>3. Elements(ScanKept(e)) = e.keys
      BY <1>1, <2>1, <2>8, <3>1, <3>2 DEF ScanKept, OnHeap
    <3>4. Repeats(e.scanHeap) <=> Repeats(f.scanHeap) \/ again
      BY <1>1, <2>3, <2>8, <3>1, <3>2
    <3>5. SeenOK(e, options.reject, facts.repeated \/ again)
      BY <1>1, <2>2, <2>4, <2>5, <2>6, <2>8, <3>1, <3>3, <3>4 DEF SeenOK
    <3> QED
      BY <2>5, <2>6, <3>4, <3>5 DEF e, again
  <2>9. CASE options.reject /\ ~ OnHeap(f)
    <3>1. /\ Append(f.scanInline, k) # <<>>
          /\ Elements(Append(f.scanInline, k)) = Elements(f.scanInline) \cup {k}
          /\ Repeats(Append(f.scanInline, k))
               <=> Repeats(f.scanInline) \/ k \in Elements(f.scanInline)
      BY <1>2, OneMore
    <3>2. again => ScanKeyRefused(f, k)
      BY <1>1, <2>3, <2>9 DEF ScanKeyRefused
    <3>3. f.scanHeap = <<>>
      BY <2>9 DEF OnHeap
    <3>4. \/ e.scanInline = Append(f.scanInline, k) /\ e.scanHeap = <<>>
          \/ e.scanInline = f.scanInline /\ e.scanHeap = Append(f.scanInline, k)
      BY <2>1, <2>9, <3>3
    <3>5. Elements(ScanKept(e)) = e.keys
      BY <1>1, <2>1, <2>9, <3>1, <3>4 DEF ScanKept, OnHeap
    <3>6. Repeats(e.scanInline) \/ Repeats(e.scanHeap) => facts.repeated \/ again
      BY <1>1, <2>3, <2>9, <3>1, <3>4, Nothing
    <3>7. SeenOK(e, options.reject, facts.repeated \/ again)
      BY <1>1, <2>2, <2>4, <2>5, <2>6, <2>9, <3>5, <3>6 DEF SeenOK
    <3>8. ~ Repeats(f.scanHeap)
      BY <3>3, Nothing
    <3> QED
      BY <2>5, <2>6, <3>2, <3>7, <3>8 DEF e, again
  <2> QED
    BY <2>7, <2>8, <2>9
<1> QED
  BY <1>3, <1>4

LEMMA OpenedFresh ==
  ASSUME NEW v \in Value
  PROVE  Opening(v) = <<>> \/ \E f \in Frame : Opening(v) = <<f>> /\ Fresh(f)
<1>1. CASE v \notin Container
  BY <1>1 DEF Opening
<1>2. CASE v \in Container
  <2> DEFINE f == [value |-> v, left |-> v.size, keys |-> {}, inline |-> <<>>, heap |-> <<>>,
                   scanInline |-> <<>>, scanHeap |-> <<>>]
  <2>1. f \in Frame
    BY <1>2, ValueFields DEF Frame
  <2>2. Fresh(f)
    BY DEF Fresh
  <2>3. Opening(v) = <<f>>
    BY <1>2 DEF Opening
  <2> QED
    BY <2>1, <2>2, <2>3
<1> QED
  BY <1>1, <1>2

LEMMA FreshSeen ==
  ASSUME NEW f, Fresh(f), NEW reject, NEW repeated
  PROVE  SeenOK(f, reject, repeated)
  BY Nothing DEF Fresh, SeenOK, ScanKept, OnHeap

\* A step changes the innermost container and may open one within it.
VisitedTo(k) ==
  \A i \in 1 .. Len(stack)' :
    /\ i < Len(stack) => stack'[i] = stack[i]
    /\ i = Len(stack) => stack'[i] = Entered(k)
    /\ i > Len(stack) => Fresh(stack'[i])

LEMMA VisitedStack ==
  ASSUME TypeOK, FramesOK, NEW v \in Value, NEW k \in Keys, Visit(v, k)
  PROVE  /\ Len(stack) \in Nat /\ Len(stack)' \in Nat /\ Len(stack) <= Len(stack)'
         /\ VisitedTo(k)
<1> DEFINE under == IF stack = <<>> THEN <<>> ELSE [stack EXCEPT ![Len(stack)] = Entered(k)]
<1>1. stack' = under \o Opening(v)
  BY DEF Visit
<1>2. stack \in Seq(Frame) /\ Len(stack) \in Nat
  BY DEF TypeOK
<1>3. /\ under \in Seq(Frame) /\ Len(under) = Len(stack)
      /\ \A i \in 1 .. Len(stack) : under[i] = IF i = Len(stack) THEN Entered(k) ELSE stack[i]
  <2>1. CASE stack = <<>>
    BY <2>1
  <2>2. CASE stack # <<>>
    <3>1. Top \in Frame /\ FrameOK(Top)
      BY <1>2, <2>2 DEF Top, FramesOK
    <3>2. Top.left > 0
      BY <2>2 DEF Visit, Expected
    <3>3. Entered(k) \in Frame
      BY <3>1, <3>2, ContainerEntered
    <3>4. under = [stack EXCEPT ![Len(stack)] = Entered(k)]
      BY <2>2
    <3> HIDE DEF under
    <3> QED
      BY <1>2, <2>2, <3>3, <3>4, Replaced
  <2> QED
    BY <2>1, <2>2
<1> HIDE DEF under
<1>4. CASE Opening(v) = <<>>
  <2>1. stack' = under
    BY <1>1, <1>3, <1>4
  <2> QED
    BY <1>2, <1>3, <2>1 DEF VisitedTo
<1>5. CASE \E f \in Frame : Opening(v) = <<f>> /\ Fresh(f)
  <2>1. PICK f \in Frame : Opening(v) = <<f>> /\ Fresh(f)
    BY <1>5
  <2>2. stack' = under \o <<f>>
    BY <1>1, <2>1
  <2>3. /\ Len(stack') = Len(under) + 1
        /\ \A i \in 1 .. Len(under) + 1 : stack'[i] = IF i = Len(under) + 1 THEN f ELSE under[i]
    BY <1>3, <2>2, Extended
  <2> QED
    BY <1>2, <1>3, <2>1, <2>3 DEF VisitedTo
<1> QED
  BY <1>4, <1>5, OpenedFresh

\* A key seen again is refused at once, or found when its object closes.
LEMMA PendingVisited ==
  ASSUME TypeOK, FramesOK, Seen, NEW v \in Value, NEW k \in Keys, Visit(v, k)
  PROVE  /\ Seen'
         /\ HeapPending => HeapPending'
         /\ ScanPending => ScanPending'
         /\ options.reject /\ InObject /\ k \in Top.keys =>
              /\ KeyRefused(Top, k) \/ HeapPending'
              /\ ScanKeyRefused(Top, k) \/ ScanPending'
<1> DEFINE n == Len(stack)
           again == InObject /\ k \in Top.keys
<1>1. /\ n \in Nat /\ Len(stack)' \in Nat /\ n <= Len(stack)' /\ VisitedTo(k)
      /\ stack \in Seq(Frame)
  BY VisitedStack DEF TypeOK
<1>2. /\ facts'.repeated = (facts.repeated \/ again) /\ options' = options
  BY DEF Visit, Added
<1>3. CASE stack = <<>>
  <2>1. n = 0 /\ ~ InObject
    BY <1>3 DEF InObject
  <2>2. ~ HeapPending /\ ~ ScanPending
    BY <2>1 DEF HeapPending, ScanPending
  <2>3. ASSUME NEW i \in 1 .. Len(stack)'
        PROVE  SeenOK(stack'[i], options'.reject, facts'.repeated)
    <3>1. Fresh(stack'[i])
      BY <1>1, <2>1 DEF VisitedTo
    <3> QED
      BY <3>1, FreshSeen
  <2>4. Seen'
    BY <2>3 DEF Seen
  <2> QED
    BY <2>1, <2>2, <2>4
<1>4. CASE stack # <<>>
  <2>1. n \in 1 .. n /\ n \in 1 .. Len(stack)' /\ Top = stack[n] /\ Top \in Frame
    BY <1>1, <1>4 DEF Top
  <2>2. PICK f \in Frame : f = Top
    BY <2>1
  <2>3. SeenOK(f, options.reject, facts.repeated)
    BY <2>1, <2>2 DEF Seen
  <2> DEFINE e == Entered(k)
  <2>4. /\ SeenOK(e, options.reject, facts.repeated \/ again)
        /\ Repeats(f.heap) => Repeats(e.heap)
        /\ Repeats(f.scanHeap) => Repeats(e.scanHeap)
        /\ again /\ options.reject => FitsInline(f) \/ Repeats(e.heap)
        /\ again /\ options.reject => ScanKeyRefused(f, k) \/ Repeats(e.scanHeap)
    BY <2>2, <2>3, SeenEntered
  <2> HIDE DEF e
  <2>5. stack'[n] = e /\ \A i \in 1 .. n - 1 : stack'[i] = stack[i] /\ i \in 1 .. Len(stack)'
    <3>1. \A i \in 1 .. n - 1 : i \in 1 .. Len(stack)' /\ i < n
      BY <1>1
    <3>2. \A i \in 1 .. n - 1 : stack'[i] = stack[i]
      BY <1>1, <3>1 DEF VisitedTo
    <3>3. stack'[n] = Entered(k)
      BY <1>1, <2>1 DEF VisitedTo
    <3> QED
      BY <3>1, <3>2, <3>3 DEF e
  <2>6. Seen'
    <3>1. ASSUME NEW i \in 1 .. Len(stack)'
          PROVE  SeenOK(stack'[i], options'.reject, facts'.repeated)
      <4>1. CASE i < n
        <5>1. i \in 1 .. n /\ stack'[i] = stack[i]
          BY <1>1, <4>1 DEF VisitedTo
        <5>2. SeenOK(stack[i], options.reject, facts.repeated)
          BY <5>1 DEF Seen
        <5> QED
          BY <1>2, <5>1, <5>2 DEF SeenOK
      <4>2. CASE i = n
        BY <1>2, <2>4, <2>5, <4>2
      <4>3. CASE i > n
        <5>1. Fresh(stack'[i])
          BY <1>1, <4>3 DEF VisitedTo
        <5> QED
          BY <5>1, FreshSeen
      <4> QED
        BY <1>1, <4>1, <4>2, <4>3
    <3> QED
      BY <3>1 DEF Seen
  <2>7. HeapPending => HeapPending'
    <3> SUFFICES ASSUME NEW i \in 1 .. n, Repeats(stack[i].heap)
                 PROVE  \E j \in 1 .. Len(stack)' : Repeats(stack'[j].heap)
      BY DEF HeapPending
    <3>1. CASE i = n
      BY <2>1, <2>2, <2>4, <2>5, <3>1
    <3>2. CASE i # n
      <4>1. i \in 1 .. n - 1
        BY <1>1, <3>2
      <4> QED
        BY <2>5, <4>1
    <3> QED
      BY <3>1, <3>2
  <2>8. ScanPending => ScanPending'
    <3> SUFFICES ASSUME NEW i \in 1 .. n, Repeats(stack[i].scanHeap)
                 PROVE  \E j \in 1 .. Len(stack)' : Repeats(stack'[j].scanHeap)
      BY DEF ScanPending
    <3>1. CASE i = n
      BY <2>1, <2>2, <2>4, <2>5, <3>1
    <3>2. CASE i # n
      <4>1. i \in 1 .. n - 1
        BY <1>1, <3>2
      <4> QED
        BY <2>5, <4>1
    <3> QED
      BY <3>1, <3>2
  <2>9. Repeats(e.heap) => HeapPending'
    BY <2>1, <2>5 DEF HeapPending
  <2>10. Repeats(e.scanHeap) => ScanPending'
    BY <2>1, <2>5 DEF ScanPending
  <2>11. FitsInline(f) /\ again /\ options.reject => KeyRefused(f, k)
    BY <2>2, <2>3 DEF SeenOK, KeyRefused
  <2> QED
    BY <2>2, <2>4, <2>6, <2>7, <2>8, <2>9, <2>10, <2>11
<1> QED
  BY <1>3, <1>4

\* What a closing object is found to repeat is no longer pending.
LEMMA PendingClosed ==
  ASSUME TypeOK, Seen, Close
  PROVE  /\ Seen'
         /\ HeapPending => Repeats(Top.heap) \/ HeapPending'
         /\ ScanPending => Repeats(Top.scanHeap) \/ ScanPending'
         /\ Repeats(Top.heap) \/ Repeats(Top.scanHeap) => Repeated
<1> DEFINE n == Len(stack)
<1>1. /\ stack \in Seq(Frame) /\ stack # <<>> /\ n \in Nat
      /\ stack' = SubSeq(stack, 1, n - 1) /\ facts' = facts /\ options' = options
  BY DEF TypeOK, Close
<1>2. Len(stack)' = n - 1 /\ \A i \in 1 .. n - 1 : stack'[i] = stack[i]
  BY <1>1, Shortened
<1>3. n \in 1 .. n /\ Top = stack[n] /\ \A i \in 1 .. n - 1 : i \in 1 .. n
  BY <1>1 DEF Top
<1>4. SeenOK(Top, options.reject, facts.repeated)
  BY <1>3 DEF Seen
<1>5. Repeats(Top.heap) \/ Repeats(Top.scanHeap) => Repeated
  BY <1>4, Nothing DEF SeenOK, Repeated
<1>6. Seen'
  BY <1>1, <1>2, <1>3 DEF Seen
<1>7. \A i \in 1 .. n : i = n \/ i \in 1 .. n - 1
  BY <1>1
<1>8. HeapPending => Repeats(Top.heap) \/ HeapPending'
  BY <1>2, <1>3, <1>7 DEF HeapPending
<1>9. ScanPending => Repeats(Top.scanHeap) \/ ScanPending'
  BY <1>2, <1>3, <1>7 DEF ScanPending
<1> QED
  BY <1>5, <1>6, <1>8, <1>9

\* The limits a step is refused for are those that the document then exceeds.
LEMMA LimitsVisited ==
  ASSUME TypeOK, FullCount, NEW v \in Value, NEW k \in Keys, Visit(v, k)
  PROVE  /\ ~ WithinLimits => ~ WithinLimits'
         /\ ~ full.refused /\ WithinLimits =>
              (~ WithinLimits' <=>
                 \/ ValueRefused(v)
                 \/ InObject /\ options.enforce /\ KeySize(k) > options.maxKey)
         /\ ScanDepth => ScanDepth'
<1>1. /\ facts.levels \in Nat /\ facts.values \in Nat /\ facts.key \in Nat
      /\ facts.string \in Nat /\ facts.items \in Nat /\ facts.members \in Nat
      /\ v.size \in Nat /\ KeySize(k) \in Nat /\ Len(stack) \in Nat
      /\ v.kind \in {"scalar", "string", "array", "object"}
  BY ValueFields, LimitsAssumption DEF TypeOK, Facts
<1>2. options \in Option
  BY LimitsAssumption DEF TypeOK
<1>3. /\ options.maxNodes \in Nat /\ options.maxDepth \in Nat /\ options.maxString \in Nat
      /\ options.maxKey \in Nat /\ options.maxItems \in Nat /\ options.maxMembers \in Nat
      /\ options.enforce \in BOOLEAN
  BY <1>2 DEF Option
<1>4. options' = options /\ facts' = Added(v, k)
  BY DEF Visit
<1>5. /\ facts'.levels = Greater(facts.levels, Len(stack) + 1)
      /\ facts'.values = facts.values + 1
      /\ facts'.key = IF InObject THEN Greater(facts.key, KeySize(k)) ELSE facts.key
      /\ facts'.string = IF v.kind = "string" THEN Greater(facts.string, v.size) ELSE facts.string
      /\ facts'.items = IF v.kind = "array" THEN Greater(facts.items, v.size) ELSE facts.items
      /\ facts'.members = IF v.kind = "object" THEN Greater(facts.members, v.size) ELSE facts.members
  BY <1>4 DEF Added, Depth
<1>7. facts'.levels <= options.maxDepth
        <=> facts.levels <= options.maxDepth /\ ~ (Len(stack) >= options.maxDepth)
  <2>0. facts.levels \in Nat /\ Len(stack) \in Nat /\ options.maxDepth \in Nat
    BY <1>1, <1>3
  <2>1. Greater(facts.levels, Len(stack) + 1) <= options.maxDepth
          <=> facts.levels <= options.maxDepth /\ ~ (Len(stack) >= options.maxDepth)
    BY <2>0 DEF Greater
  <2> QED
    BY <1>5, <2>1
<1>8. facts'.values <= options.maxNodes
        <=> facts.values <= options.maxNodes /\ ~ (facts.values >= options.maxNodes)
  <2>0. facts.values \in Nat /\ options.maxNodes \in Nat
    BY <1>1, <1>3
  <2>1. facts.values + 1 <= options.maxNodes
          <=> facts.values <= options.maxNodes /\ ~ (facts.values >= options.maxNodes)
    BY <2>0 DEF Greater
  <2> QED
    BY <1>5, <2>1
<1>9. facts'.key <= options.maxKey
        <=> facts.key <= options.maxKey /\ ~ (InObject /\ KeySize(k) > options.maxKey)
  <2>1. CASE InObject
    <3>0. facts.key \in Nat /\ KeySize(k) \in Nat /\ options.maxKey \in Nat
      BY <1>1, <1>3
    <3>1. Greater(facts.key, KeySize(k)) <= options.maxKey
            <=> facts.key <= options.maxKey /\ ~ (KeySize(k) > options.maxKey)
      BY <3>0 DEF Greater
    <3>2. facts'.key = Greater(facts.key, KeySize(k))
      BY <1>5, <2>1
    <3> QED
      BY <2>1, <3>1, <3>2
  <2>2. CASE ~ InObject
    BY <1>5, <2>2
  <2> QED
    BY <2>1, <2>2
<1>10. facts'.string <= options.maxString
         <=> facts.string <= options.maxString
             /\ ~ (v.kind = "string" /\ v.size > options.maxString)
  <2>1. CASE v.kind = "string"
    <3>0. facts.string \in Nat /\ v.size \in Nat /\ options.maxString \in Nat
      BY <1>1, <1>3
    <3>1. Greater(facts.string, v.size) <= options.maxString
            <=> facts.string <= options.maxString /\ ~ (v.size > options.maxString)
      BY <3>0 DEF Greater
    <3>2. facts'.string = Greater(facts.string, v.size)
      BY <1>5, <2>1
    <3> QED
      BY <2>1, <3>1, <3>2
  <2>2. CASE v.kind # "string"
    BY <1>5, <2>2
  <2> QED
    BY <2>1, <2>2
<1>11. facts'.items <= options.maxItems
         <=> facts.items <= options.maxItems
             /\ ~ (v.kind = "array" /\ v.size > options.maxItems)
  <2>1. CASE v.kind = "array"
    <3>0. facts.items \in Nat /\ v.size \in Nat /\ options.maxItems \in Nat
      BY <1>1, <1>3
    <3>1. Greater(facts.items, v.size) <= options.maxItems
            <=> facts.items <= options.maxItems /\ ~ (v.size > options.maxItems)
      BY <3>0 DEF Greater
    <3>2. facts'.items = Greater(facts.items, v.size)
      BY <1>5, <2>1
    <3> QED
      BY <2>1, <3>1, <3>2
  <2>2. CASE v.kind # "array"
    BY <1>5, <2>2
  <2> QED
    BY <2>1, <2>2
<1>12. facts'.members <= options.maxMembers
         <=> facts.members <= options.maxMembers
             /\ ~ (v.kind = "object" /\ v.size > options.maxMembers)
  <2>1. CASE v.kind = "object"
    <3>0. facts.members \in Nat /\ v.size \in Nat /\ options.maxMembers \in Nat
      BY <1>1, <1>3
    <3>1. Greater(facts.members, v.size) <= options.maxMembers
            <=> facts.members <= options.maxMembers /\ ~ (v.size > options.maxMembers)
      BY <3>0 DEF Greater
    <3>2. facts'.members = Greater(facts.members, v.size)
      BY <1>5, <2>1
    <3> QED
      BY <2>1, <3>1, <3>2
  <2>2. CASE v.kind # "object"
    BY <1>5, <2>2
  <2> QED
    BY <2>1, <2>2
<1>13. WithinLimits' <=>
         (options.enforce =>
            /\ facts'.levels <= options.maxDepth /\ facts'.values <= options.maxNodes
            /\ facts'.string <= options.maxString /\ facts'.key <= options.maxKey
            /\ facts'.items <= options.maxItems /\ facts'.members <= options.maxMembers)
  BY <1>4 DEF WithinLimits
<1>14. ~ WithinLimits => ~ WithinLimits'
  BY <1>7, <1>8, <1>9, <1>10, <1>11, <1>12, <1>13 DEF WithinLimits
<1>15. ASSUME ~ full.refused, WithinLimits
       PROVE  ~ WithinLimits' <=>
                \/ ValueRefused(v)
                \/ InObject /\ options.enforce /\ KeySize(k) > options.maxKey
  <2>1. CASE ~ options.enforce
    BY <1>13, <2>1 DEF ValueRefused
  <2>2. CASE options.enforce
    <3>1. full.nodes = facts.values
      BY <1>15, <2>2 DEF FullCount
    <3>2. ValueRefused(v) <=>
            \/ Len(stack) >= options.maxDepth
            \/ facts.values >= options.maxNodes
            \/ v.kind = "string" /\ v.size > options.maxString
            \/ v.kind = "array" /\ v.size > options.maxItems
            \/ v.kind = "object" /\ v.size > options.maxMembers
      BY <2>2, <3>1 DEF ValueRefused, Depth
    <3> QED
      BY <1>7, <1>8, <1>9, <1>10, <1>11, <1>12, <1>13, <1>15, <2>2, <3>2 DEF WithinLimits
  <2> QED
    BY <2>1, <2>2
<1>16. ScanDepth => ScanDepth'
  <2>1. scan'.depth <=> scan.depth \/ (options.enforce /\ Len(stack) >= options.maxDepth)
    BY DEF Visit, ScanValueRefused, Depth, TypeOK
  <2>3. Greater(facts.levels, Len(stack) + 1) \in Nat
    BY <1>1 DEF Greater
  <2>4. \A p, l \in Nat : p > l <=> ~ (p <= l)
    OBVIOUS
  <2>2. facts'.levels > options.maxDepth
          <=> facts.levels > options.maxDepth \/ Len(stack) >= options.maxDepth
    BY <1>1, <1>3, <1>5, <1>7, <2>3, <2>4
  <2> QED
    BY <1>4, <2>1, <2>2 DEF ScanDepth
<1> QED
  BY <1>14, <1>15, <1>16

-----------------------------------------------------------------------------
(* The walks.                                                              *)

LEMMA InitialWalks == Init => Walks
<1> SUFFICES ASSUME Init PROVE Walks
  OBVIOUS
<1>1. /\ stack = <<>> /\ facts.repeated = FALSE /\ ~ full.refused /\ full.nodes = 0
      /\ facts.values = 0 /\ ~ scan.keys /\ ~ scan.depth /\ facts.levels = 0
      /\ facts.string = 0 /\ facts.key = 0 /\ facts.items = 0 /\ facts.members = 0
      /\ options \in Option /\ ~ done
  BY LimitsAssumption DEF Init
<1>2. Seen
  BY <1>1 DEF Seen
<1>3. /\ 0 <= options.maxNodes /\ 0 <= options.maxDepth /\ 0 <= options.maxString
      /\ 0 <= options.maxKey /\ 0 <= options.maxItems /\ 0 <= options.maxMembers
      /\ ~ (0 > options.maxDepth)
  BY <1>1 DEF Option
<1>4. WithinLimits
  BY <1>1, <1>3 DEF WithinLimits
<1>5. ScanDepth
  BY <1>1, <1>3 DEF ScanDepth
<1> QED
  BY <1>1, <1>2, <1>4, <1>5 DEF Walks, Closed, FullSound, FullLimits, FullKeys, FullCount,
     ScanSound, ScanKeys, Repeated

LEMMA WalksVisited ==
  ASSUME TypeOK, FramesOK, Walks, NEW v \in Value, NEW k \in Keys, Visit(v, k)
  PROVE  Walks'
<1> DEFINE again == InObject /\ k \in Top.keys
           refusal == (InObject /\ KeyRefused(Top, k)) \/ ValueRefused(v)
<1>1. /\ Seen /\ FullSound /\ FullLimits /\ FullKeys /\ FullCount
      /\ ScanDepth /\ ScanSound /\ ScanKeys
  BY DEF Walks
<1>2. /\ Seen'
      /\ HeapPending => HeapPending'
      /\ ScanPending => ScanPending'
      /\ options.reject /\ again =>
           /\ KeyRefused(Top, k) \/ HeapPending'
           /\ ScanKeyRefused(Top, k) \/ ScanPending'
  BY <1>1, PendingVisited
<1>3. /\ ~ WithinLimits => ~ WithinLimits'
      /\ ~ full.refused /\ WithinLimits =>
           (~ WithinLimits' <=>
              \/ ValueRefused(v)
              \/ InObject /\ options.enforce /\ KeySize(k) > options.maxKey)
      /\ ScanDepth'
  BY <1>1, LimitsVisited
<1>4. options' = options /\ facts'.repeated = (facts.repeated \/ again)
  BY DEF Visit, Added
<1>5. Repeated' <=> Repeated \/ (options.reject /\ again)
  BY <1>4 DEF Repeated
<1>6. Closed'
  BY DEF Visit, Expected, Closed
<1>7. /\ full.refused => full' = full
      /\ ~ full.refused => /\ full'.refused = refusal
                           /\ full'.nodes = full.nodes + (IF options.enforce THEN 1 ELSE 0)
  BY DEF Visit
<1>8. scan'.keys <=> scan.keys \/ (InObject /\ ScanKeyRefused(Top, k))
  <2> DEFINE seen == scan.keys \/ (InObject /\ ScanKeyRefused(Top, k))
             deep == scan.depth \/ ScanValueRefused
  <2>1. scan \in [keys : BOOLEAN, depth : BOOLEAN]
    BY DEF TypeOK
  <2>2. scan' = [scan EXCEPT !.keys = seen, !.depth = deep]
    BY DEF Visit
  <2> HIDE DEF seen, deep
  <2>3. scan'.keys = seen
    BY <2>1, <2>2
  <2> QED
    BY <2>3 DEF seen
<1>9. InObject =>
        /\ KeyRefused(Top, k) =>
             \/ options.enforce /\ KeySize(k) > options.maxKey
             \/ options.reject /\ again
        /\ options.enforce /\ KeySize(k) > options.maxKey => KeyRefused(Top, k)
        /\ ScanKeyRefused(Top, k) => options.reject /\ again
  <2> SUFFICES ASSUME InObject
               PROVE  /\ KeyRefused(Top, k) =>
                           \/ options.enforce /\ KeySize(k) > options.maxKey
                           \/ options.reject /\ k \in Top.keys
                      /\ options.enforce /\ KeySize(k) > options.maxKey => KeyRefused(Top, k)
                      /\ ScanKeyRefused(Top, k) => options.reject /\ k \in Top.keys
    OBVIOUS
  <2>1. Top = stack[Len(stack)] /\ Len(stack) \in 1 .. Len(stack)
    BY DEF InObject, Top, TypeOK
  <2>2. SeenOK(Top, options.reject, facts.repeated)
    BY <1>1, <2>1 DEF Seen
  <2>3. /\ FitsInline(Top) => Elements(Top.inline) = Top.keys
        /\ options.reject /\ ~ OnHeap(Top) => Elements(Top.scanInline) = Top.keys
    BY <2>2 DEF SeenOK, ScanKept
  <2> QED
    BY <2>3 DEF KeyRefused, ScanKeyRefused
<1> HIDE DEF again
<1>10. FullLimits'
  <2>1. full.refused => full'.refused
    BY <1>7
  <2>2. ~ full.refused /\ ~ WithinLimits' => refusal
    BY <1>1, <1>3, <1>9 DEF FullLimits
  <2> QED
    BY <1>7, <2>1, <2>2 DEF FullLimits
<1>11. FullSound'
  <2>1. CASE full.refused
    BY <1>1, <1>3, <1>5, <2>1 DEF FullSound
  <2>2. CASE ~ full.refused
    <3>1. refusal => ~ WithinLimits' \/ Repeated'
      BY <1>1, <1>3, <1>5, <1>9, <2>2 DEF FullLimits
    <3> QED
      BY <1>7, <2>2, <3>1 DEF FullSound
  <2> QED
    BY <2>1, <2>2
<1>12. FullKeys'
  <2>1. full.refused => full'.refused
    BY <1>7
  <2>2. Repeated => full'.refused \/ HeapPending'
    BY <1>1, <1>2, <2>1 DEF FullKeys
  <2>3. options.reject /\ again => full'.refused \/ HeapPending'
    <3>1. again => InObject
      BY DEF again
    <3> QED
      BY <1>2, <1>7, <2>1, <3>1
  <2> QED
    BY <1>5, <2>2, <2>3 DEF FullKeys
<1>13. FullCount'
  <2> SUFFICES ASSUME ~ full'.refused, options.enforce PROVE full'.nodes = facts'.values
    BY <1>4 DEF FullCount
  <2>1. ~ full.refused
    BY <1>7
  <2>2. full'.nodes = full.nodes + 1 /\ full.nodes = facts.values
    BY <1>1, <1>7, <2>1 DEF FullCount
  <2>3. facts'.values = facts.values + 1
    BY DEF Visit, Added
  <2> QED
    BY <2>2, <2>3
<1>14. ScanSound'
  BY <1>1, <1>4, <1>8, <1>9 DEF ScanSound
<1>15. ScanKeys'
  <2>1. Repeated => scan'.keys \/ ScanPending'
    BY <1>1, <1>2, <1>8 DEF ScanKeys
  <2>2. again => InObject
    BY DEF again
  <2>3. options.reject /\ again => scan'.keys \/ ScanPending'
    BY <1>2, <1>8, <2>2
  <2> QED
    BY <1>5, <2>1, <2>3 DEF ScanKeys
<1> QED
  BY <1>2, <1>3, <1>6, <1>10, <1>11, <1>12, <1>13, <1>14, <1>15 DEF Walks

LEMMA WalksClosed ==
  ASSUME TypeOK, Walks, Close
  PROVE  Walks'
<1>1. /\ Seen /\ FullSound /\ FullLimits /\ FullKeys /\ FullCount
      /\ ScanDepth /\ ScanSound /\ ScanKeys /\ Closed
  BY DEF Walks
<1>2. /\ Seen'
      /\ HeapPending => Repeats(Top.heap) \/ HeapPending'
      /\ ScanPending => Repeats(Top.scanHeap) \/ ScanPending'
      /\ Repeats(Top.heap) \/ Repeats(Top.scanHeap) => Repeated
  BY <1>1, PendingClosed
<1>3. options' = options /\ facts' = facts /\ done' = done /\ stack # <<>>
  BY DEF Close
<1>4. /\ full'.refused <=> full.refused \/ Repeats(Top.heap)
      /\ full'.nodes = full.nodes
  <2> DEFINE refused == full.refused \/ Repeats(Top.heap)
  <2>1. full \in [refused : BOOLEAN, nodes : Nat] /\ full' = [full EXCEPT !.refused = refused]
    BY DEF TypeOK, Close
  <2> HIDE DEF refused
  <2>2. full'.refused = refused /\ full'.nodes = full.nodes
    BY <2>1
  <2> QED
    BY <2>2 DEF refused
<1>5. /\ scan'.keys <=> scan.keys \/ Repeats(Top.scanHeap)
      /\ scan'.depth = scan.depth
  <2> DEFINE seen == scan.keys \/ Repeats(Top.scanHeap)
  <2>1. scan \in [keys : BOOLEAN, depth : BOOLEAN] /\ scan' = [scan EXCEPT !.keys = seen]
    BY DEF TypeOK, Close
  <2> HIDE DEF seen
  <2>2. scan'.keys = seen /\ scan'.depth = scan.depth
    BY <2>1
  <2> QED
    BY <2>2 DEF seen
<1>6. (WithinLimits' <=> WithinLimits) /\ (Repeated' <=> Repeated)
  BY <1>3 DEF WithinLimits, Repeated
<1>7. FullSound' /\ FullLimits' /\ FullKeys'
  BY <1>1, <1>2, <1>4, <1>6 DEF FullSound, FullLimits, FullKeys
<1>8. FullCount'
  BY <1>1, <1>3, <1>4 DEF FullCount
<1>9. ScanDepth'
  BY <1>1, <1>3, <1>5 DEF ScanDepth
<1>10. ScanSound'
  BY <1>1, <1>2, <1>3, <1>5 DEF ScanSound, Repeated
<1>11. ScanKeys'
  BY <1>1, <1>2, <1>5, <1>6 DEF ScanKeys
<1>12. Closed'
  BY <1>1, <1>3 DEF Closed
<1> QED
  BY <1>2, <1>7, <1>8, <1>9, <1>10, <1>11, <1>12 DEF Walks

\* Every state is of the right types, and both walks have done their part.
Verdicts == TypeOK /\ FramesOK /\ Bounds /\ Walks

LEMMA VerdictsKept == Verdicts /\ [Next]_vars => Verdicts'
<1> SUFFICES ASSUME Verdicts, [Next]_vars
             PROVE  Verdicts'
  OBVIOUS
<1>1. TypeOK /\ FramesOK /\ Bounds /\ Walks
  BY DEF Verdicts
<1>2. TypeOK' /\ FramesOK' /\ Bounds'
  BY <1>1, TypesKept, BoundsKept
<1> SUFFICES Walks'
  BY <1>2 DEF Verdicts
<1>3. ASSUME NEW v \in Value, NEW k \in Keys, Visit(v, k)
      PROVE  Walks'
  BY <1>1, <1>3, WalksVisited
<1>4. CASE Close
  BY <1>1, <1>4, WalksClosed
<1>5. ASSUME UNCHANGED <<options, stack, full, scan, facts>>, done' => stack = <<>>
      PROVE  Walks'
  <2>1. (Seen' <=> Seen) /\ (WithinLimits' <=> WithinLimits) /\ (Repeated' <=> Repeated)
        /\ (HeapPending' <=> HeapPending) /\ (ScanPending' <=> ScanPending)
    BY <1>5 DEF Seen, WithinLimits, Repeated, HeapPending, ScanPending
  <2>2. Closed'
    BY <1>5 DEF Closed
  <2>3. FullSound' /\ FullLimits' /\ FullKeys' /\ FullCount'
    BY <1>1, <1>5, <2>1 DEF Walks, FullSound, FullLimits, FullKeys, FullCount
  <2>4. ScanDepth' /\ ScanSound' /\ ScanKeys'
    BY <1>1, <1>5, <2>1 DEF Walks, ScanDepth, ScanSound, ScanKeys
  <2> QED
    BY <1>1, <2>1, <2>2, <2>3, <2>4 DEF Walks
<1>6. ASSUME NEW spaces \in {0, 1}, End(spaces)
      PROVE  Walks'
  BY <1>5, <1>6 DEF End
<1>7. CASE UNCHANGED vars
  BY <1>1, <1>5, <1>7 DEF vars, Walks, Closed
<1> QED
  BY <1>3, <1>4, <1>6, <1>7 DEF Next

LEMMA VerdictsHold == Spec => []Verdicts
<1>1. Init => Verdicts
  BY InitialTypes, InitialBounds, InitialWalks DEF Verdicts
<1> QED
  BY <1>1, VerdictsKept, PTL DEF Spec

\* At the end nothing is pending.
LEMMA WalkVerdict ==
  ASSUME Walks, done
  PROVE  /\ full.refused <=> ~ WithinLimits \/ Repeated
         /\ scan.depth <=> options.enforce /\ facts.levels > options.maxDepth
         /\ options.reject => (scan.keys <=> facts.repeated)
<1>1. stack = <<>>
  BY DEF Walks, Closed
<1>2. ~ HeapPending /\ ~ ScanPending
  BY <1>1 DEF HeapPending, ScanPending
<1>3. full.refused <=> ~ WithinLimits \/ Repeated
  BY <1>2 DEF Walks, FullSound, FullLimits, FullKeys
<1>4. scan.depth <=> options.enforce /\ facts.levels > options.maxDepth
  BY DEF Walks, ScanDepth
<1>5. options.reject => (scan.keys <=> facts.repeated)
  BY <1>2 DEF Walks, ScanSound, ScanKeys, Repeated
<1> QED
  BY <1>3, <1>4, <1>5

LEMMA VerdictsAgree ==
  ASSUME Verdicts, done, NEW depth \in ParserDepths
  PROVE  /\ ParseAccepts => DeserializeAccepts(depth)
         /\ options.enforce /\ DeserializeAccepts(depth) => ParseAccepts
<1>1. TypeOK /\ Bounds /\ Walks
  BY DEF Verdicts
<1>2. /\ full.refused <=> ~ WithinLimits \/ Repeated
      /\ scan.depth <=> options.enforce /\ facts.levels > options.maxDepth
      /\ options.reject => (scan.keys <=> facts.repeated)
  BY <1>1, WalkVerdict
<1>3. options \in Option
  BY <1>1, LimitsAssumption DEF TypeOK
<1>4. facts.levels \in Nat /\ depth \in Nat /\ options.maxDepth \in Nat
  BY <1>1, <1>3, LimitsAssumption DEF TypeOK, Facts, Option
<1>5. facts.levels > options.maxDepth <=> ~ (facts.levels <= options.maxDepth)
  BY <1>4
<1>6. SimdjsonAccepts(options.maxDepth) => SimdjsonAccepts(Greater(depth, options.maxDepth))
  BY <1>4 DEF SimdjsonAccepts, Greater
<1>7. facts.levels <= options.maxDepth => SimdjsonAccepts(options.maxDepth)
  BY <1>4 DEF SimdjsonAccepts, Greater
<1>8. WithinLimits /\ options.enforce => facts.levels <= options.maxDepth
  BY DEF WithinLimits
<1>9. ASSUME ParseAccepts PROVE DeserializeAccepts(depth)
  <2>1. SimdjsonAccepts(Greater(depth, options.maxDepth))
    BY <1>6, <1>9 DEF ParseAccepts
  <2>2. ASSUME NeedsWalk PROVE ~ full.refused /\ WithinLimits /\ ~ Repeated
    BY <1>2, <1>9, <2>2 DEF ParseAccepts
  <2>3. NeedsWalk => ~ scan.depth /\ ~ (options.reject /\ scan.keys)
    BY <1>2, <1>5, <1>8, <2>2 DEF Repeated
  <2> QED
    BY <2>1, <2>2, <2>3 DEF DeserializeAccepts
<1>10. ASSUME options.enforce, DeserializeAccepts(depth) PROVE ParseAccepts
  <2>1. NeedsWalk
    BY <1>10 DEF NeedsWalk
  <2>2. CASE LimitsImplied
    <3>1. UnwalkedWithinLimits
      BY <1>1, BoundedWithinLimits
    <3>2. /\ facts.values <= options.maxNodes /\ facts.string <= options.maxString
          /\ facts.key <= options.maxKey /\ facts.items <= options.maxItems
          /\ facts.members <= options.maxMembers
          /\ ~ CheckDepth => facts.levels <= options.maxDepth
      BY <1>10, <2>2, <3>1 DEF UnwalkedWithinLimits
    <3>3. ~ (CheckDepth /\ scan.depth) /\ ~ (options.reject /\ scan.keys)
      BY <1>10, <2>1, <2>2 DEF DeserializeAccepts
    <3>4. facts.levels <= options.maxDepth
      BY <1>2, <1>5, <1>10, <3>2, <3>3
    <3>5. WithinLimits
      BY <3>2, <3>4 DEF WithinLimits
    <3>6. ~ full.refused
      BY <1>2, <3>3, <3>5 DEF Repeated
    <3> QED
      BY <1>7, <3>4, <3>6 DEF ParseAccepts
  <2>3. CASE ~ LimitsImplied
    <3>1. ~ full.refused
      BY <1>10, <2>1, <2>3 DEF DeserializeAccepts
    <3> QED
      BY <1>2, <1>7, <1>8, <1>10, <3>1 DEF ParseAccepts
  <2> QED
    BY <2>2, <2>3
<1> QED
  BY <1>9, <1>10

-----------------------------------------------------------------------------
\* The walk of json::parse refuses a document exactly when it exceeds a limit or
\* repeats a key, compared on the stack or on the heap (json.hpp:1079, 1123).
THEOREM Exactness == Spec => []WalkExact
<1>1. Verdicts => WalkExact
  BY WalkVerdict DEF Verdicts, WalkExact, Repeated
<1> QED
  BY <1>1, VerdictsHold, PTL

\* deserialize(), which seldom walks the document, accepts what json::parse
\* accepts, and with the limits on nothing else (json.hpp:1738, 2000).
THEOREM Agreement == Spec => []SameVerdict
<1>1. Verdicts => SameVerdict
  BY VerdictsAgree DEF SameVerdict
<1> QED
  BY <1>1, VerdictsHold, PTL
=============================================================================
