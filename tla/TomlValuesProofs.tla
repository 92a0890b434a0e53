-------------------------- MODULE TomlValuesProofs --------------------------
(***************************************************************************)
(* Values that are read are trees, inline tables sealed as a whole; members*)
(* are refused exactly when their paths conflict; the limits are counted   *)
(* and kept, and line breaks allowed as the containers that are open call  *)
(* for; and no value is lost: for any keys, key paths, sizes and limits.   *)
(***************************************************************************)
EXTENDS TomlValuesProps, TomlNodesProofs

Contents == UNION {[D -> Node] : D \in SUBSET Address}

Frame == [content : Contents, path : Paths \cup {<<>>}, previous : BOOLEAN,
          at : Address, assigned : SUBSET Paths]

IsArray(f) == f.content[<<>>].kind = "array"

\* A node is inline exactly when it is in a table, or is one.
InTable(t, x) == \E i \in 0 .. Len(x) : t[SubSeq(x, 1, i)].kind = "table"
SealedNodes(t) ==
  \A x \in DOMAIN t :
    /\ ~ t[x].arrayTable
    /\ t[x].inline <=> InTable(t, x)
    /\ t[x].inline <=> t[x].definition = "inline_table"

\* The members of a table under construction: a node is what has been assigned, in
\* what has been assigned, or a table on the way there; only such tables are passed.
Members(t, assigned) ==
  /\ \A x \in DOMAIN t \ {<<>>} :
       \/ \E q \in assigned : StartsWith(x, q)
       \/ MayPass(t[x]) /\ \E q \in assigned : StartsWith(q, x)
  /\ \A q \in assigned : q \in DOMAIN t /\ ~ MayPass(t[q])

TableFits(t, assigned) ==
  /\ IsTree(t) /\ t[<<>>].kind = "table"
  /\ \A x \in DOMAIN t : ~ t[x].arrayTable
  /\ Members(t, assigned)

ValueFits(t) == IsTree(t) /\ SealedNodes(t)

FrameFits(f) ==
  IF IsArray(f) THEN ValueFits(f.content) ELSE TableFits(f.content, f.assigned)

\* Line breaks may stand in the i-th open container (the 0th is the line).
Sees(s, i) == i = 0 \/ IsArray(s[i])

\* A value is being read in the container.
Reads(f) == IsArray(f) \/ f.path \in Paths

FramesFit(s) ==
  \A i \in 1 .. Len(s) :
    FrameFits(s[i]) /\ (s[i].previous <=> Sees(s, i - 1)) /\ (i < Len(s) => Reads(s[i]))

-----------------------------------------------------------------------------
(* Sequences.                                                              *)

LEMMA Shortened ==
  ASSUME NEW S, NEW s \in Seq(S), s # <<>>
  PROVE  /\ SubSeq(s, 1, Len(s) - 1) \in Seq(S) /\ Len(SubSeq(s, 1, Len(s) - 1)) = Len(s) - 1
         /\ \A i \in 1 .. Len(s) - 1 : SubSeq(s, 1, Len(s) - 1)[i] = s[i]
<1> DEFINE n == Len(s) - 1
           r == SubSeq(s, 1, n)
<1>1. n \in Nat /\ \A i \in 1 .. n : s[i] \in S
  OBVIOUS
<1> HIDE DEF n
<1>2. /\ r \in Seq(S)
      /\ Len(r) = IF 1 <= n THEN n - 1 + 1 ELSE 0
      /\ \A i \in 1 .. n - 1 + 1 : r[i] = s[1 + i - 1]
  BY <1>1, SubSeqProperties
<1> HIDE DEF r
<1>3. Len(r) = n /\ n - 1 + 1 = n /\ \A i \in 1 .. n : 1 + i - 1 = i
  BY <1>1, <1>2
<1>4. \A i \in 1 .. n : r[i] = s[i]
  BY <1>2, <1>3
<1> QED
  BY <1>2, <1>3, <1>4 DEF n, r

\* The innermost frame with a new one in its place.
LEMMA ReplacedFrame ==
  ASSUME frames \in Seq(Frame), frames # <<>>, NEW f \in Frame
  PROVE  /\ Replaced(f) \in Seq(Frame) /\ Len(Replaced(f)) = Len(frames)
         /\ Replaced(f) # <<>>
         /\ \A i \in 1 .. Len(frames) :
              Replaced(f)[i] = IF i = Len(frames) THEN f ELSE frames[i]
<1> DEFINE r == Closed
<1>1. /\ r \in Seq(Frame) /\ Len(r) = Len(frames) - 1
      /\ \A i \in 1 .. Len(frames) - 1 : r[i] = frames[i]
  BY Shortened DEF Closed
<1>2. Len(frames) \in Nat \ {0}
  OBVIOUS
<1> HIDE DEF r
<1>3. /\ Append(r, f) \in Seq(Frame) /\ Append(r, f) # <<>> /\ Len(Append(r, f)) = Len(r) + 1
      /\ \A i \in 1 .. Len(r) : Append(r, f)[i] = r[i]
      /\ Append(r, f)[Len(r) + 1] = f
  BY <1>1, AppendProperties
<1>4. Replaced(f) = Append(r, f)
  BY DEF Replaced, r
<1> QED
  BY <1>1, <1>2, <1>3, <1>4

LEMMA TopFrame ==
  ASSUME frames \in Seq(Frame), frames # <<>>
  PROVE  /\ Len(frames) \in Nat \ {0} /\ Top = frames[Len(frames)] /\ Top \in Frame
         /\ Top.content \in Contents /\ Top.path \in Paths \cup {<<>>} /\ Top.previous \in BOOLEAN
         /\ Top.at \in Address /\ Top.assigned \in SUBSET Paths
<1>1. Len(frames) \in Nat \ {0} /\ frames[Len(frames)] \in Frame
  OBVIOUS
<1> QED
  BY <1>1 DEF Top, Frame

LEMMA PathAddress ==
  ASSUME NEW p \in Paths
  PROVE  p \in Address /\ p # <<>> /\ p \in Seq(Keys)
<1>1. p \in Seq(Keys) /\ p # <<>>
  BY ValuesAssumption
<1> QED
  BY <1>1, SeqMonotonic DEF Address

-----------------------------------------------------------------------------
(* Contents.                                                               *)

LEMMA ContentFields ==
  ASSUME NEW t \in Contents, NEW x \in DOMAIN t
  PROVE  x \in Address /\ t[x] \in Node
  BY DEF Contents

LEMMA TreeContent ==
  ASSUME NEW t, IsTree(t), t = [x \in DOMAIN t |-> t[x]]
  PROVE  t \in Contents
<1>1. DOMAIN t \in SUBSET Address /\ \A x \in DOMAIN t : t[x] \in Node
  BY DEF IsTree
<1>2. t \in [DOMAIN t -> Node]
  BY <1>1
<1> QED
  BY <1>1, <1>2 DEF Contents

\* A content of one node.
LEMMA SingleContent ==
  ASSUME NEW n \in Node, n.size = 0
  PROVE  LET t == [x \in {<<>>} |-> n]
         IN IsTree(t) /\ t \in Contents /\ DOMAIN t = {<<>>} /\ t[<<>>] = n
<1> DEFINE t == [x \in {<<>>} |-> n]
<1>1. DOMAIN t = {<<>>} /\ t[<<>>] = n /\ t = [x \in DOMAIN t |-> t[x]]
  OBVIOUS
<1> HIDE DEF t
<1>2. <<>> \in Address /\ 0 .. Len(<<>>) - 1 = {}
  BY DEF Address
<1>3. IsTree(t)
  BY <1>1, <1>2 DEF IsTree
<1>4. t \in Contents
  BY <1>1, <1>3, TreeContent
<1> QED
  BY <1>1, <1>3, <1>4 DEF t

LEMMA RootInTable ==
  ASSUME NEW t
  PROVE  InTable(t, <<>>) <=> t[<<>>].kind = "table"
<1>1. 0 .. Len(<<>>) = {0} /\ SubSeq(<<>>, 1, 0) = <<>>
  BY SubSeqEmpty
<1> QED
  BY <1>1 DEF InTable

LEMMA SealedLeaf ==
  LET t == [x \in {<<>>} |-> Leaf] IN ValueFits(t) /\ t \in Contents
<1> DEFINE t == [x \in {<<>>} |-> Leaf]
<1>1. /\ Leaf \in Node /\ Leaf.size = 0 /\ Leaf.kind = "leaf" /\ ~ Leaf.inline
      /\ ~ Leaf.arrayTable /\ Leaf.definition = "implicit"
  BY DEF Leaf, Array, ArrayTable, Node, Definitions
<1>2. IsTree(t) /\ t \in Contents /\ DOMAIN t = {<<>>} /\ t[<<>>] = Leaf
  BY <1>1, SingleContent
<1> HIDE DEF t
<1>3. ~ InTable(t, <<>>)
  BY <1>1, <1>2, RootInTable
<1>4. SealedNodes(t)
  BY <1>1, <1>2, <1>3 DEF SealedNodes
<1> QED
  BY <1>2, <1>4 DEF ValueFits, t

LEMMA EmptyArray ==
  LET t == [x \in {<<>>} |-> Array(0)]
  IN ValueFits(t) /\ t \in Contents /\ t[<<>>].kind = "array"
<1> DEFINE t == [x \in {<<>>} |-> Array(0)]
<1>1. /\ Array(0) \in Node /\ Array(0).size = 0 /\ Array(0).kind = "array" /\ ~ Array(0).inline
      /\ ~ Array(0).arrayTable /\ Array(0).definition = "implicit"
  BY DEF Array, ArrayTable, Node, Definitions
<1>2. IsTree(t) /\ t \in Contents /\ DOMAIN t = {<<>>} /\ t[<<>>] = Array(0)
  BY <1>1, SingleContent
<1> HIDE DEF t
<1>3. ~ InTable(t, <<>>)
  BY <1>1, <1>2, RootInTable
<1>4. SealedNodes(t)
  BY <1>1, <1>2, <1>3 DEF SealedNodes
<1> QED
  BY <1>1, <1>2, <1>4 DEF ValueFits, t

LEMMA EmptyTable ==
  LET t == [x \in {<<>>} |-> Table("implicit")]
  IN TableFits(t, {}) /\ t \in Contents
<1> DEFINE t == [x \in {<<>>} |-> Table("implicit")]
<1>1. /\ Table("implicit") \in Node /\ Table("implicit").size = 0
      /\ Table("implicit").kind = "table" /\ ~ Table("implicit").arrayTable
  BY NewTable DEF Definitions
<1>2. IsTree(t) /\ t \in Contents /\ DOMAIN t = {<<>>} /\ t[<<>>] = Table("implicit")
  BY <1>1, SingleContent
<1> HIDE DEF t
<1> QED
  BY <1>1, <1>2 DEF TableFits, Members, t

\* The root of a value is passed by no dotted key.
LEMMA SealedRoot ==
  ASSUME NEW t, ValueFits(t)
  PROVE  ~ MayPass(t[<<>>])
<1>1. <<>> \in DOMAIN t
  BY DEF ValueFits, IsTree
<1> QED
  BY <1>1, RootInTable DEF ValueFits, SealedNodes, MayPass

\* A table that is closed is sealed, whatever is in it.
LEMMA TableSealed ==
  ASSUME NEW t, IsTree(t), t[<<>>].kind = "table", \A x \in DOMAIN t : ~ t[x].arrayTable
  PROVE  ValueFits(MarkInlineTable(t)) /\ MarkInlineTable(t) \in Contents
<1> DEFINE u == MarkInlineTable(t)
<1>1. \A x \in DOMAIN t : x \in Address /\ t[x] \in Node /\ Leads(t, x)
  BY DEF IsTree, Leads
<1>2. DOMAIN u = DOMAIN t /\ (\A x \in DOMAIN t : u[x] = Marked(t[x])) /\ u = [x \in DOMAIN u |-> u[x]]
  BY DEF MarkInlineTable
<1> HIDE DEF u
<1>3. \A n \in Node : /\ Marked(n) \in Node /\ Marked(n).kind = n.kind /\ Marked(n).size = n.size
                      /\ Marked(n).arrayTable = n.arrayTable /\ Marked(n).inline
                      /\ Marked(n).definition = "inline_table"
  BY DEF Marked, Node, Definitions
<1>4. \A x \in DOMAIN t :
        /\ u[x] \in Node /\ u[x].kind = t[x].kind /\ u[x].size = t[x].size /\ ~ u[x].arrayTable
        /\ u[x].inline /\ u[x].definition = "inline_table"
  BY <1>1, <1>2, <1>3
<1>5. Grows(t, u)
  <2>1. \A x \in DOMAIN t : t[x].size \in Nat
    BY <1>1, NodeFields
  <2> QED
    BY <1>2, <1>4, <2>1 DEF Grows
<1>6. IsTree(u)
  <2>1. IsTreeBut(t, <<>>) /\ <<>> \in DOMAIN u
    BY <1>2, TreeNodes DEF IsTree
  <2>2. \A x \in DOMAIN u :
          u[x].kind = "array" => \A i \in 1 .. u[x].size : Append(x, i) \in DOMAIN u \cup {<<>>}
    BY <1>2, <1>4 DEF IsTree
  <2>3. \A x \in DOMAIN u : x \in Address /\ u[x] \in Node
    BY <1>1, <1>2, <1>4
  <2>4. IsTreeBut(u, <<>>)
    BY <1>2, <1>5, <2>1, <2>2, <2>3, Regrown
  <2> QED
    BY <2>1, <2>4, TreeNodes
<1>7. \A x \in DOMAIN u : InTable(u, x)
  <2> TAKE x \in DOMAIN u
  <2>1. 0 \in 0 .. Len(x) /\ SubSeq(x, 1, 0) = <<>>
    BY <1>1, <1>2, AddressLength, SubSeqEmpty
  <2>2. u[<<>>].kind = "table"
    BY <1>2, <1>4 DEF IsTree
  <2> QED
    BY <2>1, <2>2 DEF InTable
<1>8. SealedNodes(u)
  BY <1>2, <1>4, <1>7 DEF SealedNodes
<1> QED
  BY <1>2, <1>6, <1>8, TreeContent DEF ValueFits, u

-----------------------------------------------------------------------------
(* An array gets an element.                                               *)

WithElement(t, c) == Graft(Longer(t), <<t[<<>>].size + 1>>, c)

\* The array with room for the element.
LEMMA RoomForElement ==
  ASSUME NEW t \in Contents, IsTree(t), t[<<>>].kind = "array",
         NEW u, u = Longer(t), NEW k, k = t[<<>>].size + 1
  PROVE  /\ k \in Nat /\ k \notin Keys /\ <<k>> = Append(<<>>, k) /\ <<k>> \in Address
         /\ DOMAIN u = DOMAIN t /\ <<>> \in DOMAIN t
         /\ \A x \in DOMAIN t \ {<<>>} : u[x] = t[x]
         /\ u[<<>>] = [t[<<>>] EXCEPT !.size = k] /\ MayHold(u[<<>>], k)
         /\ <<k>> \notin DOMAIN t
         /\ Grows(t, u) /\ IsTreeBut(u, <<k>>)
<1>1. <<>> \in DOMAIN t /\ t[<<>>] \in Node /\ t[<<>>].kind = "array"
  BY TreeFields DEF IsTree
<1>2. k \in Nat /\ k \notin Keys
  BY <1>1, NodeFields, ValuesAssumption
<1>3. <<k>> = Append(<<>>, k) /\ <<k>> \in Address
  BY <1>2 DEF Address
<1>4. t[<<>>].size \in Nat /\ k \notin 1 .. t[<<>>].size
  BY <1>1, NodeFields
<1>5. u[<<>>] = [t[<<>>] EXCEPT !.size = k] /\ DOMAIN u = DOMAIN t
      /\ \A x \in DOMAIN t \ {<<>>} : u[x] = t[x]
  BY <1>1 DEF Longer
<1>6. /\ u[<<>>] \in Node /\ u[<<>>].kind = "array" /\ u[<<>>].size = k
      /\ u[<<>>].inline = t[<<>>].inline /\ u[<<>>].arrayTable = t[<<>>].arrayTable
      /\ u[<<>>].definition = t[<<>>].definition
  BY <1>1, <1>2, <1>5 DEF Node
<1>7. MayHold(u[<<>>], k)
  <2>1. k \in 1 .. u[<<>>].size
    BY <1>4, <1>6
  <2>2. u[<<>>].kind = "array"
    BY <1>6
  <2> QED
    BY <1>2, <2>1, <2>2 DEF MayHold
<1>8. <<k>> \notin DOMAIN t
  <2> SUFFICES ASSUME <<k>> \in DOMAIN t PROVE FALSE
    OBVIOUS
  <2>1. Leads(t, <<k>>) /\ Len(<<k>>) = 1 /\ <<k>>[1] = k
    BY TreeFields
  <2>2. 0 \in 0 .. Len(<<k>>) - 1 /\ SubSeq(<<k>>, 1, 0) = <<>>
    BY <2>1, SubSeqEmpty
  <2>3. MayHold(t[<<>>], <<k>>[0 + 1])
    BY <2>1, <2>2 DEF Leads
  <2>4. MayHold(t[<<>>], k)
    BY <2>1, <2>3
  <2> QED
    BY <1>2, <1>4, <2>4 DEF MayHold
<1>9. \A x \in DOMAIN u : x \in Address /\ u[x] \in Node
  BY <1>5, <1>6, TreeFields
<1>10. Grows(t, u)
  <2>1. \A x \in DOMAIN t : t[x].size \in Nat
    BY TreeFields, NodeFields
  <2>2. t[<<>>].size <= k
    BY <1>4
  <2>3. t[<<>>].kind = u[<<>>].kind /\ t[<<>>].size <= u[<<>>].size
    BY <1>1, <1>6, <2>2
  <2>4. \A x \in DOMAIN t \ {<<>>} : t[x].kind = u[x].kind /\ t[x].size <= u[x].size
    BY <1>5, <2>1
  <2> QED
    BY <1>5, <2>3, <2>4 DEF Grows
<1>11. \A x \in DOMAIN u :
         u[x].kind = "array" => \A i \in 1 .. u[x].size : Append(x, i) \in DOMAIN u \cup {<<k>>}
  <2>1. ASSUME NEW i \in 1 .. k PROVE Append(<<>>, i) \in DOMAIN u \cup {<<k>>}
    <3>1. CASE i = k
      BY <1>3, <3>1
    <3>2. CASE i # k
      <4>1. i \in 1 .. t[<<>>].size
        BY <1>4, <3>2
      <4> QED
        BY <1>1, <1>5, <4>1 DEF IsTree
    <3> QED
      BY <3>1, <3>2
  <2>2. ASSUME NEW x \in DOMAIN t \ {<<>>}
        PROVE  u[x].kind = "array" => \A i \in 1 .. u[x].size : Append(x, i) \in DOMAIN u
    BY <1>5 DEF IsTree
  <2> QED
    BY <1>5, <1>6, <2>1, <2>2
<1>12. IsTreeBut(t, <<>>)
  BY TreeNodes
<1>13. DOMAIN u \ DOMAIN t = {}
  BY <1>5
<1>14. IsTreeBut(u, <<k>>)
  BY <1>9, <1>10, <1>11, <1>12, <1>13, Regrown
<1> QED
  BY <1>1, <1>2, <1>3, <1>5, <1>7, <1>8, <1>10, <1>14

\* The array with its element is a value as it was.
LEMMA ElementFits ==
  ASSUME NEW t \in Contents, ValueFits(t), t[<<>>].kind = "array", NEW c, ValueFits(c)
  PROVE  /\ ValueFits(WithElement(t, c)) /\ WithElement(t, c) \in Contents
         /\ WithElement(t, c)[<<>>].kind = "array"
<1> DEFINE u == Longer(t)
           k == t[<<>>].size + 1
           g == Graft(u, <<k>>, c)
<1>1. IsTree(t) /\ IsTree(c) /\ SealedNodes(t) /\ SealedNodes(c)
  BY DEF ValueFits
<1>2. /\ k \in Nat /\ k \notin Keys /\ <<k>> = Append(<<>>, k) /\ <<k>> \in Address
      /\ DOMAIN u = DOMAIN t /\ <<>> \in DOMAIN t
      /\ \A x \in DOMAIN t \ {<<>>} : u[x] = t[x]
      /\ u[<<>>] = [t[<<>>] EXCEPT !.size = k] /\ MayHold(u[<<>>], k)
      /\ <<k>> \notin DOMAIN t
      /\ Grows(t, u) /\ IsTreeBut(u, <<k>>)
  BY <1>1, RoomForElement
<1>3. \A x \in DOMAIN u : x \in Address /\ u[x] \in Node
  BY <1>2 DEF IsTreeBut
<1>4. \A y \in DOMAIN c : y \in Address /\ c[y] \in Node
  BY <1>1, TreeFields
<1>5. t[<<>>] \in Node
  BY <1>1, <1>2, TreeFields
<1>6. /\ u[<<>>].kind = "array" /\ u[<<>>].inline = t[<<>>].inline
      /\ u[<<>>].arrayTable = t[<<>>].arrayTable /\ u[<<>>].definition = t[<<>>].definition
  BY <1>2, <1>5 DEF Node
<1> HIDE DEF u, k
<1>7. IsTree(g) /\ Grows(u, g)
  <2>1. <<>> \in DOMAIN u /\ k \in Keys \cup Nat
    BY <1>2
  <2>2. IsTreeBut(u, Append(<<>>, k)) /\ Append(<<>>, k) \notin DOMAIN u
    BY <1>2
  <2>3. IsTree(Graft(u, Append(<<>>, k), c)) /\ Grows(u, Graft(u, Append(<<>>, k), c))
    BY <1>1, <1>2, <2>1, <2>2, GraftedTree
  <2> QED
    BY <1>2, <2>3
<1>8. /\ \A z : z \in DOMAIN g <=> z \in DOMAIN u \/ \E y \in DOMAIN c : z = <<k>> \o y
      /\ \A x \in DOMAIN u : g[x] = u[x]
      /\ \A y \in DOMAIN c : g[<<k>> \o y] = c[y]
  <2> DEFINE p == <<k>>
  <2>1. IsTreeBut(u, p) /\ p \in Address /\ p \notin DOMAIN u
    BY <1>2
  <2>2. \A y \in DOMAIN c : y \in Address
    BY <1>4
  <2> HIDE DEF p
  <2>3. IsGraft(Graft(u, p, c), u, p, c)
    BY <2>1, <2>2, Grafted
  <2> HIDE DEF g
  <2>4. IsGraft(g, u, p, c)
    BY <2>3 DEF g, p
  <2> QED
    BY <2>4 DEF IsGraft, p
<1>9. g = [x \in DOMAIN g |-> g[x]]
  BY DEF Graft
<1> HIDE DEF g
<1>10. \A x \in DOMAIN t : /\ g[x].kind = t[x].kind /\ g[x].inline = t[x].inline
                           /\ g[x].arrayTable = t[x].arrayTable /\ g[x].definition = t[x].definition
  BY <1>2, <1>6, <1>8
<1>11. ASSUME NEW x \in DOMAIN t PROVE InTable(g, x) <=> InTable(t, x)
  <2>1. \A i \in 0 .. Len(x) : SubSeq(x, 1, i) \in DOMAIN t
    BY <1>1, PrefixInTree
  <2> QED
    BY <1>10, <2>1 DEF InTable
<1>12. ASSUME NEW y \in DOMAIN c PROVE InTable(g, <<k>> \o y) <=> InTable(c, y)
  <2>1. y \in Address /\ Len(y) \in Nat /\ Len(<<k>>) = 1 /\ Len(<<k>> \o y) = Len(y) + 1
    BY <1>2, <1>4, AddressLength, Joined
  <2>2. \A i \in 0 .. Len(<<k>>) + Len(y) :
          SubSeq(<<k>> \o y, 1, i) =
            IF i <= Len(<<k>>) THEN SubSeq(<<k>>, 1, i) ELSE <<k>> \o SubSeq(y, 1, i - Len(<<k>>))
    BY <1>2, <2>1, PrefixOfJoined
  <2>3. \A i \in 0 .. Len(y) : SubSeq(y, 1, i) \in DOMAIN c
    BY <1>1, PrefixInTree
  <2>4. SubSeq(<<k>>, 1, 1) = <<k>> /\ SubSeq(y, 1, 0) = <<>>
    <3>1. SubSeq(<<k>>, 1, Len(<<k>>)) = <<k>>
      BY <1>2, WholePrefix
    <3>2. SubSeq(y, 1, 0) = <<>>
      BY <2>1, SubSeqEmpty
    <3> QED
      BY <2>1, <3>1, <3>2
  <2>5. <<k>> \o <<>> = <<k>>
    BY <1>2, JoinedRoot
  <2>6. ASSUME NEW i \in 1 .. Len(y) + 1
        PROVE  SubSeq(<<k>> \o y, 1, i) = <<k>> \o SubSeq(y, 1, i - 1)
    <3>1. CASE i = 1
      BY <2>1, <2>2, <2>4, <2>5, <3>1
    <3>2. CASE i # 1
      <4>1. i \in 0 .. Len(<<k>>) + Len(y) /\ ~ (i <= Len(<<k>>)) /\ i - Len(<<k>>) = i - 1
        BY <2>1, <3>2
      <4> QED
        BY <2>2, <4>1
    <3> QED
      BY <3>1, <3>2
  <2>7. ASSUME NEW i \in 1 .. Len(y) + 1
        PROVE  g[SubSeq(<<k>> \o y, 1, i)] = c[SubSeq(y, 1, i - 1)]
    <3>1. i - 1 \in 0 .. Len(y)
      BY <2>1
    <3> QED
      BY <1>8, <2>3, <2>6, <3>1
  <2>8. g[SubSeq(<<k>> \o y, 1, 0)].kind = "array"
    <3>1. SubSeq(<<k>> \o y, 1, 0) = <<>>
      BY SubSeqEmpty
    <3> QED
      BY <1>2, <1>6, <1>8, <3>1
  <2>9. ASSUME InTable(g, <<k>> \o y) PROVE InTable(c, y)
    <3>1. PICK i \in 0 .. Len(y) + 1 : g[SubSeq(<<k>> \o y, 1, i)].kind = "table"
      BY <2>1, <2>9 DEF InTable
    <3>2. i # 0
      BY <2>8, <3>1
    <3>3. i \in 1 .. Len(y) + 1 /\ i - 1 \in 0 .. Len(y)
      BY <2>1, <3>2
    <3> QED
      BY <2>7, <3>1, <3>3 DEF InTable
  <2>10. ASSUME InTable(c, y) PROVE InTable(g, <<k>> \o y)
    <3>1. PICK i \in 0 .. Len(y) : c[SubSeq(y, 1, i)].kind = "table"
      BY <2>10 DEF InTable
    <3>2. i + 1 \in 1 .. Len(y) + 1 /\ i + 1 - 1 = i /\ i + 1 \in 0 .. Len(<<k>> \o y)
      BY <2>1
    <3>3. g[SubSeq(<<k>> \o y, 1, i + 1)] = c[SubSeq(y, 1, i + 1 - 1)]
      BY <2>7, <3>2
    <3> QED
      BY <3>1, <3>2, <3>3 DEF InTable
  <2> QED
    BY <2>9, <2>10
<1>13. SealedNodes(g)
  <2>1. ASSUME NEW x \in DOMAIN t
        PROVE  /\ ~ g[x].arrayTable /\ (g[x].inline <=> InTable(g, x))
               /\ g[x].inline <=> g[x].definition = "inline_table"
    BY <1>1, <1>10, <1>11 DEF SealedNodes
  <2>2. ASSUME NEW y \in DOMAIN c
        PROVE  /\ ~ g[<<k>> \o y].arrayTable /\ (g[<<k>> \o y].inline <=> InTable(g, <<k>> \o y))
               /\ g[<<k>> \o y].inline <=> g[<<k>> \o y].definition = "inline_table"
    BY <1>1, <1>8, <1>12 DEF SealedNodes
  <2>3. \A x \in DOMAIN g : x \in DOMAIN t \/ \E y \in DOMAIN c : x = <<k>> \o y
    BY <1>2, <1>8
  <2>4. ASSUME NEW x \in DOMAIN g
        PROVE  /\ ~ g[x].arrayTable /\ (g[x].inline <=> InTable(g, x))
               /\ g[x].inline <=> g[x].definition = "inline_table"
    BY <2>1, <2>2, <2>3
  <2> QED
    BY <2>4 DEF SealedNodes
<1>14. g \in Contents
  BY <1>7, <1>9, TreeContent
<1>15. g[<<>>].kind = "array"
  BY <1>2, <1>6, <1>8
<1>16. WithElement(t, c) = g
  BY DEF WithElement, g, u, k
<1> QED
  BY <1>7, <1>13, <1>14, <1>15, <1>16 DEF ValueFits

-----------------------------------------------------------------------------
(* A table gets a member.                                                  *)

LEMMA Starts ==
  ASSUME NEW x \in Address, NEW i \in 0 .. Len(x)
  PROVE  StartsWith(x, SubSeq(x, 1, i)) /\ StartsWith(x, x)
<1>1. Len(SubSeq(x, 1, i)) = i /\ Len(x) \in Nat /\ i <= Len(x) /\ SubSeq(x, 1, Len(x)) = x
  BY Prefix, AddressLength, WholePrefix
<1> QED
  BY <1>1 DEF StartsWith

\* What a key path leads through: its prefixes but for the empty one and itself.
LEMMA WayPrefixes ==
  ASSUME NEW p \in Paths
  PROVE  /\ \A x \in Way(p) :
              /\ x \in Address /\ Len(x) \in 1 .. Len(p) - 1 /\ x = SubSeq(p, 1, Len(x))
              /\ StartsWith(p, x)
         /\ \A x \in Address : StartsWith(p, x) /\ x # <<>> /\ x # p => x \in Way(p)
<1>1. p \in Address /\ Len(p) \in Nat /\ SubSeq(p, 1, Len(p)) = p
  BY PathAddress, AddressLength, WholePrefix
<1>2. ASSUME NEW x \in Way(p)
      PROVE  /\ x \in Address /\ Len(x) \in 1 .. Len(p) - 1 /\ x = SubSeq(p, 1, Len(x))
             /\ StartsWith(p, x)
  <2>1. PICK i \in 1 .. Len(p) - 1 : x = SubSeq(p, 1, i)
    BY DEF Way
  <2>2. i \in 0 .. Len(p)
    BY <1>1
  <2>3. SubSeq(p, 1, i) \in Address /\ Len(SubSeq(p, 1, i)) = i /\ StartsWith(p, SubSeq(p, 1, i))
    BY <1>1, <2>2, Prefix, Starts
  <2> QED
    BY <2>1, <2>3
<1>3. ASSUME NEW x \in Address, StartsWith(p, x), x # <<>>, x # p PROVE x \in Way(p)
  <2>1. Len(x) \in Nat /\ Len(x) # 0 /\ Len(x) <= Len(p) /\ SubSeq(p, 1, Len(x)) = x
    BY <1>3, AddressLength DEF StartsWith
  <2>2. Len(x) # Len(p)
    BY <1>1, <1>3, <2>1
  <2>3. Len(x) \in 1 .. Len(p) - 1
    <3>1. Len(x) \in Nat /\ Len(x) # 0 /\ Len(x) <= Len(p) /\ Len(p) \in Nat
      BY <1>1, <2>1
    <3> QED
      BY <2>2, <3>1
  <2> QED
    BY <2>1, <2>3 DEF Way
<1> QED
  BY <1>2, <1>3

LEMMA StartsInTree ==
  ASSUME NEW t, IsTree(t), NEW x \in DOMAIN t, NEW q \in Address, StartsWith(x, q)
  PROVE  q \in DOMAIN t
<1>1. Len(q) \in 0 .. Len(x) /\ SubSeq(x, 1, Len(q)) = q
  BY TreeFields, AddressLength DEF StartsWith
<1> QED
  BY <1>1, PrefixInTree

LEMMA StartsTransitive ==
  ASSUME NEW p \in Address, NEW x \in Address, NEW q \in Address, StartsWith(p, x), StartsWith(x, q)
  PROVE  StartsWith(p, q)
<1>1. /\ Len(p) \in Nat /\ Len(x) \in Nat /\ Len(q) \in Nat /\ Len(x) <= Len(p) /\ Len(q) <= Len(x)
      /\ SubSeq(p, 1, Len(x)) = x /\ SubSeq(x, 1, Len(q)) = q
  BY AddressLength DEF StartsWith
<1> DEFINE y == SubSeq(p, 1, Len(q))
<1>2. Len(q) \in 0 .. Len(p) /\ Len(x) \in 0 .. Len(p) /\ Len(q) \in 0 .. Len(x)
  BY <1>1
<1>3. y \in Address /\ Len(y) = Len(q) /\ \A j \in 1 .. Len(q) : y[j] = p[j]
  BY <1>2, Prefix
<1>4. \A j \in 1 .. Len(x) : x[j] = p[j]
  BY <1>1, <1>2, Prefix
<1>5. \A j \in 1 .. Len(q) : q[j] = x[j]
  BY <1>1, <1>2, Prefix
<1>6. \A j \in 1 .. Len(q) : y[j] = q[j]
  BY <1>1, <1>3, <1>4, <1>5
<1> HIDE DEF y
<1>7. y = q
  BY <1>3, <1>6, Same
<1> QED
  BY <1>1, <1>7 DEF StartsWith, y

\* insertValueAt() succeeds exactly when the path conflicts with none before.
LEMMA InsertsExactly ==
  ASSUME NEW t, NEW assigned \in SUBSET Paths, TableFits(t, assigned), NEW p \in Paths
  PROVE  Inserts(t, p) <=> ~ \E q \in assigned : StartsWith(q, p) \/ StartsWith(p, q)
<1>1. p \in Address /\ p # <<>> /\ \A q \in assigned : q \in Address /\ q # <<>>
  BY PathAddress
<1>2. IsTree(t) /\ \A q \in assigned : q \in DOMAIN t /\ ~ MayPass(t[q])
  BY DEF TableFits, Members
<1>3. \A x \in DOMAIN t \ {<<>>} :
        \/ \E q \in assigned : StartsWith(x, q)
        \/ MayPass(t[x]) /\ \E q \in assigned : StartsWith(q, x)
  BY DEF TableFits, Members
<1>4. ASSUME Inserts(t, p), NEW q \in assigned PROVE ~ StartsWith(q, p) /\ ~ StartsWith(p, q)
  <2>1. p \notin DOMAIN t /\ \A x \in Way(p) \cap DOMAIN t : MayPass(t[x])
    BY <1>4 DEF Inserts, MayPut
  <2>2. q # p /\ q \notin Way(p)
    BY <1>2, <2>1
  <2>3. ~ StartsWith(p, q)
    BY <1>1, <2>2, WayPrefixes
  <2>4. ~ StartsWith(q, p)
    BY <1>1, <1>2, <2>1, StartsInTree
  <2> QED
    BY <2>3, <2>4
<1>5. ASSUME ~ \E q \in assigned : StartsWith(q, p) \/ StartsWith(p, q) PROVE Inserts(t, p)
  <2>1. p \notin DOMAIN t
    BY <1>1, <1>3, <1>5
  <2>2. ASSUME NEW x \in Way(p) \cap DOMAIN t PROVE MayPass(t[x])
    <3>1. x \in Address /\ Len(x) \in 1 .. Len(p) - 1 /\ StartsWith(p, x)
      BY WayPrefixes
    <3>2. x # <<>>
      BY <3>1
    <3>3. CASE \E q \in assigned : StartsWith(x, q)
      <4>1. PICK q \in assigned : StartsWith(x, q)
        BY <3>3
      <4>2. StartsWith(p, q)
        BY <1>1, <3>1, <4>1, StartsTransitive
      <4> QED
        BY <1>5, <4>2
    <3> QED
      BY <1>3, <3>2, <3>3
  <2> QED
    BY <2>1, <2>2 DEF Inserts, MayPut
<1> QED
  BY <1>4, <1>5

\* The table with the tables that a dotted key leads through.
LEMMA WayFits ==
  ASSUME NEW t, NEW assigned \in SUBSET Paths, TableFits(t, assigned), NEW p \in Paths, Inserts(t, p)
  PROVE  /\ DOMAIN WithWay(t, p) = DOMAIN t \cup Way(p)
         /\ \A x \in DOMAIN t : WithWay(t, p)[x] = t[x]
         /\ \A x \in Way(p) : /\ MayPass(WithWay(t, p)[x]) /\ ~ WithWay(t, p)[x].arrayTable
                              /\ WithWay(t, p)[x].kind = "table"
         /\ IsTree(WithWay(t, p)) /\ p \notin DOMAIN WithWay(t, p)
<1> DEFINE w == WithWay(t, p)
<1>1. p \in Address /\ p # <<>> /\ p \in Seq(Keys) /\ Len(p) \in Nat
  BY PathAddress, AddressLength
<1>2. IsTree(t) /\ t[<<>>].kind = "table" /\ \A x \in DOMAIN t : ~ t[x].arrayTable
  BY DEF TableFits
<1>3. p \notin DOMAIN t /\ \A x \in Way(p) \cap DOMAIN t : MayPass(t[x])
  BY DEF Inserts, MayPut
<1>4. DOMAIN w = DOMAIN t \cup Way(p)
      /\ \A x \in DOMAIN t \cup Way(p) : w[x] = IF x \in DOMAIN t THEN t[x] ELSE Table("dotted_key")
  BY DEF WithWay
<1> HIDE DEF w
<1>5. /\ Table("dotted_key") \in Node /\ Table("dotted_key").kind = "table"
      /\ Table("dotted_key").size = 0 /\ ~ Table("dotted_key").arrayTable /\ MayPass(Table("dotted_key"))
  BY NewTable DEF Definitions, MayPass
<1>6. \A x \in DOMAIN t : w[x] = t[x]
  BY <1>4
<1>7. \A x \in Way(p) : MayPass(w[x]) /\ ~ w[x].arrayTable /\ w[x].kind = "table"
  BY <1>2, <1>3, <1>4, <1>5 DEF MayPass
<1>8. \A x \in DOMAIN w : x \in Address /\ w[x] \in Node
  BY <1>2, <1>4, <1>5, TreeFields, WayPrefixes
<1>9. Grows(t, w)
  <2>1. \A x \in DOMAIN t : t[x].size \in Nat
    BY <1>2, TreeFields, NodeFields
  <2> QED
    BY <1>4, <1>6, <2>1 DEF Grows
<1>10. ASSUME NEW x \in DOMAIN w \ DOMAIN t PROVE Leads(w, x)
  <2>1. x \in Way(p)
    BY <1>4
  <2>2. x \in Address /\ Len(x) \in 1 .. Len(p) - 1 /\ x = SubSeq(p, 1, Len(x))
    BY <2>1, WayPrefixes
  <2>3. ASSUME NEW i \in 0 .. Len(x) - 1
        PROVE  SubSeq(x, 1, i) \in DOMAIN w /\ w[SubSeq(x, 1, i)].kind = "table" /\ x[i + 1] \in Keys
    <3>1. i \in Nat /\ i \in 0 .. Len(x) /\ i \in 0 .. Len(p) /\ i + 1 \in 1 .. Len(x) /\ i + 1 \in 1 .. Len(p)
          /\ Len(x) \in 0 .. Len(p)
      BY <1>1, <2>2
    <3>2. x[i + 1] = p[i + 1]
      BY <1>1, <2>2, <3>1, Prefix
    <3>3. p[i + 1] \in Keys
      BY <1>1, <3>1
    <3>4. SubSeq(x, 1, i) \in Address /\ Len(SubSeq(x, 1, i)) = i
      BY <2>2, <3>1, Prefix
    <3>5. SubSeq(x, 1, i) = SubSeq(p, 1, i)
      <4>1. /\ SubSeq(p, 1, i) \in Address /\ Len(SubSeq(p, 1, i)) = i
            /\ \A j \in 1 .. i : SubSeq(p, 1, i)[j] = p[j]
        BY <1>1, <3>1, Prefix
      <4>2. \A j \in 1 .. i : SubSeq(x, 1, i)[j] = x[j]
        BY <2>2, <3>1, Prefix
      <4>3. \A j \in 1 .. Len(x) : x[j] = p[j]
        BY <1>1, <2>2, <3>1, Prefix
      <4>4. \A j \in 1 .. i : SubSeq(x, 1, i)[j] = SubSeq(p, 1, i)[j]
        BY <3>1, <4>1, <4>2, <4>3
      <4> QED
        BY <3>4, <4>1, <4>4, Same
    <3>6. CASE i = 0
      <4>1. SubSeq(x, 1, i) = <<>>
        BY <3>4, <3>6, AddressLength
      <4> QED
        BY <1>2, <1>4, <1>6, <3>2, <3>3, <4>1 DEF IsTree
    <3>7. CASE i # 0
      <4>1. i \in 1 .. Len(p) - 1
        BY <2>2, <3>1, <3>7
      <4>2. SubSeq(x, 1, i) \in Way(p)
        BY <3>5, <4>1 DEF Way
      <4> QED
        BY <1>4, <1>7, <3>2, <3>3, <4>2
    <3> QED
      BY <3>6, <3>7
  <2> QED
    BY <2>3 DEF Leads, MayHold
<1>11. \A x \in DOMAIN w :
         w[x].kind = "array" => \A i \in 1 .. w[x].size : Append(x, i) \in DOMAIN w \cup {<<>>}
  <2>1. ASSUME NEW x \in DOMAIN t PROVE w[x].kind = "array" => \A i \in 1 .. w[x].size : Append(x, i) \in DOMAIN w
    BY <1>2, <1>4, <1>6 DEF IsTree
  <2> QED
    BY <1>4, <1>7, <2>1
<1>12. IsTree(w)
  <2>1. IsTreeBut(t, <<>>)
    BY <1>2, TreeNodes
  <2>2. \A x \in DOMAIN w \ DOMAIN t : Leads(w, x)
    BY <1>10
  <2>3. IsTreeBut(w, <<>>)
    BY <1>8, <1>9, <1>11, <2>1, <2>2, Regrown
  <2>4. <<>> \in DOMAIN w
    BY <2>3 DEF IsTreeBut
  <2> QED
    BY <2>3, <2>4, TreeNodes
<1>13. p \notin DOMAIN w
  <2>1. p \notin Way(p)
    <3> SUFFICES ASSUME p \in Way(p) PROVE FALSE
      OBVIOUS
    <3>1. Len(p) \in 1 .. Len(p) - 1
      BY WayPrefixes
    <3> QED
      BY <1>1, <3>1
  <2> QED
    BY <1>3, <1>4, <2>1
<1> QED
  BY <1>4, <1>6, <1>7, <1>12, <1>13 DEF w

\* The table with the member is as it was, with one more path.
LEMMA MemberFits ==
  ASSUME NEW t, NEW assigned \in SUBSET Paths, TableFits(t, assigned), NEW p \in Paths, Inserts(t, p),
         NEW c, ValueFits(c)
  PROVE  /\ TableFits(Graft(WithWay(t, p), p, c), assigned \cup {p})
         /\ Graft(WithWay(t, p), p, c) \in Contents
<1> DEFINE w == WithWay(t, p)
           g == Graft(w, p, c)
           n == Len(p)
           q == SubSeq(p, 1, n - 1)
           k == p[n]
<1>1. p \in Address /\ p # <<>> /\ p \in Seq(Keys) /\ n \in Nat \ {0}
  BY PathAddress, AddressLength
<1>2. /\ DOMAIN w = DOMAIN t \cup Way(p)
      /\ \A x \in DOMAIN t : w[x] = t[x]
      /\ \A x \in Way(p) : MayPass(w[x]) /\ ~ w[x].arrayTable /\ w[x].kind = "table"
      /\ IsTree(w) /\ p \notin DOMAIN w
  BY WayFits
<1>3. /\ IsTree(t) /\ t[<<>>].kind = "table" /\ \A x \in DOMAIN t : ~ t[x].arrayTable
      /\ Members(t, assigned)
  BY DEF TableFits
<1>4. IsTree(c) /\ SealedNodes(c) /\ ~ MayPass(c[<<>>]) /\ <<>> \in DOMAIN c
  BY SealedRoot DEF ValueFits, IsTree
<1>5. k \in Keys /\ q \in Address /\ p = Append(q, k)
  <2>1. k \in Keys /\ n - 1 \in 0 .. Len(p)
    BY <1>1
  <2>2. q \in Address /\ Len(q) = n - 1 /\ \A j \in 1 .. n - 1 : q[j] = p[j]
    BY <1>1, <2>1, Prefix
  <2> HIDE DEF q, k
  <2>3. /\ Append(q, k) \in Address /\ Len(Append(q, k)) = Len(q) + 1
        /\ \A i \in 1 .. Len(q) : Append(q, k)[i] = q[i]
        /\ Append(q, k)[Len(q) + 1] = k
    BY <2>1, <2>2, Extended
  <2>4. \A i \in 1 .. n : Append(q, k)[i] = p[i]
    <3> TAKE i \in 1 .. n
    <3>1. CASE i = n
      BY <1>1, <2>2, <2>3, <3>1 DEF k
    <3>2. CASE i # n
      <4>1. i \in 1 .. n - 1
        BY <1>1, <3>2
      <4> QED
        BY <2>2, <2>3, <4>1
    <3> QED
      BY <3>1, <3>2
  <2>5. Len(Append(q, k)) = n
    BY <1>1, <2>2, <2>3
  <2> QED
    BY <1>1, <2>1, <2>2, <2>3, <2>4, <2>5, Same
<1>6. q \in DOMAIN w /\ w[q].kind = "table"
  <2>1. CASE n = 1
    <3>1. q = <<>>
      BY <2>1, SubSeqEmpty
    <3> QED
      BY <1>2, <1>3, <3>1 DEF IsTree
  <2>2. CASE n # 1
    <3>1. n - 1 \in 1 .. n - 1
      <4>1. n \in Nat /\ n # 0 /\ n # 1
        BY <1>1, <2>2
      <4> HIDE DEF n
      <4> QED
        BY <4>1
    <3>2. q \in Way(p)
      BY <3>1 DEF Way
    <3> QED
      BY <1>2, <3>2
  <2> QED
    BY <2>1, <2>2
<1> HIDE DEF w, q, k, n
<1>7. IsTree(g) /\ Grows(w, g)
  <2>1. IsTreeBut(w, Append(q, k))
    BY <1>2, TreeNodes
  <2>2. MayHold(w[q], k) /\ k \in Keys \cup Nat
    BY <1>5, <1>6 DEF MayHold
  <2>3. Append(q, k) \notin DOMAIN w
    BY <1>2, <1>5
  <2>4. IsTree(Graft(w, Append(q, k), c)) /\ Grows(w, Graft(w, Append(q, k), c))
    BY <1>4, <1>6, <2>1, <2>2, <2>3, GraftedTree
  <2> QED
    BY <1>5, <2>4
<1>8. IsGraft(g, w, p, c)
  <2>1. IsTreeBut(w, p)
    BY <1>2, TreeNodes
  <2>2. \A y \in DOMAIN c : y \in Address
    BY <1>4, TreeFields
  <2> QED
    BY <1>1, <1>2, <2>1, <2>2, Grafted
<1>9. g = [x \in DOMAIN g |-> g[x]]
  BY DEF Graft
<1> HIDE DEF g
<1>10. g \in Contents
  BY <1>7, <1>9, TreeContent
<1>11. \A x \in DOMAIN t : x \in DOMAIN g /\ g[x] = t[x]
  BY <1>2, <1>8 DEF IsGraft
<1>12. \A x \in Way(p) : x \in DOMAIN g /\ g[x] = w[x]
  BY <1>2, <1>8 DEF IsGraft
<1>13. \A y \in DOMAIN c : g[p \o y] = c[y]
  BY <1>8 DEF IsGraft
<1>14. \A x \in DOMAIN g : \/ x \in DOMAIN t
                           \/ x \in Way(p)
                           \/ \E y \in DOMAIN c : x = p \o y
  BY <1>2, <1>8 DEF IsGraft
<1>15. g[<<>>].kind = "table"
  BY <1>3, <1>11 DEF IsTree
<1>16. \A x \in DOMAIN g : ~ g[x].arrayTable
  <2>1. \A y \in DOMAIN c : ~ g[p \o y].arrayTable
    BY <1>4, <1>13 DEF SealedNodes
  <2> QED
    BY <1>2, <1>3, <1>11, <1>12, <1>14, <2>1
<1>17. ASSUME NEW x \in DOMAIN g \ {<<>>}
       PROVE  \/ \E r \in assigned \cup {p} : StartsWith(x, r)
              \/ MayPass(g[x]) /\ \E r \in assigned \cup {p} : StartsWith(r, x)
  <2>1. CASE x \in DOMAIN t
    <3>1. \/ \E r \in assigned : StartsWith(x, r)
          \/ MayPass(t[x]) /\ \E r \in assigned : StartsWith(r, x)
      BY <1>3, <2>1 DEF Members
    <3> QED
      BY <1>11, <2>1, <3>1
  <2>2. CASE x \in Way(p)
    BY <1>2, <1>12, <2>2, WayPrefixes
  <2>3. ASSUME NEW y \in DOMAIN c, x = p \o y PROVE StartsWith(x, p)
    <3>1. y \in Address
      BY <1>4, TreeFields
    <3>2. Len(p) \in Nat /\ Len(y) \in Nat /\ x \in Address /\ Len(x) = Len(p) + Len(y)
      BY <1>1, <2>3, <3>1, AddressLength, Joined
    <3>3. Len(p) \in 0 .. Len(p) + Len(y) /\ Len(p) <= Len(p)
      BY <3>2
    <3>4. SubSeq(x, 1, Len(p)) = SubSeq(p, 1, Len(p))
      BY <1>1, <2>3, <3>1, <3>3, PrefixOfJoined
    <3>5. SubSeq(p, 1, Len(p)) = p
      BY <1>1, WholePrefix
    <3>6. Len(p) <= Len(x)
      BY <3>2
    <3> QED
      BY <3>4, <3>5, <3>6 DEF StartsWith
  <2> QED
    BY <1>14, <2>1, <2>2, <2>3
<1>18. ASSUME NEW r \in assigned \cup {p} PROVE r \in DOMAIN g /\ ~ MayPass(g[r])
  <2>1. CASE r \in assigned
    BY <1>3, <1>11, <2>1 DEF Members
  <2>2. CASE r = p
    <3>1. p \o <<>> = p
      BY <1>1, JoinedRoot
    <3>2. g[p] = c[<<>>]
      BY <1>4, <1>13, <3>1
    <3>3. p \in DOMAIN g
      BY <1>4, <1>8, <3>1 DEF IsGraft
    <3> QED
      BY <1>4, <2>2, <3>2, <3>3
  <2> QED
    BY <2>1, <2>2
<1>19. Members(g, assigned \cup {p})
  BY <1>17, <1>18 DEF Members
<1>20. TableFits(g, assigned \cup {p})
  BY <1>7, <1>15, <1>16, <1>19 DEF TableFits
<1> QED
  BY <1>10, <1>20 DEF g, w

-----------------------------------------------------------------------------
(* The inductive invariant.                                                *)

Outcomes == {"limit", "conflict", "malformed"}

Types ==
  /\ doing \in {"value", "item", "put", "next", "done"} \cup Outcomes
  /\ frames \in Seq(Frame) /\ depth \in Nat /\ nodes \in Nat
  /\ newlines \in BOOLEAN /\ clash \in BOOLEAN /\ said \in Seq(Address)

\* What is read next, the open containers and what has been read fit together.
Shape(d, s, c) ==
  /\ FramesFit(s)
  /\ d \in {"value", "put"} /\ s # <<>> => Reads(s[Len(s)])
  /\ d \in {"item", "put", "next"} => s # <<>>
  /\ d \in {"put", "done"} => ValueFits(c)

Counts == Counted /\ depth <= MaxDepth /\ nodes <= MaxNodes

\* Between its members a table has set allow_newlines_ back.
BreaksAllowed(d, s) ==
  Sees(s, IF d \in {"item", "next"} /\ s # <<>> /\ ~ IsArray(s[Len(s)])
          THEN Len(s) - 1 ELSE Len(s))

Breaks == newlines <=> BreaksAllowed(doing, frames)

Verdict == clash <=> doing = "conflict"

Inv == Types /\ Shape(doing, frames, parsed) /\ Counts /\ Breaks /\ Verdict

LEMMA Limits ==
  MaxDepth \in Nat /\ MaxNodes \in Nat
  BY ValuesAssumption

-----------------------------------------------------------------------------
(* Frames that are opened, changed and left.                               *)

LEMMA NoFrames ==
  FramesFit(<<>>) /\ <<>> \in Seq(Frame) /\ Len(<<>>) = 0 /\ Sees(<<>>, 0)
  BY DEF FramesFit, Sees

LEMMA Pushed ==
  ASSUME frames \in Seq(Frame), FramesFit(frames), frames # <<>> => Reads(Top),
         NEW f \in Frame, FrameFits(f), f.previous <=> Sees(frames, Len(frames)),
         NEW s, s = Append(frames, f)
  PROVE  /\ s \in Seq(Frame) /\ s # <<>> /\ Len(s) = Len(frames) + 1 /\ s[Len(s)] = f
         /\ FramesFit(s) /\ Sees(s, Len(s) - 1) = Sees(frames, Len(frames))
<1>1. Len(frames) \in Nat
  OBVIOUS
<1>2. /\ s \in Seq(Frame) /\ s # <<>> /\ Len(s) = Len(frames) + 1
      /\ \A i \in 1 .. Len(frames) : s[i] = frames[i]
      /\ s[Len(frames) + 1] = f
  BY AppendProperties
<1>3. \A i \in 0 .. Len(frames) : Sees(s, i) = Sees(frames, i)
  BY <1>1, <1>2 DEF Sees
<1>4. ASSUME NEW i \in 1 .. Len(s)
      PROVE  FrameFits(s[i]) /\ (s[i].previous <=> Sees(s, i - 1)) /\ (i < Len(s) => Reads(s[i]))
  <2>1. CASE i = Len(frames) + 1
    <3>1. s[i] = f /\ i - 1 = Len(frames) /\ ~ (i < Len(s)) /\ Len(frames) \in 0 .. Len(frames)
      BY <1>1, <1>2, <2>1
    <3>2. Sees(s, i - 1) = Sees(frames, Len(frames))
      BY <1>3, <3>1
    <3> QED
      BY <3>1, <3>2
  <2>2. CASE i # Len(frames) + 1
    <3>1. i \in 1 .. Len(frames) /\ i - 1 \in 0 .. Len(frames)
      BY <1>1, <1>2, <2>2
    <3>2. s[i] = frames[i] /\ Sees(s, i - 1) = Sees(frames, i - 1)
      BY <1>2, <1>3, <3>1
    <3>3. FrameFits(frames[i]) /\ (frames[i].previous <=> Sees(frames, i - 1))
      BY <3>1 DEF FramesFit
    <3>4. Reads(frames[i])
      <4>1. CASE i < Len(frames)
        BY <3>1, <4>1 DEF FramesFit
      <4>2. CASE ~ (i < Len(frames))
        <5>1. i = Len(frames) /\ frames # <<>>
          BY <1>1, <3>1, <4>2
        <5> QED
          BY <5>1 DEF Top
      <4> QED
        BY <4>1, <4>2
    <3> QED
      BY <3>2, <3>3, <3>4
  <2> QED
    BY <2>1, <2>2
<1>5. Sees(s, Len(s) - 1) = Sees(frames, Len(frames))
  <2>1. Len(s) - 1 = Len(frames) /\ Len(frames) \in 0 .. Len(frames)
    BY <1>1, <1>2
  <2> QED
    BY <1>3, <2>1
<1> QED
  BY <1>2, <1>4, <1>5 DEF FramesFit

LEMMA Changed ==
  ASSUME frames \in Seq(Frame), FramesFit(frames), frames # <<>>,
         NEW f \in Frame, FrameFits(f), f.previous <=> Sees(frames, Len(frames) - 1),
         NEW s, s = Replaced(f)
  PROVE  /\ s \in Seq(Frame) /\ s # <<>> /\ Len(s) = Len(frames) /\ s[Len(s)] = f
         /\ FramesFit(s) /\ Sees(s, Len(s) - 1) = Sees(frames, Len(frames) - 1)
<1>1. Len(frames) \in Nat \ {0}
  BY TopFrame
<1>2. /\ s \in Seq(Frame) /\ s # <<>> /\ Len(s) = Len(frames)
      /\ \A i \in 1 .. Len(frames) : s[i] = IF i = Len(frames) THEN f ELSE frames[i]
  BY ReplacedFrame
<1>3. \A i \in 0 .. Len(frames) - 1 : Sees(s, i) = Sees(frames, i)
  BY <1>1, <1>2 DEF Sees
<1>4. s[Len(s)] = f
  BY <1>1, <1>2
<1>5. ASSUME NEW i \in 1 .. Len(s)
      PROVE  FrameFits(s[i]) /\ (s[i].previous <=> Sees(s, i - 1)) /\ (i < Len(s) => Reads(s[i]))
  <2>1. i \in 1 .. Len(frames) /\ i - 1 \in 0 .. Len(frames) - 1
    BY <1>1, <1>2
  <2>2. Sees(s, i - 1) = Sees(frames, i - 1)
    BY <1>3, <2>1
  <2>3. CASE i = Len(frames)
    BY <1>1, <1>2, <1>4, <2>2, <2>3
  <2>4. CASE i # Len(frames)
    <3>1. i < Len(frames) /\ s[i] = frames[i]
      BY <1>1, <1>2, <2>1, <2>4
    <3>2. FrameFits(frames[i]) /\ (frames[i].previous <=> Sees(frames, i - 1)) /\ Reads(frames[i])
      BY <2>1, <3>1 DEF FramesFit
    <3> QED
      BY <2>2, <3>1, <3>2
  <2> QED
    BY <2>3, <2>4
<1>6. Sees(s, Len(s) - 1) = Sees(frames, Len(frames) - 1)
  <2>1. Len(s) - 1 \in 0 .. Len(frames) - 1 /\ Len(s) - 1 = Len(frames) - 1
    BY <1>1, <1>2
  <2> QED
    BY <1>3, <2>1
<1> QED
  BY <1>2, <1>4, <1>5, <1>6 DEF FramesFit

LEMMA Left ==
  ASSUME frames \in Seq(Frame), FramesFit(frames), frames # <<>>
  PROVE  /\ Closed \in Seq(Frame) /\ Len(Closed) = Len(frames) - 1 /\ FramesFit(Closed)
         /\ Closed # <<>> => Reads(Closed[Len(Closed)])
         /\ Sees(Closed, Len(Closed)) = Sees(frames, Len(frames) - 1)
<1>1. Len(frames) \in Nat \ {0}
  BY TopFrame
<1>2. /\ Closed \in Seq(Frame) /\ Len(Closed) = Len(frames) - 1
      /\ \A i \in 1 .. Len(frames) - 1 : Closed[i] = frames[i]
  BY Shortened DEF Closed
<1>3. \A i \in 0 .. Len(frames) - 1 : Sees(Closed, i) = Sees(frames, i)
  BY <1>1, <1>2 DEF Sees
<1>4. ASSUME NEW i \in 1 .. Len(Closed)
      PROVE  FrameFits(Closed[i]) /\ (Closed[i].previous <=> Sees(Closed, i - 1)) /\ Reads(Closed[i])
  <2>1. i \in 1 .. Len(frames) - 1 /\ i \in 1 .. Len(frames) /\ i < Len(frames)
        /\ i - 1 \in 0 .. Len(frames) - 1
    BY <1>1, <1>2
  <2>2. FrameFits(frames[i]) /\ (frames[i].previous <=> Sees(frames, i - 1)) /\ Reads(frames[i])
    BY <2>1 DEF FramesFit
  <2>3. Closed[i] = frames[i] /\ Sees(Closed, i - 1) = Sees(frames, i - 1)
    BY <1>2, <1>3, <2>1
  <2> QED
    BY <2>2, <2>3
<1>5. Closed # <<>> => Len(Closed) \in 1 .. Len(Closed)
  BY <1>2
<1>6. Sees(Closed, Len(Closed)) = Sees(frames, Len(frames) - 1)
  <2>1. Len(frames) - 1 \in 0 .. Len(frames) - 1
    BY <1>1
  <2> QED
    BY <1>2, <1>3, <2>1
<1> QED
  BY <1>2, <1>4, <1>5, <1>6 DEF FramesFit

\* Where the next value belongs.
LEMMA PositionAddress ==
  ASSUME Types, FramesFit(frames)
  PROVE  Position \in Address
<1>1. CASE frames = <<>>
  BY <1>1 DEF Position, Address
<1>2. CASE frames # <<>>
  <2>1. /\ frames \in Seq(Frame) /\ Top.content \in Contents /\ Top.path \in Paths \cup {<<>>}
        /\ Top.at \in Address
    BY <1>2, TopFrame DEF Types
  <2>2. Slot(Top) \in Address
    <3>1. CASE Top.content[<<>>].kind = "array"
      <4>1. <<>> \in DOMAIN Top.content /\ Top.content[<<>>] \in Node
        <5>1. Len(frames) \in 1 .. Len(frames) /\ Top = frames[Len(frames)]
          BY <1>2, TopFrame DEF Types
        <5>2. FrameFits(Top)
          BY <5>1 DEF FramesFit
        <5>3. IsTree(Top.content)
          BY <5>2 DEF FrameFits, ValueFits, TableFits
        <5> QED
          BY <5>3 DEF IsTree
      <4>2. Top.content[<<>>].size + 1 \in Nat
        BY <4>1, NodeFields
      <4>3. <<Top.content[<<>>].size + 1>> \in Address
        BY <4>2 DEF Address
      <4> QED
        BY <3>1, <4>3 DEF Slot
    <3>2. CASE Top.content[<<>>].kind # "array"
      <4>1. Slot(Top) = Top.path /\ <<>> \in Address
        BY <3>2 DEF Slot, Address
      <4> QED
        BY <2>1, <4>1, PathAddress
    <3> QED
      BY <3>1, <3>2
  <2>3. Top.at \o Slot(Top) \in Address
    BY <2>1, <2>2, Joined
  <2> QED
    BY <1>2, <2>3 DEF Position
<1> QED
  BY <1>1, <1>2

\* What is known of the innermost container.
LEMMA TopFits ==
  ASSUME Inv, frames # <<>>
  PROVE  /\ Len(frames) \in Nat \ {0} /\ Top = frames[Len(frames)] /\ Top \in Frame
         /\ FrameFits(Top) /\ (Top.previous <=> Sees(frames, Len(frames) - 1))
         /\ Sees(frames, Len(frames)) = InArray /\ InArray = IsArray(Top)
         /\ IsTree(Top.content)
<1>1. /\ Len(frames) \in Nat \ {0} /\ Top = frames[Len(frames)] /\ Top \in Frame
      /\ frames \in Seq(Frame)
  BY TopFrame DEF Inv, Types
<1>2. FrameFits(Top) /\ (Top.previous <=> Sees(frames, Len(frames) - 1))
  <2>1. Len(frames) \in 1 .. Len(frames) /\ FramesFit(frames)
    BY <1>1 DEF Inv, Shape
  <2> QED
    BY <1>1, <2>1 DEF FramesFit
<1>3. InArray = IsArray(Top) /\ Sees(frames, Len(frames)) = IsArray(Top)
  BY <1>1 DEF InArray, IsArray, Sees
<1>4. IsTree(Top.content)
  BY <1>2 DEF FrameFits, ValueFits, TableFits
<1> QED
  BY <1>1, <1>2, <1>3, <1>4

-----------------------------------------------------------------------------
(* The steps.                                                              *)

LEMMA Initially ==
  ASSUME Init
  PROVE  Inv
<1>1. Types /\ frames = <<>> /\ doing = "value"
  <2>1. <<>> \in Seq(Frame) /\ <<>> \in Seq(Address)
    OBVIOUS
  <2> QED
    BY <2>1 DEF Init, Types
<1>2. Shape(doing, frames, parsed)
  BY <1>1, NoFrames DEF Shape
<1>3. Counts
  BY Limits DEF Init, Counts, Counted
<1>4. Breaks
  BY <1>1, NoFrames DEF Init, Breaks, BreaksAllowed
<1>5. Verdict
  BY DEF Init, Verdict
<1> QED
  BY <1>1, <1>2, <1>3, <1>4, <1>5 DEF Inv

\* An error leaves nothing open.
LEMMA EndsFits ==
  ASSUME Inv, NEW outcome \in Outcomes, Ends(outcome), clash' = (outcome = "conflict")
  PROVE  Inv'
<1>1. /\ doing' = outcome /\ frames' = <<>> /\ depth' = depth - Len(frames) /\ newlines' = TRUE
      /\ nodes' = nodes /\ said' = said
  BY DEF Ends
<1>2. depth' = 0
  BY <1>1 DEF Inv, Types, Counts, Counted
<1>3. Types'
  BY <1>1, <1>2, NoFrames DEF Inv, Types
<1>4. Shape(doing', frames', parsed')
  <2>1. doing' \notin {"value", "item", "put", "next", "done"}
    BY <1>1 DEF Outcomes
  <2> QED
    BY <1>1, <2>1, NoFrames DEF Shape
<1>5. Counts'
  BY <1>1, <1>2, NoFrames, Limits DEF Inv, Counts, Counted
<1>6. Breaks'
  BY <1>1, NoFrames DEF Breaks, BreaksAllowed
<1>7. Verdict'
  BY <1>1 DEF Verdict
<1> QED
  BY <1>3, <1>4, <1>5, <1>6, <1>7 DEF Inv

LEMMA LimitFits ==
  ASSUME Inv, Limit, doing # "conflict"
  PROVE  Inv'
<1>1. Ends("limit") /\ clash' = FALSE
  BY DEF Limit, Inv, Verdict, Types
<1>2. "limit" \in Outcomes /\ (clash' = ("limit" = "conflict"))
  BY <1>1 DEF Outcomes
<1> QED
  BY <1>1, <1>2, EndsFits

LEMMA MalformedFits ==
  ASSUME Inv, Malformed
  PROVE  Inv'
<1>1. Ends("malformed") /\ clash' = FALSE
  BY DEF Malformed, Inv, Verdict, Types
<1>2. "malformed" \in Outcomes /\ (clash' = ("malformed" = "conflict"))
  BY <1>1 DEF Outcomes
<1> QED
  BY <1>1, <1>2, EndsFits

\* A value has ended, after which the frames s are open.
LEMMA EndedFits ==
  ASSUME Inv, nodes < MaxNodes, NEW x \in Address, NEW c, ValueFits(c), NEW s, Ended(x, c, s),
         s \in Seq(Frame), FramesFit(s), s # <<>> => Reads(s[Len(s)]),
         depth' = Len(s), depth' <= MaxDepth, newlines' = Sees(s, Len(s)), newlines' \in BOOLEAN,
         clash' = FALSE
  PROVE  Inv'
<1>1. /\ parsed' = c /\ nodes' = nodes + 1 /\ said' = Append(said, x) /\ frames' = s
      /\ doing' = IF s = <<>> THEN "done" ELSE "put"
  BY DEF Ended
<1>2. said \in Seq(Address) /\ nodes \in Nat /\ nodes = Len(said) /\ Len(s) \in Nat
  BY DEF Inv, Types, Counts, Counted
<1>3. said' \in Seq(Address) /\ Len(said') = Len(said) + 1
  BY <1>1, <1>2
<1>4. Types'
  <2>1. doing' \in {"done", "put"} /\ nodes' \in Nat /\ depth' \in Nat /\ frames' \in Seq(Frame)
    BY <1>1, <1>2
  <2> QED
    BY <1>3, <2>1 DEF Types
<1>5. Shape(doing', frames', parsed')
  BY <1>1 DEF Shape
<1>6. Counts'
  <2>1. nodes' <= MaxNodes
    BY <1>1, <1>2, Limits
  <2> QED
    BY <1>1, <1>2, <1>3, <2>1 DEF Counts, Counted
<1>7. Breaks'
  BY <1>1 DEF Breaks, BreaksAllowed
<1>8. Verdict'
  BY <1>1 DEF Verdict
<1> QED
  BY <1>4, <1>5, <1>6, <1>7, <1>8 DEF Inv

LEMMA ReadScalarFits ==
  ASSUME Inv, NEW size \in Sizes, ReadScalar(size)
  PROVE  Inv'
<1>1. doing = "value"
  BY DEF ReadScalar
<1>2. CASE Limit
  BY <1>1, <1>2, LimitFits
<1>3. CASE ~ Limit
  <2>1. /\ nodes < MaxNodes /\ Ended(Position, [x \in {<<>>} |-> Leaf], frames)
        /\ depth' = depth /\ newlines' = newlines /\ clash' = clash
    BY <1>3 DEF ReadScalar
  <2>2. Position \in Address
    BY PositionAddress DEF Inv, Shape
  <2>3. ValueFits([x \in {<<>>} |-> Leaf])
    BY SealedLeaf
  <2>4. frames \in Seq(Frame) /\ FramesFit(frames) /\ (frames # <<>> => Reads(frames[Len(frames)]))
    BY <1>1 DEF Inv, Types, Shape
  <2>5. depth' = Len(frames) /\ depth' <= MaxDepth
    BY <2>1 DEF Inv, Counts, Counted
  <2>6. newlines' = Sees(frames, Len(frames)) /\ newlines' \in BOOLEAN
    BY <1>1, <2>1 DEF Inv, Types, Breaks, BreaksAllowed, Sees, IsArray
  <2>7. clash' = FALSE
    BY <1>1, <2>1 DEF Inv, Types, Verdict
  <2> QED
    BY <2>1, <2>2, <2>3, <2>4, <2>5, <2>6, <2>7, EndedFits
<1> QED
  BY <1>2, <1>3

LEMMA TooDeepFits ==
  ASSUME Inv, TooDeep
  PROVE  Inv'
  BY LimitFits DEF TooDeep

LEMMA CloseFits ==
  ASSUME Inv, Close
  PROVE  Inv'
<1>1. doing \in {"item", "next"}
  BY DEF Close, MayClose
<1>2. frames # <<>>
  BY <1>1 DEF Inv, Shape
<1>3. CASE Limit
  BY <1>1, <1>3, LimitFits
<1>4. CASE ~ Limit
  <2> DEFINE c == IF InArray THEN Top.content ELSE MarkInlineTable(Top.content)
  <2>1. /\ nodes < MaxNodes /\ Ended(Top.at, c, Closed)
        /\ depth' = depth - 1 /\ newlines' = (IF InArray THEN Top.previous ELSE newlines)
        /\ clash' = clash
    BY <1>4 DEF Close, DepthBefore
  <2>2. /\ Len(frames) \in Nat \ {0} /\ Top = frames[Len(frames)] /\ Top \in Frame
        /\ FrameFits(Top) /\ (Top.previous <=> Sees(frames, Len(frames) - 1))
        /\ Sees(frames, Len(frames)) = InArray /\ InArray = IsArray(Top)
    BY <1>2, TopFits
  <2>3. Top.at \in Address /\ Top.previous \in BOOLEAN
    BY <2>2 DEF Frame
  <2>4. ValueFits(c)
    <3>1. CASE InArray
      BY <2>2, <3>1 DEF FrameFits
    <3>2. CASE ~ InArray
      <4>1. TableFits(Top.content, Top.assigned)
        BY <2>2, <3>2 DEF FrameFits
      <4>2. /\ IsTree(Top.content) /\ Top.content[<<>>].kind = "table"
            /\ \A x \in DOMAIN Top.content : ~ Top.content[x].arrayTable
        BY <4>1 DEF TableFits
      <4> QED
        BY <3>2, <4>2, TableSealed
    <3> QED
      BY <3>1, <3>2
  <2>5. frames \in Seq(Frame) /\ FramesFit(frames)
    BY DEF Inv, Types, Shape
  <2>6. /\ Closed \in Seq(Frame) /\ Len(Closed) = Len(frames) - 1 /\ FramesFit(Closed)
        /\ Closed # <<>> => Reads(Closed[Len(Closed)])
        /\ Sees(Closed, Len(Closed)) = Sees(frames, Len(frames) - 1)
    BY <1>2, <2>5, Left
  <2>7. depth' = Len(Closed) /\ depth' <= MaxDepth
    <3>1. depth = Len(frames) /\ depth <= MaxDepth
      BY DEF Inv, Counts, Counted
    <3> QED
      BY <2>1, <2>2, <2>6, <3>1, Limits
  <2>8. newlines' = Sees(Closed, Len(Closed)) /\ newlines' \in BOOLEAN
    <3>1. Sees(Closed, Len(Closed)) \in BOOLEAN /\ newlines \in BOOLEAN
      BY DEF Sees, IsArray, Inv, Types
    <3>2. CASE InArray
      BY <2>1, <2>2, <2>3, <2>6, <3>1, <3>2
    <3>3. CASE ~ InArray
      <4>1. newlines <=> Sees(frames, Len(frames) - 1)
        BY <1>1, <1>2, <2>2, <3>3 DEF Inv, Breaks, BreaksAllowed
      <4> QED
        BY <2>1, <2>6, <3>1, <3>3, <4>1
    <3> QED
      BY <3>2, <3>3
  <2>9. clash' = FALSE
    BY <1>1, <2>1 DEF Inv, Types, Verdict
  <2> HIDE DEF c
  <2> QED
    BY <2>1, <2>3, <2>4, <2>6, <2>7, <2>8, <2>9, EndedFits
<1> QED
  BY <1>3, <1>4

\* A new frame, and one with another content.
LEMMA NewFrame ==
  ASSUME NEW c \in Contents, NEW b \in BOOLEAN, NEW x \in Address,
         NEW f, f = [content |-> c, path |-> <<>>, previous |-> b, at |-> x, assigned |-> {}]
  PROVE  /\ f \in Frame /\ f.content = c /\ f.previous = b /\ f.assigned = {}
         /\ IsArray(f) = (c[<<>>].kind = "array")
<1>1. f.content = c /\ f.previous = b /\ f.assigned = {}
  OBVIOUS
<1>2. f \in Frame
  BY DEF Frame
<1> QED
  BY <1>1, <1>2 DEF IsArray

LEMMA FrameWithContent ==
  ASSUME NEW f \in Frame, NEW c \in Contents
  PROVE  /\ [f EXCEPT !.content = c] \in Frame /\ [f EXCEPT !.content = c].content = c
         /\ [f EXCEPT !.content = c].previous = f.previous
         /\ [f EXCEPT !.content = c].path = f.path /\ [f EXCEPT !.content = c].assigned = f.assigned
  BY DEF Frame

LEMMA OpenFits ==
  ASSUME Inv, NEW n, NEW allowed \in BOOLEAN, OpenContainer(n, allowed),
         NEW c \in Contents, c = [x \in {<<>>} |-> n],
         IF n.kind = "array" THEN ValueFits(c) ELSE TableFits(c, {}),
         allowed = (n.kind = "array" \/ newlines)
  PROVE  Inv'
<1> DEFINE f == [content |-> c, path |-> <<>>, previous |-> newlines, at |-> Position,
                 assigned |-> {}]
<1>1. /\ doing = "value" /\ depth < MaxDepth /\ depth' = depth + 1 /\ frames' = Append(frames, f)
      /\ newlines' = allowed /\ doing' = "item"
      /\ parsed' = parsed /\ nodes' = nodes /\ said' = said /\ clash' = clash
  BY DEF OpenContainer
<1>2. Position \in Address
  BY PositionAddress DEF Inv, Shape
<1>3. newlines \in BOOLEAN /\ frames \in Seq(Frame) /\ FramesFit(frames)
      /\ (frames # <<>> => Reads(Top))
  BY <1>1 DEF Inv, Types, Shape, Top
<1>4. c[<<>>].kind = n.kind
  OBVIOUS
<1>5. /\ f \in Frame /\ f.content = c /\ f.previous = newlines /\ f.assigned = {}
      /\ IsArray(f) = (n.kind = "array")
  BY <1>2, <1>3, <1>4, NewFrame
<1> HIDE DEF f
<1>6. FrameFits(f)
  BY <1>5 DEF FrameFits
<1>7. f.previous <=> Sees(frames, Len(frames))
  BY <1>1, <1>3, <1>5 DEF Inv, Breaks, BreaksAllowed
<1>8. /\ frames' \in Seq(Frame) /\ frames' # <<>> /\ Len(frames') = Len(frames) + 1
      /\ frames'[Len(frames')] = f /\ FramesFit(frames')
      /\ Sees(frames', Len(frames') - 1) = Sees(frames, Len(frames))
  <2> DEFINE s == Append(frames, f)
  <2>1. s = Append(frames, f)
    OBVIOUS
  <2> HIDE DEF s
  <2>2. /\ s \in Seq(Frame) /\ s # <<>> /\ Len(s) = Len(frames) + 1
        /\ s[Len(s)] = f /\ FramesFit(s)
        /\ Sees(s, Len(s) - 1) = Sees(frames, Len(frames))
    BY <1>3, <1>5, <1>6, <1>7, <2>1, Pushed
  <2>3. frames' = s
    BY <1>1, <2>1
  <2> QED
    BY <2>2, <2>3
<1>9. Types'
  <2>1. depth' \in Nat /\ nodes' \in Nat /\ said' \in Seq(Address) /\ clash' \in BOOLEAN
    BY <1>1 DEF Inv, Types
  <2> QED
    BY <1>1, <1>8, <2>1 DEF Types
<1>10. Shape(doing', frames', parsed')
  BY <1>1, <1>8 DEF Shape
<1>11. Counts'
  <2>1. depth = Len(frames) /\ depth \in Nat /\ nodes = Len(said) /\ nodes <= MaxNodes
    BY DEF Inv, Types, Counts, Counted
  <2>2. depth' <= MaxDepth
    BY <1>1, <2>1, Limits
  <2> QED
    BY <1>1, <1>8, <2>1, <2>2 DEF Counts, Counted
<1>12. Breaks'
  <2>1. CASE n.kind = "array"
    <3>1. Sees(frames', Len(frames')) /\ IsArray(frames'[Len(frames')]) /\ newlines'
      BY <1>1, <1>5, <1>8, <2>1 DEF Sees
    <3> QED
      BY <1>8, <3>1 DEF Breaks, BreaksAllowed
  <2>2. CASE n.kind # "array"
    <3>1. ~ IsArray(frames'[Len(frames')]) /\ newlines' = newlines
      BY <1>1, <1>3, <1>5, <1>8, <2>2
    <3>2. newlines <=> Sees(frames', Len(frames') - 1)
      BY <1>5, <1>7, <1>8
    <3> QED
      BY <1>1, <1>8, <3>1, <3>2 DEF Breaks, BreaksAllowed
  <2> QED
    BY <2>1, <2>2
<1>13. Verdict'
  BY <1>1 DEF Inv, Verdict
<1> QED
  BY <1>9, <1>10, <1>11, <1>12, <1>13 DEF Inv

LEMMA OpenArrayFits ==
  ASSUME Inv, OpenArray
  PROVE  Inv'
<1> DEFINE c == [x \in {<<>>} |-> Array(0)]
<1>1. OpenContainer(Array(0), TRUE) /\ Array(0).kind = "array"
  BY DEF OpenArray, Array, ArrayTable
<1>2. ValueFits(c) /\ c \in Contents
  BY EmptyArray
<1>3. c = [x \in {<<>>} |-> Array(0)]
  OBVIOUS
<1> HIDE DEF c
<1> QED
  BY <1>1, <1>2, <1>3, OpenFits

LEMMA OpenTableFits ==
  ASSUME Inv, OpenTable
  PROVE  Inv'
<1> DEFINE c == [x \in {<<>>} |-> Table("implicit")]
<1>1. OpenContainer(Table("implicit"), newlines) /\ Table("implicit").kind = "table"
  BY DEF OpenTable, Table
<1>2. TableFits(c, {}) /\ c \in Contents
  BY EmptyTable
<1>3. c = [x \in {<<>>} |-> Table("implicit")] /\ newlines \in BOOLEAN
  BY DEF Inv, Types
<1> HIDE DEF c
<1> QED
  BY <1>1, <1>2, <1>3, OpenFits

\* The text goes on in the same container.
LEMMA GoesFits ==
  ASSUME Inv, doing # "conflict", NEW d \in {"value", "item", "next"}, Goes(d), clash' = FALSE,
         NEW s, frames' = s, s \in Seq(Frame), Len(s) = Len(frames), s # <<>>, FramesFit(s),
         d = "value" => Reads(s[Len(s)]),
         newlines' = BreaksAllowed(d, s), newlines' \in BOOLEAN
  PROVE  Inv'
<1>1. doing' = d /\ depth' = depth /\ nodes' = nodes /\ said' = said
  BY DEF Goes
<1>2. Types'
  <2>1. doing' \in {"value", "item", "put", "next", "done"} \cup Outcomes
    BY <1>1
  <2> QED
    BY <1>1, <2>1 DEF Inv, Types
<1>3. Shape(doing', frames', parsed')
  BY <1>1 DEF Shape
<1>4. Counts'
  BY <1>1 DEF Inv, Counts, Counted
<1>5. Breaks'
  BY <1>1 DEF Breaks
<1>6. Verdict'
  BY <1>1 DEF Verdict
<1> QED
  BY <1>2, <1>3, <1>4, <1>5, <1>6 DEF Inv

LEMMA CommaFits ==
  ASSUME Inv, Comma
  PROVE  Inv'
<1>1. doing = "next" /\ Goes("item") /\ frames' = frames /\ newlines' = newlines /\ clash' = clash
  BY DEF Comma
<1>2. frames \in Seq(Frame) /\ frames # <<>> /\ FramesFit(frames) /\ clash' = FALSE
  BY <1>1 DEF Inv, Types, Shape, Verdict
<1>3. newlines' = BreaksAllowed("item", frames) /\ newlines' \in BOOLEAN
  BY <1>1 DEF Inv, Types, Breaks, BreaksAllowed, Sees, IsArray
<1> QED
  BY <1>1, <1>2, <1>3, GoesFits

LEMMA ElementGoes ==
  ASSUME Inv, Element
  PROVE  Inv'
<1>1. doing = "item" /\ InArray /\ Goes("value") /\ frames' = frames /\ newlines' = newlines
      /\ clash' = clash
  BY DEF Element
<1>2. frames \in Seq(Frame) /\ frames # <<>> /\ FramesFit(frames) /\ clash' = FALSE
  BY <1>1 DEF Inv, Types, Shape, Verdict
<1>3. IsArray(frames[Len(frames)])
  BY <1>1, <1>2, TopFits
<1>4. Reads(frames[Len(frames)])
  BY <1>3 DEF Reads
<1>5. newlines' = BreaksAllowed("value", frames) /\ newlines' \in BOOLEAN
  BY <1>1, <1>2, <1>3 DEF Inv, Types, Breaks, BreaksAllowed, Sees, IsArray
<1> QED
  BY <1>1, <1>2, <1>4, <1>5, GoesFits

LEMMA PutElementFits ==
  ASSUME Inv, PutElement
  PROVE  Inv'
<1>1. doing = "put" /\ InArray
  BY DEF PutElement
<1>2. frames \in Seq(Frame) /\ frames # <<>> /\ FramesFit(frames) /\ ValueFits(parsed)
  BY <1>1 DEF Inv, Types, Shape
<1>3. CASE Limit
  BY <1>1, <1>3, LimitFits
<1>4. CASE ~ Limit
  <2> DEFINE c == WithElement(Top.content, parsed)
             f == [Top EXCEPT !.content = c]
             s == Replaced(f)
  <2>1. /\ Top.content[<<>>].kind = "array" /\ Goes("next")
        /\ newlines' = newlines /\ clash' = clash /\ clash' = FALSE
    BY <1>1, <1>4 DEF PutElement, InArray, Inv, Types, Verdict
  <2>2. Slot(Top) = <<Top.content[<<>>].size + 1>>
    BY <2>1 DEF Slot
  <2>3. frames' = s
    BY <1>4, <2>2 DEF PutElement, WithElement
  <2>4. /\ Top \in Frame /\ FrameFits(Top) /\ (Top.previous <=> Sees(frames, Len(frames) - 1))
        /\ IsArray(Top) /\ Sees(frames, Len(frames))
    BY <1>1, <1>2, TopFits
  <2>5. Top.content \in Contents /\ ValueFits(Top.content)
    BY <2>4 DEF Frame, FrameFits
  <2>6. ValueFits(c) /\ c \in Contents /\ c[<<>>].kind = "array"
    BY <1>2, <2>1, <2>5, ElementFits
  <2> HIDE DEF c
  <2>7. f \in Frame /\ f.content = c /\ f.previous = Top.previous
    BY <2>4, <2>6, FrameWithContent
  <2> HIDE DEF f
  <2>8. FrameFits(f) /\ IsArray(f)
    BY <2>6, <2>7 DEF FrameFits, IsArray
  <2>9. f.previous <=> Sees(frames, Len(frames) - 1)
    BY <2>4, <2>7
  <2>10. s = Replaced(f)
    OBVIOUS
  <2> HIDE DEF s
  <2>11. /\ s \in Seq(Frame) /\ s # <<>> /\ Len(s) = Len(frames) /\ s[Len(s)] = f
         /\ FramesFit(s)
    BY <1>2, <2>7, <2>8, <2>9, <2>10, Changed
  <2>12. newlines' = BreaksAllowed("next", s) /\ newlines' \in BOOLEAN
    <3>1. newlines = TRUE
      BY <1>1, <2>4 DEF Inv, Types, Breaks, BreaksAllowed
    <3>2. BreaksAllowed("next", s) = TRUE
      BY <2>8, <2>11 DEF BreaksAllowed, Sees, IsArray
    <3> QED
      BY <2>1, <3>1, <3>2
  <2> QED
    BY <1>1, <2>1, <2>3, <2>11, <2>12, GoesFits
<1> QED
  BY <1>3, <1>4

LEMMA KeyFits ==
  ASSUME Inv, NEW p \in Paths, Key(p)
  PROVE  Inv'
<1>1. doing = "item" /\ ~ InArray
  BY DEF Key
<1>2. frames \in Seq(Frame) /\ frames # <<>> /\ FramesFit(frames)
  BY <1>1 DEF Inv, Types, Shape
<1>3. CASE Limit
  BY <1>1, <1>3, LimitFits
<1>4. CASE ~ Limit
  <2> DEFINE f == [Top EXCEPT !.path = p, !.previous = newlines]
             s == Replaced(f)
  <2>1. /\ frames' = s /\ newlines' = FALSE /\ Goes("value") /\ clash' = FALSE
    BY <1>1, <1>4 DEF Key, Inv, Types, Verdict
  <2>2. /\ Len(frames) \in Nat \ {0} /\ Top = frames[Len(frames)]
        /\ Top \in Frame /\ FrameFits(Top) /\ ~ IsArray(Top) /\ newlines \in BOOLEAN
    BY <1>1, <1>2, TopFits DEF Inv, Types
  <2>3. f \in Frame /\ f.content = Top.content /\ f.assigned = Top.assigned /\ f.path = p
        /\ f.previous = newlines
    <3>1. Top \in Frame
      BY <2>2
    <3>2. newlines \in BOOLEAN
      BY <2>2
    <3> QED
      BY <3>1, <3>2 DEF Frame
  <2> HIDE DEF f
  <2>4. FrameFits(f) /\ ~ IsArray(f) /\ Reads(f)
    BY <2>2, <2>3 DEF FrameFits, IsArray, Reads
  <2>5. f.previous <=> Sees(frames, Len(frames) - 1)
    BY <1>1, <1>2, <2>2, <2>3 DEF Inv, Breaks, BreaksAllowed
  <2>6. s = Replaced(f)
    OBVIOUS
  <2> HIDE DEF s
  <2>7. /\ s \in Seq(Frame) /\ s # <<>> /\ Len(s) = Len(frames) /\ s[Len(s)] = f
        /\ FramesFit(s)
    BY <1>2, <2>3, <2>4, <2>5, <2>6, Changed
  <2>8. newlines' = BreaksAllowed("value", s) /\ newlines' \in BOOLEAN
    <3>1. BreaksAllowed("value", s) = FALSE
      BY <2>2, <2>4, <2>7 DEF BreaksAllowed, Sees, IsArray
    <3> QED
      BY <2>1, <3>1
  <2>9. Reads(s[Len(s)])
    BY <2>4, <2>7
  <2> QED
    BY <1>1, <2>1, <2>7, <2>8, <2>9, GoesFits
<1> QED
  BY <1>3, <1>4

LEMMA PutMemberFits ==
  ASSUME Inv, PutMember
  PROVE  Inv'
<1> DEFINE p == Top.path
           conflicts == \E q \in Top.assigned : StartsWith(q, p) \/ StartsWith(p, q)
<1>1. doing = "put" /\ ~ InArray /\ clash' = conflicts
  BY DEF PutMember
<1>2. frames \in Seq(Frame) /\ frames # <<>> /\ FramesFit(frames) /\ ValueFits(parsed)
      /\ Reads(frames[Len(frames)])
  BY <1>1 DEF Inv, Types, Shape
<1>3. /\ Top = frames[Len(frames)] /\ Top \in Frame /\ FrameFits(Top) /\ ~ IsArray(Top)
      /\ (Top.previous <=> Sees(frames, Len(frames) - 1)) /\ Len(frames) \in Nat \ {0}
  BY <1>1, <1>2, TopFits
<1>4. p \in Paths /\ Top.assigned \in SUBSET Paths /\ Top.previous \in BOOLEAN
  BY <1>2, <1>3 DEF Reads, Frame
<1>5. TableFits(Top.content, Top.assigned)
  BY <1>3 DEF FrameFits
<1>6. Inserts(Top.content, p) <=> ~ conflicts
  BY <1>4, <1>5, InsertsExactly
<1>7. CASE ~ Inserts(Top.content, p)
  <2>1. Ends("conflict")
    BY <1>7 DEF PutMember
  <2>2. clash' = TRUE
    BY <1>1, <1>6, <1>7
  <2>3. "conflict" \in Outcomes /\ clash' = ("conflict" = "conflict")
    BY <2>2 DEF Outcomes
  <2> QED
    BY <2>1, <2>3, EndsFits
<1>8. CASE Inserts(Top.content, p)
  <2> DEFINE c == Graft(WithWay(Top.content, p), p, parsed)
             a == Top.assigned \cup {p}
             f == [Top EXCEPT !.content = c, !.assigned = a]
             s == Replaced(f)
  <2>1. clash' = FALSE
    BY <1>1, <1>6, <1>8
  <2>2. frames' = s /\ newlines' = Top.previous /\ Goes("next")
    BY <1>8 DEF PutMember, NewlinesAfter
  <2>3. TableFits(c, a) /\ c \in Contents
    BY <1>2, <1>4, <1>5, <1>8, MemberFits
  <2>4. a \in SUBSET Paths
    BY <1>4
  <2> HIDE DEF c, a, p, conflicts
  <2>5. f \in Frame /\ f.content = c /\ f.assigned = a /\ f.previous = Top.previous
    <3>1. Top \in Frame
      BY <1>3
    <3>2. c \in Contents
      BY <2>3
    <3> QED
      BY <2>4, <3>1, <3>2 DEF Frame
  <2> HIDE DEF f
  <2>6. FrameFits(f) /\ ~ IsArray(f)
    BY <2>3, <2>5 DEF FrameFits, IsArray, TableFits
  <2>7. f.previous <=> Sees(frames, Len(frames) - 1)
    BY <1>3, <2>5
  <2>8. s = Replaced(f)
    OBVIOUS
  <2> HIDE DEF s
  <2>9. /\ s \in Seq(Frame) /\ s # <<>> /\ Len(s) = Len(frames) /\ s[Len(s)] = f
        /\ FramesFit(s) /\ Sees(s, Len(s) - 1) = Sees(frames, Len(frames) - 1)
    BY <1>2, <2>5, <2>6, <2>7, <2>8, Changed
  <2>10. newlines' = BreaksAllowed("next", s) /\ newlines' \in BOOLEAN
    <3>1. BreaksAllowed("next", s) = Sees(s, Len(s) - 1) /\ Sees(s, Len(s) - 1) \in BOOLEAN
      BY <2>6, <2>9 DEF BreaksAllowed, Sees, IsArray
    <3> QED
      BY <1>3, <1>4, <2>2, <2>9, <3>1
  <2> QED
    BY <1>1, <2>1, <2>2, <2>9, <2>10, GoesFits
<1> QED
  BY <1>7, <1>8

LEMMA Step ==
  ASSUME Inv, [Next]_vars
  PROVE  Inv'
<1>1. CASE UNCHANGED vars
  BY <1>1 DEF vars, Inv, Types, Shape, Counts, Counted, Breaks, Verdict
<1>2. CASE TooDeep
  BY <1>2, TooDeepFits
<1>3. ASSUME NEW size \in Sizes, ReadScalar(size) PROVE Inv'
  BY <1>3, ReadScalarFits
<1>4. CASE OpenArray
  BY <1>4, OpenArrayFits
<1>5. CASE OpenTable
  BY <1>5, OpenTableFits
<1>6. CASE Close
  BY <1>6, CloseFits
<1>7. CASE Element
  BY <1>7, ElementGoes
<1>8. CASE PutElement
  BY <1>8, PutElementFits
<1>9. ASSUME NEW p \in Paths, Key(p) PROVE Inv'
  BY <1>9, KeyFits
<1>10. CASE PutMember
  BY <1>10, PutMemberFits
<1>11. CASE Comma
  BY <1>11, CommaFits
<1>12. CASE Malformed
  BY <1>12, MalformedFits
<1> QED
  BY <1>1, <1>2, <1>3, <1>4, <1>5, <1>6, <1>7, <1>8, <1>9, <1>10, <1>11, <1>12 DEF Next

-----------------------------------------------------------------------------
(* The theorems.                                                           *)

\* The containers that are open, what has been read and the flags fit together in
\* every reachable state of the parser.
THEOREM Invariance == Spec => []Inv
<1>1. Init => Inv
  BY Initially
<1>2. Inv /\ [Next]_vars => Inv'
  BY Step
<1> QED
  BY <1>1, <1>2, PTL DEF Spec

\* Every content is a tree, and no std::get of insertValueAt() finds another
\* alternative than a table, however members and elements are nested.
THEOREM Typing == Spec => []TypeOK
<1>1. Inv => TypeOK
  <2> SUFFICES ASSUME Inv PROVE TypeOK
    OBVIOUS
  <2>1. ASSUME NEW i \in 1 .. Len(frames)
        PROVE  /\ IsTree(frames[i].content) /\ frames[i].content[<<>>].kind # "leaf"
               /\ frames[i].path \in Paths \cup {<<>>} /\ frames[i].previous \in BOOLEAN
    <3>1. FrameFits(frames[i])
      BY DEF Inv, Shape, FramesFit
    <3>2. frames[i] \in Frame
      BY DEF Inv, Types
    <3>3. IsTree(frames[i].content) /\ frames[i].content[<<>>].kind # "leaf"
      BY <3>1 DEF FrameFits, IsArray, ValueFits, TableFits
    <3> QED
      BY <3>2, <3>3 DEF Frame
  <2>2. doing \in {"put", "done"} => IsTree(parsed)
    BY DEF Inv, Shape, ValueFits
  <2>3. depth \in 0 .. MaxDepth /\ nodes \in 0 .. MaxNodes
    BY Limits DEF Inv, Types, Counts
  <2>4. /\ doing \in {"value", "item", "put", "next", "done", "limit", "conflict", "malformed"}
        /\ newlines \in BOOLEAN /\ clash \in BOOLEAN /\ said \in Seq(Address)
    BY DEF Inv, Types, Outcomes
  <2> QED
    BY <2>1, <2>2, <2>3, <2>4 DEF TypeOK
<1> QED
  BY <1>1, Invariance, PTL

\* insertValueAt() refuses a member exactly when its path and that of an earlier
\* member conflict: for any key paths, in any order.
THEOREM Conflicts == Spec => []ConflictsExact
<1>1. Inv => ConflictsExact
  BY DEF Inv, Verdict, ConflictsExact
<1> QED
  BY <1>1, Invariance, PTL

\* A value that is accepted is sealed where it is inline, and nowhere else.
THEOREM Sealing == Spec => []Sealed
<1>1. Inv => Sealed
  <2> SUFFICES ASSUME Inv, doing = "done"
               PROVE  /\ IsValue([content |-> parsed, count |-> nodes, depth |-> depth])
                      /\ \A x \in DOMAIN parsed :
                           /\ parsed[x].inline <=> \E y \in Prefixes(x) : parsed[y].kind = "table"
                           /\ parsed[x].inline <=> parsed[x].definition = "inline_table"
    BY DEF Sealed
  <2>1. IsTree(parsed) /\ SealedNodes(parsed) /\ nodes \in Nat /\ depth \in Nat
    BY DEF Inv, Types, Shape, ValueFits
  <2>2. ASSUME NEW x \in DOMAIN parsed
        PROVE  InTable(parsed, x) <=> \E y \in Prefixes(x) : parsed[y].kind = "table"
    BY DEF InTable, Prefixes
  <2>3. ASSUME NEW x \in DOMAIN parsed, parsed[x].kind = "table" PROVE parsed[x].inline
    <3>1. Len(x) \in 0 .. Len(x) /\ SubSeq(x, 1, Len(x)) = x
      BY <2>1, TreeFields, AddressLength, WholePrefix
    <3>2. InTable(parsed, x)
      BY <2>3, <3>1 DEF InTable
    <3> QED
      BY <2>1, <3>2 DEF SealedNodes
  <2>4. IsValue([content |-> parsed, count |-> nodes, depth |-> depth])
    BY <2>1, <2>3 DEF IsValue, SealedNodes
  <2> QED
    BY <2>1, <2>2, <2>4 DEF SealedNodes
<1> QED
  BY <1>1, Invariance, PTL

\* allow_newlines_ is what the innermost container calls for, whatever has been read
\* and left before.
THEOREM BreaksInArrays == Spec => []LineBreaks
<1>1. Inv => LineBreaks
  <2> SUFFICES ASSUME Inv, doing = "value" PROVE newlines = (frames = <<>> \/ InArray)
    BY DEF LineBreaks
  <2>1. newlines = Sees(frames, Len(frames))
    BY DEF Inv, Types, Breaks, BreaksAllowed, Sees, IsArray
  <2>2. CASE frames = <<>>
    BY <2>1, <2>2, NoFrames
  <2>3. CASE frames # <<>>
    <3>1. newlines = InArray /\ InArray \in BOOLEAN
      BY <2>1, <2>3, TopFits DEF InArray
    <3> QED
      BY <2>3, <3>1
  <2> QED
    BY <2>2, <2>3
<1> QED
  BY <1>1, Invariance, PTL

\* ParseContext counts a level for each container that is open and a node for each
\* value that has ended, and neither exceeds its limit.
THEOREM Counting == Spec => [](Counted /\ depth <= MaxDepth /\ nodes <= MaxNodes)
<1>1. Inv => Counted /\ depth <= MaxDepth /\ nodes <= MaxNodes
  BY DEF Inv, Counts
<1> QED
  BY <1>1, Invariance, PTL

-----------------------------------------------------------------------------
(* Nothing is lost: where the values of the text have come to.             *)

\* The addresses D, taken from x, and all that leads to the addresses S.
At(x, D) == {x \o y : y \in D}
Ways(S) == UNION {Prefixes(x) : x \in S}

\* Of the frames s: where the next value belongs, that each is where the one around
\* it reads a value, what is in them and where.
PositionIn(s) == IF s = <<>> THEN <<>> ELSE s[Len(s)].at \o Slot(s[Len(s)])
Chained(s) == \A i \in 1 .. Len(s) : s[i].at = IF i = 1 THEN <<>> ELSE s[i - 1].at \o Slot(s[i - 1])
Held(s) == UNION {At(s[i].at, DOMAIN s[i].content) : i \in 1 .. Len(s)}
Roots(s) == {s[i].at : i \in 1 .. Len(s)}

\* All but tables, and what the frame is itself, have been counted.
FrameCounted(f, S) ==
  \A x \in DOMAIN f.content \ {<<>>} : f.content[x].kind # "table" => f.at \o x \in S

\* The value that has just been read, of content c, is at x.
ValueCounted(x, c, S) ==
  x \in S /\ \A y \in DOMAIN c : c[y].kind # "table" => x \o y \in S

\* Of the addresses S that have been said: but for what leads to open containers,
\* they and their ways are what is there; and while a value of content c is still to
\* be put, but for what leads to it.
Balanced(s, S) ==
  /\ Chained(s) /\ \A i \in 1 .. Len(s) : FrameCounted(s[i], S)
  /\ Held(s) \cup Ways(Roots(s)) = Ways(S) \cup Ways(Roots(s))

BalancedWith(s, c, S) ==
  /\ Chained(s) /\ \A i \in 1 .. Len(s) : FrameCounted(s[i], S)
  /\ ValueCounted(PositionIn(s), c, S)
  /\ LET R == Ways(Roots(s) \cup {PositionIn(s)})
     IN Held(s) \cup At(PositionIn(s), DOMAIN c) \cup R = Ways(S) \cup R

LEMMA JoinedTwice ==
  ASSUME NEW x \in Address, NEW y \in Address, NEW z \in Address
  PROVE  (x \o y) \o z = x \o (y \o z)
<1> DEFINE a == (x \o y) \o z
           b == x \o (y \o z)
<1>1. Len(x) \in Nat /\ Len(y) \in Nat /\ Len(z) \in Nat
  BY AddressLength
<1>2. /\ x \o y \in Address /\ Len(x \o y) = Len(x) + Len(y)
      /\ \A i \in 1 .. Len(x) + Len(y) : (x \o y)[i] = IF i <= Len(x) THEN x[i] ELSE y[i - Len(x)]
  BY Joined
<1>3. /\ y \o z \in Address /\ Len(y \o z) = Len(y) + Len(z)
      /\ \A i \in 1 .. Len(y) + Len(z) : (y \o z)[i] = IF i <= Len(y) THEN y[i] ELSE z[i - Len(y)]
  BY Joined
<1>4. /\ a \in Address /\ Len(a) = Len(x \o y) + Len(z)
      /\ \A i \in 1 .. Len(x \o y) + Len(z) :
           a[i] = IF i <= Len(x \o y) THEN (x \o y)[i] ELSE z[i - Len(x \o y)]
  BY <1>2, Joined
<1>5. /\ b \in Address /\ Len(b) = Len(x) + Len(y \o z)
      /\ \A i \in 1 .. Len(x) + Len(y \o z) :
           b[i] = IF i <= Len(x) THEN x[i] ELSE (y \o z)[i - Len(x)]
  BY <1>3, Joined
<1> HIDE DEF a, b
<1>6. Len(a) = Len(b)
  BY <1>1, <1>2, <1>3, <1>4, <1>5
<1>7. ASSUME NEW i \in 1 .. Len(a) PROVE a[i] = b[i]
  <2>1. i \in 1 .. Len(x \o y) + Len(z) /\ i \in 1 .. Len(x) + Len(y \o z)
    BY <1>4, <1>5, <1>6
  <2>2. CASE i <= Len(x)
    <3>1. i \in 1 .. Len(x) + Len(y) /\ i <= Len(x \o y)
      BY <1>1, <1>2, <2>1, <2>2
    <3> QED
      BY <1>2, <1>4, <1>5, <2>1, <2>2, <3>1
  <2>3. CASE ~ (i <= Len(x)) /\ i <= Len(x) + Len(y)
    <3>1. i \in 1 .. Len(x) + Len(y) /\ i <= Len(x \o y) /\ i - Len(x) \in 1 .. Len(y) + Len(z)
          /\ i - Len(x) <= Len(y)
      BY <1>1, <1>2, <2>1, <2>3
    <3> QED
      BY <1>2, <1>3, <1>4, <1>5, <2>1, <2>3, <3>1
  <2>4. CASE ~ (i <= Len(x) + Len(y))
    <3>1. /\ ~ (i <= Len(x)) /\ ~ (i <= Len(x \o y)) /\ i - Len(x) \in 1 .. Len(y) + Len(z)
          /\ ~ (i - Len(x) <= Len(y)) /\ (i - Len(x)) - Len(y) = i - (Len(x) + Len(y))
      BY <1>1, <1>2, <2>1, <2>4
    <3> QED
      BY <1>2, <1>3, <1>4, <1>5, <2>1, <3>1
  <2> QED
    BY <2>2, <2>3, <2>4
<1>8. a = b
  BY <1>4, <1>5, <1>6, <1>7, Same
<1> QED
  BY <1>8 DEF a, b

LEMMA AtJoined ==
  ASSUME NEW x \in Address, NEW y \in Address, NEW D \in SUBSET Address
  PROVE  At(x, At(y, D)) = At(x \o y, D)
<1>1. ASSUME NEW z \in D PROVE (x \o y) \o z = x \o (y \o z)
  <2>1. z \in Address
    OBVIOUS
  <2> QED
    BY <2>1, JoinedTwice
<1>2. At(x, At(y, D)) = {x \o (y \o z) : z \in D}
  BY DEF At
<1> QED
  BY <1>1, <1>2 DEF At

\* What leads to a joined address leads to its first part or on from there.
LEMMA PrefixesJoined ==
  ASSUME NEW x \in Address, NEW y \in Address
  PROVE  Prefixes(x \o y) = Prefixes(x) \cup At(x, Prefixes(y))
<1>1. Len(x) \in Nat /\ Len(y) \in Nat /\ Len(x \o y) = Len(x) + Len(y)
  BY AddressLength, Joined
<1>2. \A i \in 0 .. Len(x) + Len(y) :
        SubSeq(x \o y, 1, i) =
          IF i <= Len(x) THEN SubSeq(x, 1, i) ELSE x \o SubSeq(y, 1, i - Len(x))
  BY PrefixOfJoined
<1>3. ASSUME NEW z \in Prefixes(x \o y) PROVE z \in Prefixes(x) \cup At(x, Prefixes(y))
  <2>1. PICK i \in 0 .. Len(x) + Len(y) : z = SubSeq(x \o y, 1, i)
    BY <1>1 DEF Prefixes
  <2>2. CASE i <= Len(x)
    <3>1. i \in 0 .. Len(x) /\ z = SubSeq(x, 1, i)
      BY <1>1, <1>2, <2>1, <2>2
    <3> QED
      BY <3>1 DEF Prefixes
  <2>3. CASE ~ (i <= Len(x))
    <3>1. i - Len(x) \in 0 .. Len(y) /\ z = x \o SubSeq(y, 1, i - Len(x))
      BY <1>1, <1>2, <2>1, <2>3
    <3> QED
      BY <3>1 DEF Prefixes, At
  <2> QED
    BY <2>2, <2>3
<1>4. ASSUME NEW i \in 0 .. Len(x) PROVE SubSeq(x, 1, i) \in Prefixes(x \o y)
  <2>1. i \in 0 .. Len(x) + Len(y) /\ i <= Len(x)
    BY <1>1
  <2>2. SubSeq(x, 1, i) = SubSeq(x \o y, 1, i)
    BY <1>2, <2>1
  <2> QED
    BY <1>1, <2>1, <2>2 DEF Prefixes
<1>5. ASSUME NEW i \in 0 .. Len(y) PROVE x \o SubSeq(y, 1, i) \in Prefixes(x \o y)
  <2>1. CASE i = 0
    <3>1. SubSeq(y, 1, i) = <<>> /\ x \o <<>> = x
      BY <2>1, SubSeqEmpty, JoinedRoot
    <3>2. SubSeq(x, 1, Len(x)) = x /\ Len(x) \in 0 .. Len(x)
      BY <1>1, WholePrefix
    <3> QED
      BY <1>4, <3>1, <3>2
  <2>2. CASE i # 0
    <3>1. Len(x) + i \in 0 .. Len(x) + Len(y) /\ ~ (Len(x) + i <= Len(x)) /\ (Len(x) + i) - Len(x) = i
      BY <1>1, <2>2
    <3>2. SubSeq(x \o y, 1, Len(x) + i) = x \o SubSeq(y, 1, i)
      BY <1>2, <3>1
    <3> QED
      BY <1>1, <3>1, <3>2 DEF Prefixes
  <2> QED
    BY <2>1, <2>2
<1>6. Prefixes(x) \subseteq Prefixes(x \o y)
  <2>1. \A z \in Prefixes(x) : \E i \in 0 .. Len(x) : z = SubSeq(x, 1, i)
    BY DEF Prefixes
  <2> QED
    BY <1>4, <2>1
<1>7. At(x, Prefixes(y)) \subseteq Prefixes(x \o y)
  <2>1. \A z \in At(x, Prefixes(y)) : \E i \in 0 .. Len(y) : z = x \o SubSeq(y, 1, i)
    BY DEF Prefixes, At
  <2> QED
    BY <1>5, <2>1
<1> QED
  BY <1>3, <1>6, <1>7

\* An address, and the root, are among what leads to it.
LEMMA PrefixesEnds ==
  ASSUME NEW x \in Address
  PROVE  x \in Prefixes(x) /\ <<>> \in Prefixes(x)
<1>1. Len(x) \in 0 .. Len(x) /\ 0 \in 0 .. Len(x) /\ SubSeq(x, 1, Len(x)) = x /\ SubSeq(x, 1, 0) = <<>>
  BY AddressLength, WholePrefix, SubSeqEmpty
<1> QED
  BY <1>1 DEF Prefixes

LEMMA PrefixesOfPath ==
  ASSUME NEW p \in Paths
  PROVE  Prefixes(p) = {<<>>, p} \cup Way(p)
<1>1. Len(p) \in Nat
  BY PathAddress, AddressLength
<1>2. SubSeq(p, 1, Len(p)) = p /\ SubSeq(p, 1, 0) = <<>>
  BY PathAddress, WholePrefix, SubSeqEmpty
<1>3. \A i : i \in 0 .. Len(p) <=> i = 0 \/ i = Len(p) \/ i \in 1 .. Len(p) - 1
  BY <1>1
<1>4. \A z : z \in Prefixes(p) <=> \E i : i \in 0 .. Len(p) /\ z = SubSeq(p, 1, i)
  BY DEF Prefixes
<1>5. \A z : z \in Way(p) <=> \E i : i \in 1 .. Len(p) - 1 /\ z = SubSeq(p, 1, i)
  BY DEF Way
<1>6. \A z : z \in Prefixes(p) <=> z = <<>> \/ z = p \/ z \in Way(p)
  BY <1>2, <1>3, <1>4, <1>5
<1> QED
  BY <1>6

LEMMA PrefixesOfIndex ==
  ASSUME NEW k \in Nat
  PROVE  Prefixes(<<k>>) = {<<>>, <<k>>} /\ <<k>> \in Address
<1>1. <<k>> \in Address /\ Len(<<k>>) = 1
  BY DEF Address
<1> DEFINE x == <<k>>
<1>2. x \in Address /\ Len(x) = 1
  BY <1>1
<1> HIDE DEF x
<1>3. SubSeq(x, 1, 1) = x /\ SubSeq(x, 1, 0) = <<>>
  BY <1>2, WholePrefix, SubSeqEmpty
<1>4. ASSUME NEW z \in Prefixes(x) PROVE z \in {<<>>, x}
  <2>1. PICK i \in 0 .. 1 : z = SubSeq(x, 1, i)
    BY <1>2 DEF Prefixes
  <2>2. i = 0 \/ i = 1
    OBVIOUS
  <2> QED
    BY <1>3, <2>1, <2>2
<1>5. x \in Prefixes(x) /\ <<>> \in Prefixes(x)
  BY <1>2, PrefixesEnds
<1>6. Prefixes(x) = {<<>>, x}
  BY <1>4, <1>5
<1> QED
  BY <1>1, <1>6 DEF x

\* With one frame more.
Longest(u, s, f, S) ==
  /\ Held(u) = Held(s) \cup At(f.at, DOMAIN f.content)
  /\ Roots(u) = Roots(s) \cup {f.at}
  /\ Chained(u) <=> Chained(s) /\ f.at = PositionIn(s)
  /\ PositionIn(u) = f.at \o Slot(f)
  /\ (\A i \in 1 .. Len(u) : FrameCounted(u[i], S)) <=>
       FrameCounted(f, S) /\ \A i \in 1 .. Len(s) : FrameCounted(s[i], S)

LEMMA OneMore ==
  ASSUME NEW s \in Seq(Frame), NEW f \in Frame, NEW u, u = Append(s, f), NEW S
  PROVE  Longest(u, s, f, S)
<1> DEFINE n == Len(s)
<1>1. /\ n \in Nat /\ Len(u) = n + 1 /\ u # <<>> /\ u[n + 1] = f
      /\ \A i \in 1 .. n : u[i] = s[i]
  BY AppendProperties
<1>2. n = 0 <=> s = <<>>
  OBVIOUS
<1> HIDE DEF n
<1>3. \A i : i \in 1 .. n + 1 <=> i \in 1 .. n \/ i = n + 1
  BY <1>1
<1>4. Held(u) = Held(s) \cup At(f.at, DOMAIN f.content)
  BY <1>1, <1>3 DEF Held, n
<1>5. Roots(u) = Roots(s) \cup {f.at}
  BY <1>1, <1>3 DEF Roots, n
<1>6. PositionIn(u) = f.at \o Slot(f)
  BY <1>1 DEF PositionIn
<1>7. Chained(u) <=> Chained(s) /\ f.at = PositionIn(s)
  <2> DEFINE InU(i) == u[i].at = IF i = 1 THEN <<>> ELSE u[i - 1].at \o Slot(u[i - 1])
             InS(i) == s[i].at = IF i = 1 THEN <<>> ELSE s[i - 1].at \o Slot(s[i - 1])
  <2>1. ASSUME NEW i \in 1 .. n PROVE InU(i) <=> InS(i)
    <3>1. i = 1 \/ i - 1 \in 1 .. n
      BY <1>1
    <3> QED
      BY <1>1, <3>1
  <2>2. InU(n + 1) <=> f.at = PositionIn(s)
    <3>1. n + 1 = 1 <=> s = <<>>
      BY <1>1, <1>2
    <3>2. (s # <<>> => n \in 1 .. n) /\ (n + 1) - 1 = n
      BY <1>1, <1>2
    <3> QED
      BY <1>1, <3>1, <3>2 DEF PositionIn, n
  <2>3. Chained(u) <=> \A i \in 1 .. n + 1 : InU(i)
    BY <1>1 DEF Chained
  <2>4. Chained(s) <=> \A i \in 1 .. n : InS(i)
    BY DEF Chained, n
  <2> HIDE DEF InU, InS
  <2> QED
    BY <1>3, <2>1, <2>2, <2>3, <2>4
<1>8. (\A i \in 1 .. Len(u) : FrameCounted(u[i], S)) <=>
        FrameCounted(f, S) /\ \A i \in 1 .. Len(s) : FrameCounted(s[i], S)
  BY <1>1, <1>3 DEF n
<1> QED
  BY <1>4, <1>5, <1>6, <1>7, <1>8 DEF Longest

LEMMA TopOnClosed ==
  ASSUME frames \in Seq(Frame), frames # <<>>
  PROVE  Closed \in Seq(Frame) /\ Top \in Frame /\ frames = Append(Closed, Top)
<1>1. Len(frames) \in Nat \ {0} /\ Top = frames[Len(frames)] /\ Top \in Frame
  BY TopFrame
<1>2. /\ Closed \in Seq(Frame) /\ Len(Closed) = Len(frames) - 1
      /\ \A i \in 1 .. Len(frames) - 1 : Closed[i] = frames[i]
  BY Shortened DEF Closed
<1> DEFINE u == Append(Closed, Top)
<1>3. /\ u \in Seq(Frame) /\ Len(u) = Len(Closed) + 1
      /\ \A i \in 1 .. Len(Closed) : u[i] = Closed[i]
      /\ u[Len(Closed) + 1] = Top
  BY <1>1, <1>2, AppendProperties
<1> HIDE DEF u
<1>4. Len(u) = Len(frames)
  BY <1>1, <1>2, <1>3
<1>5. ASSUME NEW i \in 1 .. Len(frames) PROVE u[i] = frames[i]
  <2>1. i \in 1 .. Len(Closed) \/ i = Len(Closed) + 1
    BY <1>1, <1>2
  <2> QED
    BY <1>1, <1>2, <1>3, <2>1
<1>6. u = frames
  BY <1>3, <1>4, <1>5, SeqEqual
<1> QED
  BY <1>1, <1>2, <1>6 DEF u

LEMMA OneWayMore ==
  ASSUME NEW S, NEW x
  PROVE  Ways(S \cup {x}) = Ways(S) \cup Prefixes(x)
  BY DEF Ways

LEMMA OneSaidMore ==
  ASSUME NEW S, NEW x, NEW s, \A i \in 1 .. Len(s) : FrameCounted(s[i], S)
  PROVE  \A i \in 1 .. Len(s) : FrameCounted(s[i], S \cup {x})
  BY DEF FrameCounted

\* A scalar has been read.
LEMMA ScalarBalance ==
  ASSUME NEW s \in Seq(Frame), PositionIn(s) \in Address, NEW S, Balanced(s, S),
         NEW c, DOMAIN c = {<<>>}
  PROVE  BalancedWith(s, c, S \cup {PositionIn(s)})
<1> DEFINE p == PositionIn(s)
           R == Ways(Roots(s) \cup {p})
           T == S \cup {p}
<1>1. p \in Address /\ p \o <<>> = p /\ p \in Prefixes(p)
  BY JoinedRoot, PrefixesEnds
<1>2. Chained(s) /\ Held(s) \cup Ways(Roots(s)) = Ways(S) \cup Ways(Roots(s))
  BY DEF Balanced
<1>3. \A i \in 1 .. Len(s) : FrameCounted(s[i], T)
  BY OneSaidMore DEF Balanced
<1>4. ValueCounted(p, c, T)
  BY <1>1 DEF ValueCounted
<1>5. At(p, DOMAIN c) = {p}
  BY <1>1 DEF At
<1>6. R = Ways(Roots(s)) \cup Prefixes(p) /\ Ways(T) = Ways(S) \cup Prefixes(p)
  BY OneWayMore
<1> HIDE DEF p, R, T
<1>7. Held(s) \cup At(p, DOMAIN c) \cup R = Ways(T) \cup R
  BY <1>1, <1>2, <1>5, <1>6
<1> QED
  BY <1>2, <1>3, <1>4, <1>7 DEF BalancedWith, p, R, T

\* A container has been opened.
LEMMA OpenBalance ==
  ASSUME NEW s \in Seq(Frame), PositionIn(s) \in Address, NEW S, Balanced(s, S),
         NEW f \in Frame, f.at = PositionIn(s), DOMAIN f.content = {<<>>},
         NEW u, u = Append(s, f)
  PROVE  Balanced(u, S)
<1> DEFINE p == PositionIn(s)
<1>1. p \in Address /\ p \o <<>> = p /\ p \in Prefixes(p)
  BY JoinedRoot, PrefixesEnds
<1>2. Chained(s) /\ Held(s) \cup Ways(Roots(s)) = Ways(S) \cup Ways(Roots(s))
      /\ \A i \in 1 .. Len(s) : FrameCounted(s[i], S)
  BY DEF Balanced
<1>3. FrameCounted(f, S)
  BY DEF FrameCounted
<1>4. /\ Held(u) = Held(s) \cup At(p, DOMAIN f.content) /\ Roots(u) = Roots(s) \cup {p}
      /\ Chained(u) /\ \A i \in 1 .. Len(u) : FrameCounted(u[i], S)
  BY <1>2, <1>3, OneMore DEF Longest
<1>5. At(p, DOMAIN f.content) = {p}
  BY <1>1 DEF At
<1>6. Ways(Roots(u)) = Ways(Roots(s)) \cup Prefixes(p)
  BY <1>4, OneWayMore
<1> HIDE DEF p
<1>7. Held(u) \cup Ways(Roots(u)) = Ways(S) \cup Ways(Roots(u))
  BY <1>1, <1>2, <1>4, <1>5, <1>6
<1> QED
  BY <1>4, <1>7 DEF Balanced

\* A container has been closed: what is in it is a value.
LEMMA CloseBalance ==
  ASSUME NEW s, NEW f \in Frame, NEW u, NEW S, Longest(u, s, f, S), Balanced(u, S),
         NEW c, DOMAIN c = DOMAIN f.content,
         \A x \in DOMAIN c : c[x].kind = f.content[x].kind
  PROVE  BalancedWith(s, c, S \cup {f.at})
<1> DEFINE p == f.at
           T == S \cup {p}
           R == Ways(Roots(s) \cup {p})
<1>1. p \in Address /\ p \o <<>> = p
  <2>1. p \in Address
    BY DEF Frame
  <2> QED
    BY <2>1, JoinedRoot
<1>2. /\ Chained(u) /\ Held(u) \cup Ways(Roots(u)) = Ways(S) \cup Ways(Roots(u))
      /\ \A i \in 1 .. Len(u) : FrameCounted(u[i], S)
  BY DEF Balanced
<1>3. /\ Held(u) = Held(s) \cup At(p, DOMAIN c) /\ Roots(u) = Roots(s) \cup {p}
      /\ Chained(s) /\ p = PositionIn(s) /\ FrameCounted(f, S)
      /\ \A i \in 1 .. Len(s) : FrameCounted(s[i], S)
  <2>1. /\ Held(u) = Held(s) \cup At(f.at, DOMAIN f.content) /\ Roots(u) = Roots(s) \cup {f.at}
        /\ Chained(u) <=> Chained(s) /\ f.at = PositionIn(s)
    BY DEF Longest
  <2>2. (\A i \in 1 .. Len(u) : FrameCounted(u[i], S)) <=>
          FrameCounted(f, S) /\ \A i \in 1 .. Len(s) : FrameCounted(s[i], S)
    BY DEF Longest
  <2>3. FrameCounted(f, S) /\ \A i \in 1 .. Len(s) : FrameCounted(s[i], S)
    BY <1>2, <2>2
  <2> QED
    BY <1>2, <2>1, <2>3
<1>4. \A i \in 1 .. Len(s) : FrameCounted(s[i], T)
  BY <1>3, OneSaidMore
<1>5. ValueCounted(p, c, T)
  <2>1. ASSUME NEW x \in DOMAIN c, c[x].kind # "table" PROVE p \o x \in T
    BY <1>1, <1>3, <2>1 DEF FrameCounted
  <2> QED
    BY <2>1 DEF ValueCounted
<1>6. R = Ways(Roots(s)) \cup Prefixes(p) /\ Ways(T) = Ways(S) \cup Prefixes(p)
  BY OneWayMore
<1>7. Ways(Roots(u)) = R
  BY <1>3
<1> HIDE DEF p, T, R
<1>8. Held(s) \cup At(p, DOMAIN c) \cup R = Ways(T) \cup R
  BY <1>2, <1>3, <1>6, <1>7
<1>9. BalancedWith(s, c, T)
  BY <1>3, <1>4, <1>5, <1>8 DEF BalancedWith, R
<1> QED
  BY <1>9 DEF p, T

\* The text goes on in the same containers.
LEMMA SameBalance ==
  ASSUME NEW s, NEW f, NEW g, g.at = f.at, g.content = f.content,
         NEW u, NEW v, NEW S, Longest(u, s, f, S), Longest(v, s, g, S), Balanced(u, S)
  PROVE  Balanced(v, S)
<1>1. /\ Chained(u) /\ Held(u) \cup Ways(Roots(u)) = Ways(S) \cup Ways(Roots(u))
      /\ \A i \in 1 .. Len(u) : FrameCounted(u[i], S)
  BY DEF Balanced
<1>2. /\ Held(u) = Held(s) \cup At(f.at, DOMAIN f.content) /\ Roots(u) = Roots(s) \cup {f.at}
      /\ Chained(s) /\ f.at = PositionIn(s) /\ FrameCounted(f, S)
      /\ \A i \in 1 .. Len(s) : FrameCounted(s[i], S)
  BY <1>1 DEF Longest
<1>3. FrameCounted(g, S)
  BY <1>2 DEF FrameCounted
<1>4. /\ Held(v) = Held(u) /\ Roots(v) = Roots(u) /\ Chained(v)
      /\ \A i \in 1 .. Len(v) : FrameCounted(v[i], S)
  <2>1. /\ Held(v) = Held(s) \cup At(g.at, DOMAIN g.content) /\ Roots(v) = Roots(s) \cup {g.at}
        /\ Chained(v) <=> Chained(s) /\ g.at = PositionIn(s)
    BY DEF Longest
  <2>2. (\A i \in 1 .. Len(v) : FrameCounted(v[i], S)) <=>
          FrameCounted(g, S) /\ \A i \in 1 .. Len(s) : FrameCounted(s[i], S)
    BY DEF Longest
  <2>3. \A i \in 1 .. Len(v) : FrameCounted(v[i], S)
    BY <1>2, <1>3, <2>2
  <2> QED
    BY <1>2, <2>1, <2>3
<1> QED
  BY <1>1, <1>4 DEF Balanced

\* Sets A with W and C, but for R and what leads to a value.
LEMMA SetsAlike ==
  ASSUME NEW A, NEW W, NEW C, NEW R, NEW P, NEW T,
         P \subseteq T, P \subseteq R \cup A \cup W \cup C, W \subseteq P,
         A \cup C \cup (R \cup P) = T \cup (R \cup P)
  PROVE  (A \cup W \cup C) \cup R = T \cup R
  OBVIOUS

\* Frame g is f with content c put in, at q, through the new tables W.
Puts(g, f, c, q, W) ==
  /\ f \in Frame /\ g.at = f.at /\ <<>> \in DOMAIN f.content
  /\ DOMAIN c \subseteq Address /\ <<>> \in DOMAIN c
  /\ q \in Address /\ q = Slot(f) /\ W \in SUBSET Address /\ Prefixes(q) = {<<>>, q} \cup W
  /\ DOMAIN g.content = DOMAIN f.content \cup W \cup At(q, DOMAIN c)
  /\ \A x \in DOMAIN g.content :
       \/ x \in W /\ g.content[x].kind = "table"
       \/ \E y \in DOMAIN c : x = q \o y /\ g.content[x] = c[y]
       \/ x = <<>>
       \/ x \in DOMAIN f.content /\ g.content[x].kind = f.content[x].kind

\* A value has been put into the innermost container.
LEMMA PutBalance ==
  ASSUME NEW u, NEW v, NEW s, NEW S, NEW f, NEW g, NEW c, NEW q, NEW W,
         Longest(u, s, f, S), Longest(v, s, g, S), BalancedWith(u, c, S), Puts(g, f, c, q, W)
  PROVE  Balanced(v, S)
<1> DEFINE a == f.at
           p == a \o q
           Old == DOMAIN f.content
           New == DOMAIN g.content
           D == DOMAIN c
           Rs == Ways(Roots(s))
<1>1. a \in Address /\ p \in Address /\ Old \in SUBSET Address /\ D \in SUBSET Address
      /\ q \in Address /\ Prefixes(q) = {<<>>, q} \cup W /\ <<>> \in D /\ <<>> \in Old
  <2>1. a \in Address /\ Old \in SUBSET Address
    BY DEF Puts, Frame, Contents
  <2>2. /\ q \in Address /\ D \in SUBSET Address
        /\ Prefixes(q) = {<<>>, q} \cup W /\ <<>> \in D /\ <<>> \in Old
    BY DEF Puts
  <2> QED
    BY <2>1, <2>2, Joined
<1>2. Longest(u, s, f, S) /\ Longest(v, s, g, S)
  OBVIOUS
<1>3. /\ Held(u) = Held(s) \cup At(a, Old) /\ Roots(u) = Roots(s) \cup {a}
      /\ Chained(u) <=> Chained(s) /\ a = PositionIn(s)
      /\ PositionIn(u) = p
  BY <1>2 DEF Longest, Puts
<1>4. /\ Held(v) = Held(s) \cup At(a, New) /\ Roots(v) = Roots(s) \cup {a}
      /\ Chained(v) <=> Chained(s) /\ a = PositionIn(s)
  BY <1>2 DEF Longest, Puts
<1>5. /\ (\A i \in 1 .. Len(u) : FrameCounted(u[i], S)) <=>
           FrameCounted(f, S) /\ \A i \in 1 .. Len(s) : FrameCounted(s[i], S)
      /\ (\A i \in 1 .. Len(v) : FrameCounted(v[i], S)) <=>
           FrameCounted(g, S) /\ \A i \in 1 .. Len(s) : FrameCounted(s[i], S)
  BY <1>2 DEF Longest
<1>6. /\ Chained(u) /\ \A i \in 1 .. Len(u) : FrameCounted(u[i], S)
      /\ ValueCounted(p, c, S)
      /\ LET R == Ways(Roots(u) \cup {p})
         IN Held(u) \cup At(p, D) \cup R = Ways(S) \cup R
  BY <1>3 DEF BalancedWith
<1>7. FrameCounted(g, S)
  <2>1. FrameCounted(f, S)
    BY <1>5, <1>6
  <2>2. ASSUME NEW x \in DOMAIN g.content \ {<<>>}, g.content[x].kind # "table"
        PROVE  f.at \o x \in S
    <3>1. CASE \E y \in DOMAIN c : x = q \o y /\ g.content[x] = c[y]
      <4>1. PICK y \in DOMAIN c : x = q \o y /\ g.content[x] = c[y]
        BY <3>1
      <4>2. p \o y \in S
        BY <1>6, <2>2, <4>1 DEF ValueCounted
      <4>3. (a \o q) \o y = a \o (q \o y)
        <5>1. y \in Address /\ f.at \in Address
          BY <1>1, <4>1
        <5> HIDE DEF a, p, Old, New, D, Rs
        <5>2. q \in Address
          BY <1>1
        <5>3. (f.at \o q) \o y = f.at \o (q \o y)
          BY <5>1, <5>2, JoinedTwice
        <5> QED
          BY <5>3 DEF a
      <4> QED
        BY <4>1, <4>2, <4>3
    <3>2. CASE x \in DOMAIN f.content /\ g.content[x].kind = f.content[x].kind
      BY <2>1, <2>2, <3>2 DEF FrameCounted
    <3> QED
      BY <2>2, <3>1, <3>2 DEF Puts
  <2> QED
    BY <2>2 DEF FrameCounted, Puts
<1>8. At(a, New) = At(a, Old) \cup At(a, W) \cup At(p, D)
  <2>1. At(a, At(q, D)) = At(p, D)
    BY <1>1, AtJoined
  <2>2. At(a, Old \cup W \cup At(q, D)) = At(a, Old) \cup At(a, W) \cup At(a, At(q, D))
    BY DEF At
  <2>3. New = Old \cup W \cup At(q, D)
    BY DEF Puts
  <2> QED
    BY <2>1, <2>2, <2>3
<1>9. /\ p \in At(p, D) /\ a \in At(a, Old) /\ p \in S
      /\ a \in Prefixes(a)
  <2>1. p \o <<>> = p /\ a \o <<>> = a
    BY <1>1, JoinedRoot
  <2>2. p \in At(p, D) /\ a \in At(a, Old)
    BY <1>1, <2>1 DEF At
  <2>3. p \in S
    BY <1>6 DEF ValueCounted
  <2> QED
    BY <1>1, <2>2, <2>3, PrefixesEnds
<1>10. Prefixes(p) = Prefixes(a) \cup {a, p} \cup At(a, W)
  <2>1. Prefixes(p) = Prefixes(a) \cup At(a, Prefixes(q))
    BY <1>1, PrefixesJoined
  <2>2. At(a, {<<>>, q} \cup W) = {a, p} \cup At(a, W)
    <3>1. a \o <<>> = a
      BY <1>1, JoinedRoot
    <3> QED
      BY <3>1 DEF At
  <2> QED
    BY <1>1, <2>1, <2>2
<1>11. Ways(Roots(u)) = Rs \cup Prefixes(a) /\ Ways(Roots(v)) = Rs \cup Prefixes(a)
       /\ Ways(Roots(u) \cup {p}) = Ways(Roots(u)) \cup Prefixes(p)
  <2>1. /\ Ways(Roots(s) \cup {a}) = Ways(Roots(s)) \cup Prefixes(a)
        /\ Ways(Roots(u) \cup {p}) = Ways(Roots(u)) \cup Prefixes(p)
    BY OneWayMore
  <2> QED
    BY <1>3, <1>4, <2>1
<1>12. Prefixes(p) \subseteq Ways(S)
  BY <1>9 DEF Ways
<1>13. Held(u) \cup At(p, D) \cup (Ways(Roots(u)) \cup Prefixes(p)) =
         Ways(S) \cup (Ways(Roots(u)) \cup Prefixes(p))
  BY <1>6, <1>11
<1> HIDE DEF a, p, Old, New, D, Rs
<1>14. Held(v) \cup Ways(Roots(v)) = Ways(S) \cup Ways(Roots(v))
  <2> DEFINE A == Held(s) \cup At(a, Old)
             B == At(a, W)
             C == At(p, D)
             P == Prefixes(p)
             R == Ways(Roots(v))
             T == Ways(S)
  <2>1. P \subseteq T /\ B \subseteq P
    BY <1>10, <1>12
  <2>2. P \subseteq R \cup A \cup B \cup C
    BY <1>9, <1>10, <1>11
  <2>3. A \cup C \cup (R \cup P) = T \cup (R \cup P)
    BY <1>3, <1>11, <1>13
  <2>4. Held(v) = A \cup B \cup C
    BY <1>4, <1>8
  <2> HIDE DEF A, B, C, P, R, T
  <2>5. (A \cup B \cup C) \cup R = T \cup R
    BY <2>1, <2>2, <2>3, SetsAlike
  <2> QED
    BY <2>4, <2>5 DEF R, T
<1>15. Chained(v) /\ \A i \in 1 .. Len(v) : FrameCounted(v[i], S)
  BY <1>3, <1>4, <1>5, <1>6, <1>7
<1> QED
  BY <1>14, <1>15 DEF Balanced

-----------------------------------------------------------------------------
(* Nothing is lost: the steps.                                             *)

Tally ==
  /\ doing \in {"value", "item", "next"} => Balanced(frames, Said)
  /\ doing \in {"put", "done"} => BalancedWith(frames, parsed, Said)
  /\ doing = "done" => frames = <<>>

LEMMA TallyInitially ==
  ASSUME Init
  PROVE  Tally
<1>1. doing = "value" /\ frames = <<>> /\ said = <<>> /\ Len(<<>>) = 0 /\ 1 .. 0 = {}
  BY DEF Init
<1>2. Said = {}
  BY <1>1 DEF Said
<1>3. Chained(<<>>) /\ Held(<<>>) = {} /\ Roots(<<>>) = {} /\ Ways({}) = {}
  BY DEF Chained, Held, Roots, Ways
<1> QED
  BY <1>1, <1>2, <1>3 DEF Tally, Balanced

LEMMA SaidMore ==
  ASSUME said \in Seq(Address), NEW x, said' = Append(said, x)
  PROVE  Said' = Said \cup {x}
<1> DEFINE u == said'
           n == Len(said)
<1>1. /\ n \in Nat /\ Len(u) = n + 1 /\ u[n + 1] = x
      /\ \A i \in 1 .. n : u[i] = said[i]
  BY AppendProperties
<1> HIDE DEF n
<1>2. \A i : i \in 1 .. n + 1 <=> i \in 1 .. n \/ i = n + 1
  BY <1>1
<1> QED
  BY <1>1, <1>2 DEF Said, n

LEMMA EndsTally ==
  ASSUME NEW outcome \in Outcomes, Ends(outcome)
  PROVE  Tally'
<1>1. doing' = outcome /\ frames' = <<>> /\ Len(<<>>) = 0 /\ 1 .. 0 = {}
  BY DEF Ends
<1>2. doing' \notin {"value", "item", "put", "next", "done"}
  BY <1>1 DEF Outcomes
<1>3. Chained(<<>>)
  BY DEF Chained
<1> QED
  BY <1>1, <1>2, <1>3 DEF Tally, Balanced

LEMMA LimitTally ==
  ASSUME Limit
  PROVE  Tally'
  BY EndsTally DEF Limit, Outcomes

LEMMA NextPosition == Position = PositionIn(frames)
  BY DEF Position, PositionIn, Top

LEMMA ReadScalarTally ==
  ASSUME Inv, Tally, NEW size \in Sizes, ReadScalar(size)
  PROVE  Tally'
<1>1. CASE Limit
  BY <1>1, LimitTally
<1>2. CASE ~ Limit
  <2> DEFINE c == [x \in {<<>>} |-> Leaf]
  <2>1. /\ doing = "value" /\ said' = Append(said, Position) /\ frames' = frames
        /\ parsed' = c
        /\ doing' = (IF frames = <<>> THEN "done" ELSE "put")
    BY <1>2 DEF ReadScalar, Ended
  <2>2. frames \in Seq(Frame) /\ said \in Seq(Address) /\ Position \in Address
    BY PositionAddress DEF Inv, Types, Shape
  <2>3. Said' = Said \cup {PositionIn(frames)} /\ PositionIn(frames) \in Address
    BY <2>1, <2>2, SaidMore, NextPosition
  <2>4. DOMAIN c = {<<>>}
    OBVIOUS
  <2>5. Balanced(frames, Said)
    BY <2>1 DEF Tally
  <2> HIDE DEF c
  <2>6. BalancedWith(frames, c, Said \cup {PositionIn(frames)})
    BY <2>2, <2>3, <2>4, <2>5, ScalarBalance
  <2> QED
    BY <2>1, <2>3, <2>6 DEF Tally
<1> QED
  BY <1>1, <1>2

LEMMA OpenTally ==
  ASSUME Inv, Tally, NEW n \in Node, n.size = 0, NEW allowed, OpenContainer(n, allowed)
  PROVE  Tally'
<1> DEFINE f == [content |-> [x \in {<<>>} |-> n], path |-> <<>>, previous |-> newlines,
                 at |-> Position, assigned |-> {}]
<1>1. doing = "value" /\ doing' = "item" /\ frames' = Append(frames, f) /\ said' = said
  BY DEF OpenContainer
<1>2. frames \in Seq(Frame) /\ Position \in Address /\ newlines \in BOOLEAN
  BY PositionAddress DEF Inv, Types, Shape
<1>3. f \in Frame
  <2> DEFINE c == [x \in {<<>>} |-> n]
  <2>1. c \in Contents
    BY SingleContent
  <2>2. f = [content |-> c, path |-> <<>>, previous |-> newlines, at |-> Position, assigned |-> {}]
    OBVIOUS
  <2> HIDE DEF c, f
  <2> QED
    BY <1>2, <2>1, <2>2, NewFrame
<1>4. f.at = Position /\ DOMAIN f.content = {<<>>}
  OBVIOUS
<1>5. Balanced(frames, Said)
  BY <1>1 DEF Tally
<1>6. Said' = Said
  BY <1>1 DEF Said
<1> HIDE DEF f
<1>7. Balanced(frames', Said)
  BY <1>1, <1>2, <1>3, <1>4, <1>5, NextPosition, OpenBalance
<1> QED
  BY <1>1, <1>6, <1>7 DEF Tally

LEMMA CloseTally ==
  ASSUME Inv, Tally, Close
  PROVE  Tally'
<1>1. doing \in {"item", "next"}
  BY DEF Close, MayClose
<1>2. frames # <<>> /\ frames \in Seq(Frame) /\ said \in Seq(Address)
  BY <1>1 DEF Inv, Types, Shape
<1>3. CASE Limit
  BY <1>3, LimitTally
<1>4. CASE ~ Limit
  <2> DEFINE c == IF InArray THEN Top.content ELSE MarkInlineTable(Top.content)
             p == Top.at
  <2>1. /\ said' = Append(said, p) /\ frames' = Closed /\ parsed' = c
        /\ doing' = (IF Closed = <<>> THEN "done" ELSE "put")
    BY <1>4 DEF Close, Ended
  <2>2. Closed \in Seq(Frame) /\ Top \in Frame /\ frames = Append(Closed, Top) /\ IsTree(Top.content)
    BY <1>2, TopOnClosed, TopFits
  <2>3. DOMAIN c = DOMAIN Top.content
    BY DEF MarkInlineTable
  <2>4. ASSUME NEW x \in DOMAIN c PROVE c[x].kind = Top.content[x].kind
    <3> x \in DOMAIN Top.content
      BY <2>3
    <3>1. Top.content[x] \in Node
      BY <2>2, TreeFields
    <3>2. Marked(Top.content[x]).kind = Top.content[x].kind
      BY <3>1 DEF Marked, Node
    <3> QED
      BY <3>2 DEF MarkInlineTable
  <2>5. Balanced(frames, Said)
    BY <1>1 DEF Tally
  <2>6. Said' = Said \cup {p}
    BY <1>2, <2>1, SaidMore
  <2>7. Longest(frames, Closed, Top, Said)
    BY <2>2, OneMore
  <2> HIDE DEF c
  <2>8. BalancedWith(Closed, c, Said \cup {p})
    <3>1. \A x \in DOMAIN c : c[x].kind = Top.content[x].kind
      BY <2>4
    <3> QED
      BY <2>2, <2>3, <2>5, <2>7, <3>1, CloseBalance
  <2> HIDE DEF p
  <2> QED
    BY <2>1, <2>6, <2>8 DEF Tally
<1> QED
  BY <1>3, <1>4

\* The text goes on in the same container.
LEMMA GoesTally ==
  ASSUME Inv, Tally, doing \in {"value", "item", "next"}, frames # <<>>,
         NEW d \in {"value", "item", "next"}, Goes(d),
         NEW g \in Frame, g.at = Top.at, g.content = Top.content, frames' = Append(Closed, g)
  PROVE  Tally'
<1>1. doing' = d /\ Said' = Said
  BY DEF Goes, Said
<1>2. Closed \in Seq(Frame) /\ Top \in Frame /\ frames = Append(Closed, Top)
  BY TopOnClosed DEF Inv, Types
<1>3. Balanced(frames, Said)
  BY DEF Tally
<1>4. Longest(frames, Closed, Top, Said) /\ Longest(frames', Closed, g, Said)
  BY <1>2, OneMore
<1>5. Balanced(frames', Said)
  BY <1>3, <1>4, SameBalance
<1> QED
  BY <1>1, <1>5 DEF Tally

LEMMA PassingTally ==
  ASSUME Inv, Tally, Comma \/ Element
  PROVE  Tally'
<1>1. /\ doing \in {"item", "next"} /\ frames' = frames
      /\ \E d \in {"value", "item"} : Goes(d)
  BY DEF Comma, Element
<1>2. PICK d \in {"value", "item"} : Goes(d)
  BY <1>1
<1>3. frames \in Seq(Frame) /\ frames # <<>>
  BY <1>1 DEF Inv, Types, Shape
<1>4. Top \in Frame /\ frames' = Append(Closed, Top)
  BY <1>1, <1>3, TopOnClosed
<1> QED
  BY <1>1, <1>2, <1>3, <1>4, GoesTally

LEMMA KeyTally ==
  ASSUME Inv, Tally, NEW p \in Paths, Key(p)
  PROVE  Tally'
<1>1. CASE Limit
  BY <1>1, LimitTally
<1>2. CASE ~ Limit
  <2> DEFINE g == [Top EXCEPT !.path = p, !.previous = newlines]
  <2>1. doing = "item" /\ Goes("value") /\ frames' = Append(Closed, g)
    BY <1>2 DEF Key, Replaced
  <2>2. frames # <<>> /\ frames \in Seq(Frame) /\ newlines \in BOOLEAN
    BY <2>1 DEF Inv, Types, Shape
  <2>3. Top \in Frame
    BY <2>2, TopFrame
  <2>4. g \in Frame /\ g.at = Top.at /\ g.content = Top.content
    BY <2>2, <2>3 DEF Frame
  <2> HIDE DEF g
  <2> QED
    BY <2>1, <2>2, <2>4, GoesTally
<1> QED
  BY <1>1, <1>2

\* A value is grafted into the content of the innermost container, room and the new
\* tables W having been made for it.
LEMMA GraftTally ==
  ASSUME Inv, Tally, doing = "put", Goes("next"),
         NEW g \in Frame, g.at = Top.at, frames' = Replaced(g),
         NEW q \in Address, q = Slot(Top), NEW W \in SUBSET Address, Prefixes(q) = {<<>>, q} \cup W,
         NEW w, DOMAIN w = DOMAIN Top.content \cup W,
         \A x \in W : w[x].kind = "table",
         \A x \in DOMAIN Top.content \ {<<>>} : w[x].kind = Top.content[x].kind,
         IsGraft(g.content, w, q, parsed)
  PROVE  Tally'
<1>1. frames # <<>> /\ frames \in Seq(Frame) /\ IsTree(parsed)
  BY DEF Inv, Types, Shape, ValueFits
<1>2. Closed \in Seq(Frame) /\ Top \in Frame /\ frames = Append(Closed, Top) /\ IsTree(Top.content)
  BY <1>1, TopOnClosed, TopFits
<1>3. Longest(frames, Closed, Top, Said) /\ Longest(frames', Closed, g, Said)
  BY <1>2, OneMore DEF Replaced
<1>4. <<>> \in DOMAIN parsed /\ DOMAIN parsed \subseteq Address /\ <<>> \in DOMAIN Top.content
  BY <1>1, <1>2 DEF IsTree
<1>5. DOMAIN g.content = DOMAIN Top.content \cup W \cup At(q, DOMAIN parsed)
  <2>1. \A z : z \in DOMAIN g.content <=> z \in DOMAIN w \/ z \in At(q, DOMAIN parsed)
    BY DEF IsGraft, At
  <2> HIDE DEF IsGraft
  <2> QED
    BY <2>1
<1>6. ASSUME NEW x \in DOMAIN g.content
      PROVE  \/ x \in W /\ g.content[x].kind = "table"
             \/ \E y \in DOMAIN parsed : x = q \o y /\ g.content[x] = parsed[y]
             \/ x = <<>>
             \/ x \in DOMAIN Top.content /\ g.content[x].kind = Top.content[x].kind
  <2>1. CASE x \in DOMAIN w
    <3>1. g.content[x] = w[x]
      BY <2>1 DEF IsGraft
    <3> QED
      BY <2>1, <3>1
  <2>2. CASE \E y \in DOMAIN parsed : x = q \o y
    <3>1. PICK y \in DOMAIN parsed : x = q \o y
      BY <2>2
    <3>2. g.content[q \o y] = parsed[y]
      BY DEF IsGraft
    <3> QED
      BY <3>1, <3>2
  <2> QED
    BY <2>1, <2>2 DEF IsGraft
<1>7. BalancedWith(frames, parsed, Said)
  BY DEF Tally
<1>8. Balanced(frames', Said)
  <2>1. Puts(g, Top, parsed, q, W)
    BY <1>2, <1>4, <1>5, <1>6 DEF Puts
  <2> QED
    BY <1>3, <1>7, <2>1, PutBalance
<1>9. doing' = "next" /\ Said' = Said
  BY DEF Goes, Said
<1> QED
  BY <1>8, <1>9 DEF Tally

LEMMA PutElementTally ==
  ASSUME Inv, Tally, PutElement
  PROVE  Tally'
<1>1. CASE Limit
  BY <1>1, LimitTally
<1>2. CASE ~ Limit
  <2> DEFINE t == Top.content
             k == t[<<>>].size + 1
             w == Longer(t)
             q == <<k>>
             c == Graft(w, q, parsed)
             g == [Top EXCEPT !.content = c]
  <2>1. doing = "put" /\ t[<<>>].kind = "array" /\ Goes("next") /\ q = Slot(Top)
    BY <1>2 DEF PutElement, InArray, Slot
  <2>2. frames' = Replaced(g)
    BY <1>2, <2>1 DEF PutElement
  <2>3. /\ frames \in Seq(Frame) /\ frames # <<>> /\ IsTree(parsed) /\ IsTree(t)
        /\ Top \in Frame /\ t \in Contents /\ ValueFits(parsed) /\ ValueFits(t)
    <3>1. frames # <<>> /\ frames \in Seq(Frame) /\ ValueFits(parsed)
      BY <2>1 DEF Inv, Types, Shape
    <3>2. Top \in Frame /\ t \in Contents /\ FrameFits(Top)
      BY <3>1, TopFrame, TopFits
    <3> QED
      BY <2>1, <3>1, <3>2 DEF FrameFits, IsArray, ValueFits
  <2>4. /\ k \in Nat /\ q \in Address /\ DOMAIN w = DOMAIN t
        /\ \A x \in DOMAIN t \ {<<>>} : w[x] = t[x]
        /\ q \notin DOMAIN t /\ IsTreeBut(w, q)
    BY <2>1, <2>3, RoomForElement
  <2>5. Prefixes(q) = {<<>>, q}
    BY <2>4, PrefixesOfIndex
  <2>6. \A y \in DOMAIN parsed : y \in Address
    BY <2>3, TreeFields
  <2>7. c \in Contents
    BY <2>1, <2>3, ElementFits DEF WithElement
  <2> HIDE DEF w, q, k
  <2>8. IsGraft(c, w, q, parsed)
    BY <2>4, <2>6, Grafted
  <2> HIDE DEF c
  <2>9. g \in Frame /\ g.content = c /\ g.at = Top.at
    BY <2>3, <2>7 DEF Frame
  <2> HIDE DEF g
  <2>10. /\ DOMAIN w = DOMAIN Top.content \cup {} /\ Prefixes(q) = {<<>>, q} \cup {}
         /\ {} \in SUBSET Address
         /\ \A x \in {} : w[x].kind = "table"
         /\ \A x \in DOMAIN Top.content \ {<<>>} : w[x].kind = Top.content[x].kind
         /\ IsGraft(g.content, w, q, parsed)
    BY <2>4, <2>5, <2>8, <2>9
  <2> HIDE DEF t
  <2> QED
    BY <2>1, <2>2, <2>4, <2>9, <2>10, GraftTally
<1> QED
  BY <1>1, <1>2

LEMMA PutMemberTally ==
  ASSUME Inv, Tally, PutMember
  PROVE  Tally'
<1> DEFINE t == Top.content
           p == Top.path
<1>1. CASE ~ Inserts(t, p)
  <2>1. Ends("conflict") /\ "conflict" \in Outcomes
    BY <1>1 DEF PutMember, Outcomes
  <2> QED
    BY <2>1, EndsTally
<1>2. CASE Inserts(t, p)
  <2> DEFINE w == WithWay(t, p)
             c == Graft(w, p, parsed)
             a == Top.assigned \cup {p}
             g == [Top EXCEPT !.content = c, !.assigned = a]
  <2>1. doing = "put" /\ t[<<>>].kind # "array" /\ Goes("next") /\ frames' = Replaced(g)
    BY <1>2 DEF PutMember, InArray
  <2>2. /\ frames \in Seq(Frame) /\ frames # <<>> /\ ValueFits(parsed)
        /\ Top \in Frame /\ FrameFits(Top) /\ Reads(Top)
    <3>1. frames # <<>> /\ frames \in Seq(Frame) /\ ValueFits(parsed) /\ Reads(frames[Len(frames)])
      BY <2>1 DEF Inv, Types, Shape
    <3> QED
      BY <3>1, TopFits
  <2>3. p \in Paths /\ Top.assigned \in SUBSET Paths /\ TableFits(t, Top.assigned) /\ IsTree(t)
    BY <2>1, <2>2 DEF Reads, Frame, IsArray, FrameFits, TableFits
  <2>4. p = Slot(Top)
    BY <2>1 DEF Slot
  <2>5. /\ DOMAIN w = DOMAIN t \cup Way(p)
        /\ \A x \in DOMAIN t : w[x] = t[x]
        /\ \A x \in Way(p) : w[x].kind = "table"
        /\ IsTree(w) /\ p \notin DOMAIN w
    <3> DEFINE b == Top.assigned
    <3>1. b \in SUBSET Paths /\ TableFits(t, b) /\ p \in Paths /\ Inserts(t, p)
      BY <1>2, <2>3
    <3> HIDE DEF b, t, p, w, c, a, g
    <3>2. /\ DOMAIN WithWay(t, p) = DOMAIN t \cup Way(p)
          /\ \A x \in DOMAIN t : WithWay(t, p)[x] = t[x]
          /\ \A x \in Way(p) : /\ MayPass(WithWay(t, p)[x]) /\ ~ WithWay(t, p)[x].arrayTable
                               /\ WithWay(t, p)[x].kind = "table"
          /\ IsTree(WithWay(t, p)) /\ p \notin DOMAIN WithWay(t, p)
      BY <3>1, WayFits
    <3> QED
      BY <3>2 DEF w
  <2>6. p \in Address /\ Way(p) \in SUBSET Address /\ Prefixes(p) = {<<>>, p} \cup Way(p)
    BY <2>3, PathAddress, WayPrefixes, PrefixesOfPath
  <2>7. c \in Contents
    BY <1>2, <2>2, <2>3, MemberFits
  <2>8. IsGraft(c, w, p, parsed)
    <3>1. IsTreeBut(w, p)
      BY <2>5, TreeNodes
    <3>2. \A y \in DOMAIN parsed : y \in Address
      BY <2>2, TreeFields DEF ValueFits
    <3> HIDE DEF w, p
    <3> QED
      BY <2>5, <2>6, <3>1, <3>2, Grafted
  <2>9. a \in SUBSET Paths
    BY <2>3
  <2> HIDE DEF c, a, w
  <2>10. g \in Frame /\ g.content = c /\ g.at = Top.at
    <3>1. Top \in Frame
      BY <2>2
    <3> QED
      BY <2>7, <2>9, <3>1 DEF Frame
  <2> HIDE DEF g
  <2>11. /\ DOMAIN w = DOMAIN Top.content \cup Way(p)
         /\ \A x \in Way(p) : w[x].kind = "table"
         /\ \A x \in DOMAIN Top.content \ {<<>>} : w[x].kind = Top.content[x].kind
         /\ IsGraft(g.content, w, p, parsed)
    BY <2>5, <2>8, <2>10
  <2> DEFINE W == Way(p)
  <2> HIDE DEF W, t, p
  <2> QED
    BY <2>1, <2>4, <2>6, <2>10, <2>11, GraftTally
<1> QED
  BY <1>1, <1>2

LEMMA TallyStep ==
  ASSUME Inv, Tally, [Next]_vars
  PROVE  Tally'
<1>1. CASE UNCHANGED vars
  <2>1. doing' = doing /\ frames' = frames /\ parsed' = parsed /\ Said' = Said
    BY <1>1 DEF vars, Said
  <2> QED
    BY <2>1 DEF Tally
<1>2. CASE TooDeep
  BY <1>2, LimitTally DEF TooDeep
<1>3. ASSUME NEW size \in Sizes, ReadScalar(size) PROVE Tally'
  BY <1>3, ReadScalarTally
<1>4. CASE OpenArray
  <2>1. Array(0) \in Node /\ Array(0).size = 0
    BY DEF Array, ArrayTable, Node, Definitions
  <2> QED
    BY <1>4, <2>1, OpenTally DEF OpenArray
<1>5. CASE OpenTable
  <2>1. Table("implicit") \in Node /\ Table("implicit").size = 0
    BY NewTable DEF Definitions
  <2> QED
    BY <1>5, <2>1, OpenTally DEF OpenTable
<1>6. CASE Close
  BY <1>6, CloseTally
<1>7. CASE Comma \/ Element
  BY <1>7, PassingTally
<1>8. CASE PutElement
  BY <1>8, PutElementTally
<1>9. ASSUME NEW p \in Paths, Key(p) PROVE Tally'
  BY <1>9, KeyTally
<1>10. CASE PutMember
  BY <1>10, PutMemberTally
<1>11. CASE Malformed
  BY <1>11, EndsTally DEF Malformed, Outcomes
<1> QED
  BY <1>1, <1>2, <1>3, <1>4, <1>5, <1>6, <1>7, <1>8, <1>9, <1>10, <1>11 DEF Next

\* Of the values read, none is lost, moved, replaced or added, and all but the tables
\* of dotted keys are counted: for any text of arrays and inline tables.
THEOREM Complete == Spec => []NothingLost
<1>1. Init => Inv /\ Tally
  BY Initially, TallyInitially
<1>2. Inv /\ Tally /\ [Next]_vars => Inv' /\ Tally'
  BY Step, TallyStep
<1>3. Inv /\ Tally => NothingLost
  <2> SUFFICES ASSUME Inv, Tally, doing = "done"
               PROVE  /\ DOMAIN parsed = UNION {Prefixes(x) : x \in Said}
                      /\ \A x \in DOMAIN parsed : parsed[x].kind # "table" => x \in Said
    BY DEF NothingLost
  <2>1. frames = <<>> /\ BalancedWith(<<>>, parsed, Said)
    BY DEF Tally
  <2>2. Len(<<>>) = 0 /\ 1 .. 0 = {} /\ PositionIn(<<>>) = <<>>
    BY DEF PositionIn
  <2>3. Held(<<>>) = {} /\ Roots(<<>>) \cup {<<>>} = {<<>>}
    BY <2>2 DEF Held, Roots
  <2>4. \A x \in DOMAIN parsed : x \in Address
    BY TreeFields DEF Inv, Shape, ValueFits
  <2>5. \A x \in DOMAIN parsed : <<>> \o x = x
    BY <2>4, ConcatEmptySeq DEF Address
  <2>6. At(<<>>, DOMAIN parsed) = DOMAIN parsed
    BY <2>5 DEF At
  <2>7. Ways({<<>>}) = {<<>>}
    <3>1. Prefixes(<<>>) = {<<>>}
      <4>1. 0 .. 0 = {0} /\ SubSeq(<<>>, 1, 0) = <<>>
        BY SubSeqEmpty
      <4> QED
        BY <2>2, <4>1 DEF Prefixes
    <3> QED
      BY <3>1 DEF Ways
  <2>8. ValueCounted(<<>>, parsed, Said)
    BY <2>1, <2>2 DEF BalancedWith
  <2>9. DOMAIN parsed \cup {<<>>} = Ways(Said) \cup {<<>>}
    BY <2>1, <2>2, <2>3, <2>6, <2>7 DEF BalancedWith
  <2>10. <<>> \in DOMAIN parsed /\ <<>> \in Ways(Said)
    <3>1. <<>> \in Prefixes(<<>>)
      <4>1. <<>> \in Address
        BY DEF Address
      <4> QED
        BY <4>1, PrefixesEnds
    <3>2. <<>> \in Said
      BY <2>8 DEF ValueCounted
    <3>3. IsTree(parsed)
      BY DEF Inv, Shape, ValueFits
    <3> QED
      BY <3>1, <3>2, <3>3 DEF Ways, IsTree
  <2>11. DOMAIN parsed = Ways(Said)
    BY <2>9, <2>10
  <2>12. \A x \in DOMAIN parsed : parsed[x].kind # "table" => x \in Said
    BY <2>5, <2>8 DEF ValueCounted
  <2> QED
    BY <2>11, <2>12 DEF Ways
<1> QED
  BY <1>1, <1>2, <1>3, PTL DEF Spec

-----------------------------------------------------------------------------
(* The limits: how deep values lie in each other, and how many an array has.*)

\* The values of a frame, also with the one that is being read; and that the path of
\* that one clashes with one that has been assigned.
Filled(f) == IF IsArray(f) THEN {<<i>> : i \in 1 .. f.content[<<>>].size} ELSE f.assigned
Given(f, reading) == Filled(f) \cup (IF reading THEN {Slot(f)} ELSE {})
Clashes(f) == \E y \in Filled(f) : StartsWith(y, Slot(f)) \/ StartsWith(Slot(f), y)

Sound(s, reading) == \A i \in 1 .. Len(s) : i < Len(s) \/ reading => ~ Clashes(s[i])

\* What has begun in the frame at x lies in one of its values D.
Lies(x, D, T) == \A z \in T : x \in Prefixes(z) /\ z # x => \E y \in D : x \o y \in Prefixes(z)

\* Of the frames s and the values T that have begun: each frame is in what the ones
\* around it read, holds what has begun in it, and nothing that has begun leads to it
\* but they.

Placed(s, T, reading) ==
  \A i \in 1 .. Len(s) :
    /\ \A j \in 1 .. i - 1 : s[j].at \o Slot(s[j]) \in Prefixes(s[i].at)
    /\ Lies(s[i].at, Given(s[i], i < Len(s) \/ reading), T)
    /\ \A x \in T : x \in Prefixes(s[i].at) => \E j \in 1 .. i : x = s[j].at

\* The same of a frame f on s.
Topped(s, f, T, reading) ==
  /\ \A j \in 1 .. Len(s) : s[j].at \o Slot(s[j]) \in Prefixes(f.at)
  /\ Lies(f.at, Given(f, reading), T)
  /\ \A x \in T : x \in Prefixes(f.at) => x \in Roots(s) \cup {f.at}

\* A value at p would be a new one, and only open containers would lead to it.
Fresh(p, s, T) == /\ \A x \in T : p \notin Prefixes(x)
                  /\ T \cap Prefixes(p) \subseteq Roots(s)

Nested(T) == \A x \in T : Cardinality(T \cap Prefixes(x)) <= MaxDepth

\* The values that have ended and those that are open.
Begun == Said \cup Roots(frames)

\* A value that will be refused for its keys may lie deeper.
Nesting ==
  doing \in {"value", "item", "put", "next", "done"} =>
    /\ doing = "done" => frames = <<>>
    /\ doing # "done" /\ frames = <<>> => Begun = {}
    /\ Sound(frames, doing \in {"value", "put"}) =>
         Placed(frames, Begun, doing = "put") /\ Nested(Begun)

\* An address leads on.
LEMMA PrefixesTransitive ==
  ASSUME NEW x \in Address, NEW y \in Prefixes(x)
  PROVE  y \in Address /\ Prefixes(y) \subseteq Prefixes(x)
<1>1. PICK i \in 0 .. Len(x) : y = SubSeq(x, 1, i)
  BY DEF Prefixes
<1>2. y \in Address /\ Len(y) = i /\ Len(x) \in Nat
  BY <1>1, Prefix, AddressLength
<1>3. ASSUME NEW z \in Prefixes(y) PROVE z \in Prefixes(x)
  <2>1. PICK j \in 0 .. i : z = SubSeq(y, 1, j)
    BY <1>2 DEF Prefixes
  <2>2. j \in 0 .. Len(x) /\ j <= i
    BY <1>2
  <2>3. z = SubSeq(x, 1, j)
    <3>1. /\ SubSeq(x, 1, j) \in Address /\ Len(SubSeq(x, 1, j)) = j
          /\ \A k \in 1 .. j : SubSeq(x, 1, j)[k] = x[k]
      BY <2>2, Prefix
    <3>2. z \in Address /\ Len(z) = j /\ \A k \in 1 .. j : z[k] = y[k]
      BY <1>2, <2>1, Prefix
    <3>3. \A k \in 1 .. i : y[k] = x[k]
      BY <1>1, Prefix
    <3>4. \A k \in 1 .. j : z[k] = SubSeq(x, 1, j)[k]
      BY <2>2, <3>1, <3>2, <3>3
    <3> DEFINE w == SubSeq(x, 1, j)
    <3> HIDE DEF w
    <3>5. w \in Address /\ Len(w) = j /\ \A k \in 1 .. j : z[k] = w[k]
      BY <3>1, <3>4 DEF w
    <3>6. z = w
      BY <3>2, <3>5, Same
    <3> QED
      BY <3>6 DEF w
  <2> QED
    BY <2>2, <2>3 DEF Prefixes
<1> QED
  BY <1>2, <1>3

\* Of two addresses that lead to one, the one leads to the other.
LEMMA PrefixesLinear ==
  ASSUME NEW z \in Address, NEW x \in Prefixes(z), NEW y \in Prefixes(z)
  PROVE  x \in Prefixes(y) \/ y \in Prefixes(x)
<1>1. PICK i \in 0 .. Len(z) : x = SubSeq(z, 1, i)
  BY DEF Prefixes
<1>2. PICK j \in 0 .. Len(z) : y = SubSeq(z, 1, j)
  BY DEF Prefixes
<1>3. ASSUME NEW k \in 0 .. Len(z), NEW l \in 0 .. Len(z), k <= l
      PROVE  SubSeq(z, 1, k) \in Prefixes(SubSeq(z, 1, l))
  <2> DEFINE v == SubSeq(z, 1, l)
             w == SubSeq(v, 1, k)
             u == SubSeq(z, 1, k)
  <2>1. /\ v \in Address /\ Len(v) = l /\ \A m \in 1 .. l : v[m] = z[m]
        /\ u \in Address /\ Len(u) = k /\ \A m \in 1 .. k : u[m] = z[m]
    BY Prefix
  <2> HIDE DEF v, u
  <2>2. k \in 0 .. Len(v) /\ Len(z) \in Nat
    BY <1>3, <2>1, AddressLength
  <2>3. w \in Address /\ Len(w) = k /\ \A m \in 1 .. k : w[m] = v[m]
    BY <2>1, <2>2, Prefix
  <2> HIDE DEF w
  <2>4. \A m \in 1 .. k : w[m] = u[m]
    BY <1>3, <2>1, <2>2, <2>3
  <2>5. w = u
    BY <2>1, <2>3, <2>4, Same
  <2> QED
    BY <2>2, <2>5 DEF Prefixes, u, v, w
<1>4. i <= j \/ j <= i
  BY AddressLength
<1> QED
  BY <1>1, <1>2, <1>3, <1>4

\* Joined to the same address, one leads to the other if it did before.
LEMMA PrefixesCancel ==
  ASSUME NEW x \in Address, NEW y \in Address, NEW z \in Address, x \o y \in Prefixes(x \o z)
  PROVE  StartsWith(z, y)
<1>1. /\ Len(x) \in Nat /\ Len(y) \in Nat /\ Len(z) \in Nat
      /\ Len(x \o y) = Len(x) + Len(y) /\ Len(x \o z) = Len(x) + Len(z)
      /\ x \o y \in Address /\ x \o z \in Address
  BY AddressLength, Joined
<1>2. PICK i \in 0 .. Len(x) + Len(z) : x \o y = SubSeq(x \o z, 1, i)
  BY <1>1 DEF Prefixes
<1>3. i = Len(x) + Len(y)
  <2>1. Len(SubSeq(x \o z, 1, i)) = i
    BY <1>1, Prefix
  <2> QED
    BY <1>1, <1>2, <2>1
<1>4. \A k \in 1 .. Len(x) + Len(y) : (x \o y)[k] = (x \o z)[k]
  <2> DEFINE v == x \o z
             u == SubSeq(v, 1, i)
  <2>1. v \in Address /\ i \in 0 .. Len(v)
    BY <1>1
  <2> HIDE DEF v
  <2>2. \A k \in 1 .. i : u[k] = v[k]
    BY <2>1, Prefix
  <2> QED
    BY <1>2, <1>3, <2>2 DEF v
<1>5. Len(y) <= Len(z)
  BY <1>1, <1>3
<1>6. ASSUME NEW k \in 1 .. Len(y) PROVE y[k] = z[k]
  <2>1. Len(x) + k \in 1 .. Len(x) + Len(y) /\ Len(x) + k \in 1 .. Len(x) + Len(z)
        /\ ~ (Len(x) + k <= Len(x)) /\ (Len(x) + k) - Len(x) = k
    BY <1>1, <1>5
  <2>2. (x \o y)[Len(x) + k] = y[k] /\ (x \o z)[Len(x) + k] = z[k]
    BY <2>1, Joined
  <2> QED
    BY <1>4, <2>1, <2>2
<1>7. Len(y) \in 0 .. Len(z)
  BY <1>1, <1>5
<1> DEFINE w == SubSeq(z, 1, Len(y))
<1>8. w \in Address /\ Len(w) = Len(y) /\ \A k \in 1 .. Len(y) : w[k] = z[k]
  BY <1>7, Prefix
<1> HIDE DEF w
<1>9. w = y
  BY <1>6, <1>8, Same
<1> QED
  BY <1>5, <1>9 DEF w, StartsWith

LEMMA OnTop ==
  ASSUME NEW s \in Seq(Frame), NEW f \in Frame, NEW u, u = Append(s, f), NEW T, NEW r \in BOOLEAN
  PROVE  Placed(u, T, r) <=> Placed(s, T, TRUE) /\ Topped(s, f, T, r)
<1> DEFINE n == Len(s)
<1>1. /\ n \in Nat /\ Len(u) = n + 1 /\ u[n + 1] = f
      /\ \A i \in 1 .. n : u[i] = s[i]
  BY AppendProperties
<1> HIDE DEF n
<1>2. \A i : i \in 1 .. n + 1 <=> i \in 1 .. n \/ i = n + 1
  BY <1>1
<1> DEFINE In(v, i, b) ==
             /\ \A j \in 1 .. i - 1 : v[j].at \o Slot(v[j]) \in Prefixes(v[i].at)
             /\ Lies(v[i].at, Given(v[i], b), T)
             /\ \A x \in T : x \in Prefixes(v[i].at) => \E j \in 1 .. i : x = v[j].at
<1>3. ASSUME NEW i \in 1 .. n PROVE In(u, i, i < n + 1 \/ r) <=> In(s, i, TRUE)
  <2>1. (i < n + 1 \/ r) = TRUE /\ u[i] = s[i]
    BY <1>1
  <2>2. /\ \A j \in 1 .. i - 1 : u[j] = s[j]
        /\ \A j \in 1 .. i : u[j] = s[j]
    BY <1>1
  <2> QED
    BY <2>1, <2>2
<1>4. In(u, n + 1, n + 1 < n + 1 \/ r) <=> Topped(s, f, T, r)
  <2>1. (n + 1 < n + 1 \/ r) = r /\ u[n + 1] = f /\ (n + 1) - 1 = n
    BY <1>1
  <2>2. \A x : x \in Roots(s) \cup {f.at} <=> \E j \in 1 .. n + 1 : x = u[j].at
    BY <1>1, <1>2 DEF Roots, n
  <2>3. \A j \in 1 .. n : u[j] = s[j]
    BY <1>1
  <2> QED
    BY <2>1, <2>2, <2>3 DEF Topped, n
<1>5. Placed(u, T, r) <=> \A i \in 1 .. n + 1 : In(u, i, i < n + 1 \/ r)
  BY <1>1 DEF Placed
<1>6. Placed(s, T, TRUE) <=> \A i \in 1 .. n : In(s, i, TRUE)
  <2>1. \A i : (i < n \/ TRUE) = TRUE
    OBVIOUS
  <2> QED
    BY <2>1 DEF Placed, n
<1> HIDE DEF In
<1> QED
  BY <1>1, <1>2, <1>3, <1>4, <1>5, <1>6

LEMMA SoundOnTop ==
  ASSUME NEW s \in Seq(Frame), NEW f \in Frame, NEW u, u = Append(s, f), NEW r \in BOOLEAN
  PROVE  Sound(u, r) <=> Sound(s, TRUE) /\ (r => ~ Clashes(f))
<1> DEFINE n == Len(s)
<1>1. /\ n \in Nat /\ Len(u) = n + 1 /\ u[n + 1] = f
      /\ \A i \in 1 .. n : u[i] = s[i]
  BY AppendProperties
<1> HIDE DEF n
<1>2. \A i : i \in 1 .. n + 1 <=> i \in 1 .. n \/ i = n + 1
  BY <1>1
<1>3. Sound(u, r) <=> \A i \in 1 .. n + 1 : i < n + 1 \/ r => ~ Clashes(u[i])
  BY <1>1 DEF Sound
<1>4. Sound(s, TRUE) <=> \A i \in 1 .. n : ~ Clashes(s[i])
  BY DEF Sound, n
<1>5. ~ (n + 1 < n + 1) /\ \A i \in 1 .. n : i < n + 1
  BY <1>1
<1> QED
  BY <1>1, <1>2, <1>3, <1>4, <1>5

\* The places of values in their container.
LEMMA SlotAddress ==
  ASSUME NEW f \in Frame, FrameFits(f)
  PROVE  /\ Filled(f) \subseteq Address
         /\ Reads(f) => Slot(f) \in Address /\ Slot(f) # <<>>
<1>1. CASE IsArray(f)
  <2>1. f.content[<<>>] \in Node
    <3>1. IsTree(f.content)
      BY <1>1 DEF FrameFits, ValueFits
    <3> QED
      BY <3>1 DEF IsTree
  <2>2. f.content[<<>>].size \in Nat
    BY <2>1, NodeFields
  <2> DEFINE k == f.content[<<>>].size
  <2>3. \A i \in Nat : <<i>> \in Address /\ <<i>> # <<>>
    BY DEF Address
  <2>4. k + 1 \in Nat /\ \A i \in 1 .. k : i \in Nat
    BY <2>2
  <2>5. Filled(f) = {<<i>> : i \in 1 .. k} /\ Slot(f) = <<k + 1>>
    BY <1>1 DEF Filled, Slot, IsArray
  <2> HIDE DEF k
  <2> QED
    BY <2>3, <2>4, <2>5
<1>2. CASE ~ IsArray(f)
  <2>1. Filled(f) = f.assigned /\ Slot(f) = f.path
    BY <1>2 DEF Filled, Slot, IsArray
  <2>2. f.assigned \subseteq Paths /\ (Reads(f) => f.path \in Paths)
    BY <1>2 DEF Frame, Reads
  <2>3. \A p \in Paths : p \in Address /\ p # <<>>
    BY PathAddress
  <2> QED
    BY <2>1, <2>2, <2>3
<1> QED
  BY <1>1, <1>2

\* No element has the place of another.
LEMMA ArrayNeverClashes ==
  ASSUME NEW f \in Frame, FrameFits(f), IsArray(f)
  PROVE  ~ Clashes(f)
<1> DEFINE k == f.content[<<>>].size
<1>1. k \in Nat
  <2>1. IsTree(f.content)
    BY DEF FrameFits, ValueFits
  <2>2. f.content[<<>>] \in Node
    BY <2>1 DEF IsTree
  <2> QED
    BY <2>2, NodeFields
<1>2. Filled(f) = {<<i>> : i \in 1 .. k} /\ Slot(f) = <<k + 1>>
  BY DEF Filled, Slot, IsArray
<1> HIDE DEF k
<1>3. ASSUME NEW i \in Nat, NEW j \in Nat, StartsWith(<<i>>, <<j>>) PROVE i = j
  <2>1. <<i>> \in Address /\ <<j>> \in Address /\ Len(<<i>>) = 1 /\ Len(<<j>>) = 1
    BY DEF Address
  <2>2. SubSeq(<<i>>, 1, 1) = <<j>>
    BY <1>3, <2>1 DEF StartsWith
  <2>3. SubSeq(<<i>>, 1, 1) = <<i>>
    BY <2>1, WholePrefix
  <2>4. <<i>> = <<j>>
    BY <2>2, <2>3
  <2> QED
    BY <2>4
<1>4. \A i \in 1 .. k : i \in Nat /\ k + 1 \in Nat /\ i # k + 1
  BY <1>1
<1> QED
  BY <1>2, <1>3, <1>4 DEF Clashes

\* A value that does not clash is a new one.
LEMMA FreshPosition ==
  ASSUME NEW s \in Seq(Frame), NEW f \in Frame, FrameFits(f), Reads(f), NEW u, u = Append(s, f),
         NEW T \in SUBSET Address, Topped(s, f, T, FALSE), ~ Clashes(f),
         NEW p, p = f.at \o Slot(f)
  PROVE  p \in Address /\ Fresh(p, u, T)
<1> DEFINE a == f.at
           q == Slot(f)
<1>1. a \in Address /\ q \in Address /\ q # <<>> /\ Filled(f) \subseteq Address
  BY SlotAddress DEF Frame
<1>2. \A y \in Filled(f) : ~ StartsWith(y, q) /\ ~ StartsWith(q, y)
  BY DEF Clashes
<1>3. \A x \in T : a \in Prefixes(x) /\ x # a => \E y \in Filled(f) : a \o y \in Prefixes(x)
  BY DEF Topped, Lies, Given
<1>4. \A x \in T : x \in Prefixes(a) => x \in Roots(s) \cup {a}
  BY DEF Topped
<1>5. Roots(u) = Roots(s) \cup {a}
  BY OneMore DEF Longest
<1> HIDE DEF a, q
<1>6. p = a \o q
  BY DEF a, q
<1>7. /\ p \in Address /\ Prefixes(p) = Prefixes(a) \cup At(a, Prefixes(q))
      /\ a \in Prefixes(a) /\ p \in Prefixes(p)
  BY <1>1, <1>6, Joined, PrefixesJoined, PrefixesEnds
<1>8. p \notin Prefixes(a)
  <2>1. Len(p) = Len(a) + Len(q) /\ Len(a) \in Nat /\ Len(q) \in Nat /\ Len(q) # 0
    BY <1>1, <1>6, Joined, AddressLength
  <2>2. \A i \in 0 .. Len(a) : Len(SubSeq(a, 1, i)) = i
    BY <1>1, Prefix
  <2>3. \A x \in Prefixes(a) : Len(x) <= Len(a)
    BY <2>1, <2>2 DEF Prefixes
  <2>4. ~ (Len(p) <= Len(a))
    BY <2>1
  <2> QED
    BY <2>3, <2>4
<1>9. ASSUME NEW x \in T, p \in Prefixes(x) PROVE FALSE
  <2>1. x \in Address
    OBVIOUS
  <2>2. a \in Prefixes(x)
    BY <1>7, <1>9, <2>1, PrefixesTransitive
  <2>3. x # a
    BY <1>8, <1>9
  <2>4. PICK y \in Filled(f) : a \o y \in Prefixes(x)
    BY <1>3, <2>2, <2>3
  <2>5. y \in Address /\ a \o y \in Prefixes(x) /\ a \o q \in Prefixes(x)
    BY <1>1, <1>6, <1>9, <2>4
  <2>6. a \o y \in Prefixes(a \o q) \/ a \o q \in Prefixes(a \o y)
    BY <2>1, <2>5, PrefixesLinear
  <2>7. StartsWith(q, y) \/ StartsWith(y, q)
    BY <1>1, <2>5, <2>6, PrefixesCancel
  <2> QED
    BY <1>2, <2>7
<1>10. ASSUME NEW x \in T, x \in Prefixes(p) PROVE x \in Roots(u)
  <2>1. CASE x \in Prefixes(a)
    BY <1>4, <1>5, <2>1
  <2>2. CASE x \in At(a, Prefixes(q))
    <3>1. PICK z \in Prefixes(q) : x = a \o z
      BY <2>2 DEF At
    <3>2. z \in Address /\ x \in Address
      BY <1>1, PrefixesTransitive
    <3>3. a \in Prefixes(x)
      BY <1>1, <1>7, <3>1, <3>2, PrefixesJoined
    <3>4. ASSUME x # a PROVE FALSE
      <4>1. PICK y \in Filled(f) : a \o y \in Prefixes(x)
        BY <1>3, <3>3, <3>4
      <4>2. y \in Address /\ a \o y \in Prefixes(a \o q)
        BY <1>1, <1>6, <1>7, <1>10, <4>1, PrefixesTransitive
      <4>3. StartsWith(q, y)
        BY <1>1, <4>2, PrefixesCancel
      <4> QED
        BY <1>2, <4>3
    <3> QED
      BY <1>5, <3>4
  <2> QED
    BY <1>7, <1>10, <2>1, <2>2
<1> QED
  BY <1>7, <1>9, <1>10 DEF Fresh

\* A new value in the frame f has begun.
LEMMA MorePlaced ==
  ASSUME NEW s \in Seq(Frame), NEW f \in Frame, NEW u, u = Append(s, f),
         NEW T \in SUBSET Address, Roots(u) \subseteq T, Placed(u, T, FALSE),
         NEW p, p \in Address, p = f.at \o Slot(f), Slot(f) \in Address, Fresh(p, u, T)
  PROVE  /\ Placed(u, T \cup {p}, TRUE)
         /\ \A i \in 1 .. Len(u) : u[i].at \o Slot(u[i]) \in Prefixes(p)
<1> DEFINE n == Len(u)
           way(i) == u[i].at \o Slot(u[i])
<1>1. n \in Nat /\ n # 0 /\ u[n] = f /\ \A i \in 1 .. n : u[i] \in Frame
  BY AppendProperties
<1> HIDE DEF n
<1>2. \A i \in 1 .. n : u[i].at \in Roots(u)
  BY DEF Roots, n
<1>3. /\ \A i \in 1 .. n : \A j \in 1 .. i - 1 : way(j) \in Prefixes(u[i].at)
      /\ \A i \in 1 .. n : Lies(u[i].at, Given(u[i], i < n), T)
      /\ \A i \in 1 .. n : \A x \in T : x \in Prefixes(u[i].at) => \E j \in 1 .. i : x = u[j].at
  <2>1. \A i : (i < n \/ FALSE) = (i < n)
    OBVIOUS
  <2> QED
    BY <2>1 DEF Placed, n
<1>4. /\ \A x \in T : p \notin Prefixes(x)
      /\ T \cap Prefixes(p) \subseteq Roots(u)
  BY DEF Fresh
<1>5. f.at \in Address /\ p \in Prefixes(p) /\ f.at \in Prefixes(f.at)
  BY PrefixesEnds DEF Frame
<1>6. Prefixes(f.at) \subseteq Prefixes(p)
  BY <1>5, PrefixesJoined
<1>7. ASSUME NEW i \in 1 .. n PROVE way(i) \in Prefixes(p)
  <2>1. CASE i = n
    BY <1>1, <1>5, <2>1
  <2>2. CASE i # n
    <3>1. i \in 1 .. n - 1 /\ n \in 1 .. n
      BY <1>1, <2>2
    <3>2. way(i) \in Prefixes(u[n].at)
      BY <1>3, <3>1
    <3> HIDE DEF way
    <3> QED
      BY <1>1, <1>6, <3>2
  <2> QED
    BY <2>1, <2>2
<1>8. ASSUME NEW i \in 1 .. n PROVE Lies(u[i].at, Given(u[i], i < n \/ TRUE), T \cup {p})
  <2>1. Lies(u[i].at, Given(u[i], i < n), T)
    BY <1>3
  <2>2. Given(u[i], i < n) \subseteq Given(u[i], i < n \/ TRUE) /\ Slot(u[i]) \in Given(u[i], i < n \/ TRUE)
    BY DEF Given
  <2>3. u[i].at \o Slot(u[i]) \in Prefixes(p)
    BY <1>7
  <2> DEFINE D == Given(u[i], i < n)
             E == Given(u[i], i < n \/ TRUE)
  <2>4. Lies(u[i].at, D, T) /\ D \subseteq E /\ Slot(u[i]) \in E
    BY <2>1, <2>2
  <2> HIDE DEF D, E
  <2>5. Lies(u[i].at, E, T \cup {p})
    BY <2>3, <2>4 DEF Lies
  <2> QED
    BY <2>5 DEF E
<1>9. ASSUME NEW i \in 1 .. n, NEW x \in T \cup {p}, x \in Prefixes(u[i].at)
      PROVE  \E j \in 1 .. i : x = u[j].at
  <2>1. u[i].at \in T
    BY <1>2
  <2>2. x \in T
    BY <1>4, <1>9, <2>1
  <2> QED
    BY <1>3, <1>9, <2>2
<1>10. Placed(u, T \cup {p}, TRUE)
  BY <1>3, <1>8, <1>9 DEF Placed, n
<1> QED
  BY <1>7, <1>10 DEF n

\* A container has begun, in which nothing is yet.
LEMMA NewTopped ==
  ASSUME NEW s \in Seq(Frame), NEW f \in Frame, NEW T, Fresh(f.at, s, T),
         \A i \in 1 .. Len(s) : s[i].at \o Slot(s[i]) \in Prefixes(f.at)
  PROVE  Topped(s, f, T \cup {f.at}, FALSE)
<1>1. \A x \in T : f.at \notin Prefixes(x)
  BY DEF Fresh
<1>2. T \cap Prefixes(f.at) \subseteq Roots(s)
  BY DEF Fresh
<1>3. Lies(f.at, Given(f, FALSE), T \cup {f.at})
  BY <1>1 DEF Lies
<1> QED
  BY <1>2, <1>3 DEF Topped

\* There are no more open containers than frames.
LEMMA RootsFinite ==
  ASSUME NEW s \in Seq(Frame)
  PROVE  IsFiniteSet(Roots(s)) /\ Cardinality(Roots(s)) <= Len(s)
<1> DEFINE n == Len(s)
           f == [i \in 1 .. n |-> s[i].at]
<1>1. n \in Nat
  OBVIOUS
<1>2. Roots(s) = {s[i].at : i \in 1 .. n}
  BY DEF Roots
<1> HIDE DEF n
<1>3. f \in Surjection(1 .. n, Roots(s))
  BY <1>2 DEF Surjection
<1> HIDE DEF f
<1>4. IsFiniteSet(1 .. n) /\ Cardinality(1 .. n) = IF 1 > n THEN 0 ELSE n - 1 + 1
  <2>1. 1 \in Int /\ n \in Int
    BY <1>1
  <2> QED
    BY <2>1, FS_Interval
<1>5. Cardinality(1 .. n) = n
  BY <1>1, <1>4
<1>6. IsFiniteSet(Roots(s)) /\ Cardinality(Roots(s)) <= Cardinality(1 .. n)
  BY <1>3, <1>4, FS_Surjection
<1> QED
  BY <1>5, <1>6 DEF n

LEMMA NestedMore ==
  ASSUME NEW s \in Seq(Frame), Len(s) < MaxDepth, NEW T, Nested(T), NEW p \in Address, Fresh(p, s, T)
  PROVE  Nested(T \cup {p})
<1> DEFINE U == T \cup {p}
<1>1. /\ \A x \in T : p \notin Prefixes(x)
      /\ T \cap Prefixes(p) \subseteq Roots(s)
  BY DEF Fresh
<1>2. ASSUME NEW x \in T PROVE Cardinality(U \cap Prefixes(x)) <= MaxDepth
  <2>1. U \cap Prefixes(x) = T \cap Prefixes(x)
    BY <1>1
  <2> QED
    BY <2>1 DEF Nested
<1>3. Cardinality(U \cap Prefixes(p)) <= MaxDepth
  <2>1. U \cap Prefixes(p) \subseteq Roots(s) \cup {p}
    BY <1>1
  <2>2. IsFiniteSet(Roots(s)) /\ Cardinality(Roots(s)) <= Len(s) /\ Cardinality(Roots(s)) \in Nat
    BY RootsFinite, FS_CardinalityType
  <2> DEFINE R == Roots(s) \cup {p}
  <2>3. /\ IsFiniteSet(R)
        /\ Cardinality(R) = IF p \in Roots(s) THEN Cardinality(Roots(s)) ELSE Cardinality(Roots(s)) + 1
    BY <2>2, FS_AddElement
  <2>4. U \cap Prefixes(p) \in SUBSET R
    BY <2>1
  <2> HIDE DEF R
  <2>5. IsFiniteSet(U \cap Prefixes(p)) /\ Cardinality(U \cap Prefixes(p)) <= Cardinality(R)
    BY <2>3, <2>4, FS_Subset
  <2>6. Cardinality(R) <= MaxDepth /\ Cardinality(R) \in Nat
    <3>1. Len(s) \in Nat /\ MaxDepth \in Nat
      BY Limits
    <3> QED
      BY <2>2, <2>3, <3>1
  <2>7. Cardinality(U \cap Prefixes(p)) \in Nat
    BY <2>5, FS_CardinalityType
  <2> QED
    BY <2>5, <2>6, <2>7, Limits
<1> QED
  BY <1>2, <1>3 DEF Nested, U

\* The text goes on in the same container, or a value has been put into it.
LEMMA StillTopped ==
  ASSUME NEW s, NEW f, NEW g, g.at = f.at, NEW T, NEW r, Topped(s, f, T, r), Given(f, r) \subseteq Filled(g)
  PROVE  Topped(s, g, T, FALSE)
<1>1. Given(g, FALSE) = Filled(g)
  BY DEF Given
<1>2. Lies(g.at, Given(g, FALSE), T)
  BY <1>1 DEF Topped, Lies
<1> QED
  BY <1>2 DEF Topped

LEMMA BegunAddresses ==
  ASSUME Inv
  PROVE  Begun \in SUBSET Address /\ Roots(frames) \subseteq Begun /\ frames \in Seq(Frame)
<1>1. frames \in Seq(Frame) /\ said \in Seq(Address)
  BY DEF Inv, Types
<1>2. \A i \in 1 .. Len(frames) : frames[i].at \in Address
  <2>1. \A i \in 1 .. Len(frames) : frames[i] \in Frame
    BY <1>1
  <2> QED
    BY <2>1 DEF Frame
<1>3. \A i \in 1 .. Len(said) : said[i] \in Address
  BY <1>1
<1> QED
  BY <1>1, <1>2, <1>3 DEF Begun, Said, Roots

LEMMA NonePlaced ==
  ASSUME NEW T, NEW r
  PROVE  Placed(<<>>, T, r) /\ Sound(<<>>, r) /\ Roots(<<>>) = {}
<1>1. Len(<<>>) = 0 /\ 1 .. 0 = {}
  OBVIOUS
<1> QED
  BY <1>1 DEF Placed, Sound, Roots

LEMMA NestingInitially ==
  ASSUME Init
  PROVE  Nesting
<1>1. doing = "value" /\ frames = <<>> /\ said = <<>> /\ Len(<<>>) = 0 /\ 1 .. 0 = {}
  BY DEF Init
<1>2. Begun = {}
  BY <1>1, NonePlaced DEF Begun, Said
<1>3. Nested({})
  BY DEF Nested
<1> QED
  BY <1>1, <1>2, <1>3, NonePlaced DEF Nesting

LEMMA EndsNesting ==
  ASSUME NEW outcome \in Outcomes, Ends(outcome)
  PROVE  Nesting'
<1>1. doing' \notin {"value", "item", "put", "next", "done"}
  BY DEF Ends, Outcomes
<1> QED
  BY <1>1 DEF Nesting

LEMMA LimitNesting ==
  ASSUME Limit
  PROVE  Nesting'
  BY EndsNesting DEF Limit, Outcomes

\* A value begins at Position.
LEMMA Beginning ==
  ASSUME Inv, Nesting, doing = "value", depth < MaxDepth, Sound(frames, TRUE)
  PROVE  /\ Position \in Address /\ Fresh(Position, frames, Begun)
         /\ Placed(frames, Begun \cup {Position}, TRUE) /\ Nested(Begun \cup {Position})
         /\ \A i \in 1 .. Len(frames) : frames[i].at \o Slot(frames[i]) \in Prefixes(Position)
<1>1. /\ frames = <<>> => Begun = {}
      /\ Placed(frames, Begun, FALSE) /\ Nested(Begun)
  BY DEF Nesting
<1>2. Begun \in SUBSET Address /\ Roots(frames) \subseteq Begun /\ frames \in Seq(Frame)
  BY BegunAddresses
<1>3. Len(frames) < MaxDepth
  BY DEF Inv, Counts, Counted
<1>4. /\ Position \in Address /\ Fresh(Position, frames, Begun)
      /\ Placed(frames, Begun \cup {Position}, TRUE)
      /\ \A i \in 1 .. Len(frames) : frames[i].at \o Slot(frames[i]) \in Prefixes(Position)
  <2>1. CASE frames = <<>>
    <3>1. Position = <<>> /\ <<>> \in Address
      BY <2>1 DEF Position, Address
    <3>2. Fresh(Position, frames, Begun)
      BY <1>1, <2>1 DEF Fresh
    <3>3. Len(<<>>) = 0 /\ 1 .. 0 = {}
      OBVIOUS
    <3> QED
      BY <2>1, <3>1, <3>2, <3>3, NonePlaced
  <2>2. CASE frames # <<>>
    <3>1. Closed \in Seq(Frame) /\ Top \in Frame /\ frames = Append(Closed, Top)
      BY <1>2, <2>2, TopOnClosed
    <3>2. FrameFits(Top) /\ Reads(Top) /\ Position = Top.at \o Slot(Top)
      BY <2>2, TopFits DEF Inv, Shape, Position
    <3>3. Topped(Closed, Top, Begun, FALSE) /\ ~ Clashes(Top)
      BY <1>1, <3>1, OnTop, SoundOnTop
    <3>4. Position \in Address /\ Fresh(Position, frames, Begun) /\ Slot(Top) \in Address
      BY <1>2, <3>1, <3>2, <3>3, FreshPosition, SlotAddress
    <3> QED
      BY <1>1, <1>2, <3>1, <3>2, <3>4, MorePlaced
  <2> QED
    BY <2>1, <2>2
<1>5. Nested(Begun \cup {Position})
  BY <1>1, <1>2, <1>3, <1>4, NestedMore
<1> QED
  BY <1>4, <1>5

LEMMA ReadScalarNesting ==
  ASSUME Inv, Nesting, NEW size \in Sizes, ReadScalar(size)
  PROVE  Nesting'
<1>1. CASE Limit
  BY <1>1, LimitNesting
<1>2. CASE ~ Limit
  <2>1. /\ doing = "value" /\ depth < MaxDepth /\ said' = Append(said, Position) /\ frames' = frames
        /\ doing' = (IF frames = <<>> THEN "done" ELSE "put")
    BY <1>2 DEF ReadScalar, Ended
  <2>2. Begun' = Begun \cup {Position}
    <3>1. Said' = Said \cup {Position}
      BY <2>1, SaidMore DEF Inv, Types
    <3>2. Roots(frames') = Roots(frames)
      BY <2>1
    <3> QED
      BY <3>1, <3>2 DEF Begun
  <2>3. ASSUME Sound(frames, TRUE)
        PROVE  Placed(frames, Begun \cup {Position}, TRUE) /\ Nested(Begun \cup {Position})
    BY <2>1, <2>3, Beginning
  <2>4. CASE frames = <<>>
    <3>1. Nested(Begun')
      BY <2>2, <2>3, <2>4, NonePlaced
    <3> QED
      BY <2>1, <2>4, <3>1, NonePlaced DEF Nesting
  <2>5. CASE frames # <<>>
    <3>1. doing' = "put" /\ frames' = frames
      BY <2>1, <2>5
    <3> QED
      BY <2>2, <2>3, <2>5, <3>1 DEF Nesting
  <2> QED
    BY <2>4, <2>5
<1> QED
  BY <1>1, <1>2

LEMMA OpenNesting ==
  ASSUME Inv, Nesting, NEW n \in Node, n.size = 0, NEW allowed, OpenContainer(n, allowed)
  PROVE  Nesting'
<1> DEFINE f == [content |-> [x \in {<<>>} |-> n], path |-> <<>>, previous |-> newlines,
                 at |-> Position, assigned |-> {}]
<1>1. /\ doing = "value" /\ doing' = "item" /\ frames' = Append(frames, f) /\ said' = said
      /\ depth < MaxDepth
  BY DEF OpenContainer
<1>2. frames \in Seq(Frame) /\ Position \in Address /\ newlines \in BOOLEAN
  BY PositionAddress DEF Inv, Types, Shape
<1>3. f \in Frame
  <2> DEFINE c == [x \in {<<>>} |-> n]
  <2>1. c \in Contents
    BY SingleContent
  <2>2. f = [content |-> c, path |-> <<>>, previous |-> newlines, at |-> Position, assigned |-> {}]
    OBVIOUS
  <2> HIDE DEF c, f
  <2> QED
    BY <1>2, <2>1, <2>2, NewFrame
<1>4. f.at = Position
  OBVIOUS
<1> HIDE DEF f
<1> DEFINE u == Append(frames, f)
           T == Begun \cup {Position}
<1>5. u = Append(frames, f)
  OBVIOUS
<1>6. u # <<>>
  BY <1>2, <1>3, AppendProperties
<1> HIDE DEF u, T
<1>7. /\ Longest(u, frames, f, T) /\ Roots(u) = Roots(frames) \cup {Position}
      /\ Placed(u, T, FALSE) <=> Placed(frames, T, TRUE) /\ Topped(frames, f, T, FALSE)
      /\ Sound(u, FALSE) => Sound(frames, TRUE)
  <2>1. Longest(u, frames, f, T)
    BY <1>2, <1>3, <1>5, OneMore
  <2>2. FALSE \in BOOLEAN
    OBVIOUS
  <2>3. Placed(u, T, FALSE) <=> Placed(frames, T, TRUE) /\ Topped(frames, f, T, FALSE)
    BY <1>2, <1>3, <1>5, <2>2, OnTop
  <2>4. Sound(u, FALSE) => Sound(frames, TRUE)
    BY <1>2, <1>3, <1>5, <2>2, SoundOnTop
  <2> QED
    BY <1>4, <2>1, <2>3, <2>4 DEF Longest
<1>8. frames' = u
  BY <1>1, <1>5
<1>9. Begun' = T
  BY <1>1, <1>7, <1>8 DEF Begun, Said, T
<1>10. ASSUME Sound(u, FALSE) PROVE Placed(u, T, FALSE) /\ Nested(T)
  <2>1. /\ Fresh(Position, frames, Begun) /\ Placed(frames, T, TRUE) /\ Nested(T)
        /\ \A i \in 1 .. Len(frames) : frames[i].at \o Slot(frames[i]) \in Prefixes(Position)
    BY <1>1, <1>7, <1>10, Beginning DEF T
  <2>2. Topped(frames, f, T, FALSE)
    BY <1>2, <1>3, <1>4, <2>1, NewTopped DEF T
  <2> QED
    BY <1>7, <2>1, <2>2
<1>11. (doing' \in {"value", "put"}) = FALSE /\ (doing' = "put") = FALSE /\ doing' # "done"
  BY <1>1
<1> QED
  BY <1>6, <1>8, <1>9, <1>10, <1>11 DEF Nesting

LEMMA CloseNesting ==
  ASSUME Inv, Nesting, Close
  PROVE  Nesting'
<1>1. doing \in {"item", "next"}
  BY DEF Close, MayClose
<1>2. frames # <<>> /\ frames \in Seq(Frame) /\ said \in Seq(Address)
  BY <1>1 DEF Inv, Types, Shape
<1>3. CASE Limit
  BY <1>3, LimitNesting
<1>4. CASE ~ Limit
  <2>1. /\ said' = Append(said, Top.at) /\ frames' = Closed
        /\ doing' = (IF Closed = <<>> THEN "done" ELSE "put")
    BY <1>4 DEF Close, Ended
  <2>2. Closed \in Seq(Frame) /\ Top \in Frame /\ frames = Append(Closed, Top)
    BY <1>2, TopOnClosed
  <2>3. Roots(frames) = Roots(Closed) \cup {Top.at}
    BY <2>2, OneMore DEF Longest
  <2>4. Said' = Said \cup {Top.at}
    BY <1>2, <2>1, SaidMore
  <2>5. Begun' = Begun
    <3>1. Roots(frames') = Roots(Closed)
      BY <2>1
    <3> QED
      BY <2>3, <2>4, <3>1 DEF Begun
  <2>6. ASSUME Sound(Closed, TRUE) PROVE Placed(Closed, Begun, TRUE) /\ Nested(Begun)
    <3>1. Sound(frames, FALSE)
      BY <2>2, <2>6, SoundOnTop
    <3>2. (doing \in {"value", "put"}) = FALSE /\ (doing = "put") = FALSE
      BY <1>1
    <3>3. Placed(frames, Begun, FALSE) /\ Nested(Begun)
      BY <1>1, <3>1, <3>2 DEF Nesting
    <3> QED
      BY <2>2, <3>3, OnTop
  <2>7. CASE Closed = <<>>
    <3>1. Nested(Begun)
      BY <2>6, <2>7, NonePlaced
    <3> QED
      BY <2>1, <2>5, <2>7, <3>1, NonePlaced DEF Nesting
  <2>8. CASE Closed # <<>>
    <3>1. doing' = "put" /\ frames' = Closed
      BY <2>1, <2>8
    <3> QED
      BY <2>5, <2>6, <2>8, <3>1 DEF Nesting
  <2> QED
    BY <2>7, <2>8
<1> QED
  BY <1>3, <1>4

\* The text goes on in the same container, also when a value has been put into it.
LEMMA GoesNesting ==
  ASSUME Inv, Nesting, doing \in {"item", "put", "next"}, NEW d \in {"value", "item", "next"}, Goes(d),
         NEW g \in Frame, g.at = Top.at, frames' = Append(Closed, g),
         Given(Top, doing = "put") \subseteq Filled(g), doing = "put" => ~ Clashes(Top)
  PROVE  Nesting'
<1>1. doing' = d /\ said' = said
  BY DEF Goes
<1>2. frames # <<>> /\ frames \in Seq(Frame)
  BY DEF Inv, Types, Shape
<1>3. Closed \in Seq(Frame) /\ Top \in Frame /\ frames = Append(Closed, Top)
  BY <1>2, TopOnClosed
<1> DEFINE u == Append(Closed, g)
<1> PICK r \in BOOLEAN : r = (doing = "put")
  OBVIOUS
<1>4. u = Append(Closed, g) /\ r \in BOOLEAN /\ (doing \in {"value", "put"}) = r
  OBVIOUS
<1>5. u # <<>>
  BY <1>3, AppendProperties
<1>6. Given(Top, r) \subseteq Filled(g) /\ (r => ~ Clashes(Top))
  OBVIOUS
<1>7. Sound(frames, r) => Placed(frames, Begun, r) /\ Nested(Begun)
  BY <1>4 DEF Nesting
<1> HIDE DEF u
<1>8. frames' = u
  BY <1>4
<1>9. Sound(u, FALSE) \/ Sound(u, TRUE) => Sound(Closed, TRUE)
  <2>1. Sound(u, FALSE) => Sound(Closed, TRUE)
    BY <1>3, <1>4, SoundOnTop
  <2>2. Sound(u, TRUE) => Sound(Closed, TRUE)
    BY <1>3, <1>4, SoundOnTop
  <2> QED
    BY <2>1, <2>2
<1>10. Sound(Closed, TRUE) => Sound(frames, r)
  BY <1>3, <1>4, <1>6, SoundOnTop
<1>11. Roots(u) = Roots(frames)
  <2>1. Longest(u, Closed, g, Begun) /\ Longest(frames, Closed, Top, Begun)
    BY <1>3, <1>4, OneMore
  <2> QED
    BY <2>1 DEF Longest
<1>12. ASSUME Placed(frames, Begun, r) PROVE Placed(u, Begun, FALSE)
  <2> DEFINE T == Begun
  <2> HIDE DEF T
  <2>1. Placed(frames, T, r) <=> Placed(Closed, T, TRUE) /\ Topped(Closed, Top, T, r)
    BY <1>3, <1>4, OnTop
  <2>2. Placed(Closed, T, TRUE) /\ Topped(Closed, Top, T, r)
    BY <1>12, <2>1 DEF T
  <2>3. Topped(Closed, g, T, FALSE)
    BY <1>6, <2>2, StillTopped
  <2>4. Placed(u, T, FALSE)
    BY <1>3, <1>4, <2>2, <2>3, OnTop
  <2> QED
    BY <2>4 DEF T
<1>13. Begun' = Begun
  BY <1>1, <1>8, <1>11 DEF Begun, Said
<1>14. /\ doing' # "done" /\ (doing' = "put") = FALSE
       /\ (doing' \in {"value", "put"}) = FALSE \/ (doing' \in {"value", "put"}) = TRUE
  BY <1>1
<1>15. Sound(u, doing' \in {"value", "put"}) => Placed(u, Begun, FALSE) /\ Nested(Begun)
  BY <1>7, <1>9, <1>10, <1>12, <1>14
<1> QED
  BY <1>5, <1>8, <1>13, <1>14, <1>15 DEF Nesting

LEMMA PassingNesting ==
  ASSUME Inv, Nesting, Comma \/ Element
  PROVE  Nesting'
<1>1. /\ doing \in {"item", "next"} /\ frames' = frames
      /\ \E d \in {"value", "item"} : Goes(d)
  BY DEF Comma, Element
<1>2. PICK d \in {"value", "item"} : Goes(d)
  BY <1>1
<1>3. frames \in Seq(Frame) /\ frames # <<>>
  BY <1>1 DEF Inv, Types, Shape
<1>4. Top \in Frame /\ frames' = Append(Closed, Top)
  BY <1>1, <1>3, TopOnClosed
<1>5. Given(Top, doing = "put") \subseteq Filled(Top) /\ (doing = "put" => ~ Clashes(Top))
  BY <1>1 DEF Given
<1> DEFINE g == Top
<1>6. g \in Frame /\ g.at = Top.at /\ frames' = Append(Closed, g) /\ Given(Top, doing = "put") \subseteq Filled(g)
  BY <1>4, <1>5
<1> HIDE DEF g
<1> QED
  BY <1>1, <1>2, <1>5, <1>6, GoesNesting

LEMMA KeyNesting ==
  ASSUME Inv, Nesting, NEW p \in Paths, Key(p)
  PROVE  Nesting'
<1>1. CASE Limit
  BY <1>1, LimitNesting
<1>2. CASE ~ Limit
  <2> DEFINE g == [Top EXCEPT !.path = p, !.previous = newlines]
  <2>1. doing = "item" /\ Goes("value") /\ frames' = Append(Closed, g)
    BY <1>2 DEF Key, Replaced
  <2>2. frames # <<>> /\ frames \in Seq(Frame) /\ newlines \in BOOLEAN
    BY <2>1 DEF Inv, Types, Shape
  <2>3. Top \in Frame
    BY <2>2, TopFrame
  <2>4. g \in Frame /\ g.at = Top.at /\ g.content = Top.content /\ g.assigned = Top.assigned
    BY <2>2, <2>3 DEF Frame
  <2> HIDE DEF g
  <2>5. Given(Top, doing = "put") \subseteq Filled(g) /\ (doing = "put" => ~ Clashes(Top))
    BY <2>1, <2>4 DEF Given, Filled, IsArray
  <2> QED
    BY <2>1, <2>4, <2>5, GoesNesting
<1> QED
  BY <1>1, <1>2

LEMMA PutElementNesting ==
  ASSUME Inv, Nesting, PutElement
  PROVE  Nesting'
<1>1. CASE Limit
  BY <1>1, LimitNesting
<1>2. CASE ~ Limit
  <2> DEFINE t == Top.content
             n == t[<<>>].size
             k == n + 1
             w == Longer(t)
             q == <<k>>
             c == Graft(w, q, parsed)
             g == [Top EXCEPT !.content = c]
  <2>1. doing = "put" /\ t[<<>>].kind = "array" /\ Goes("next") /\ q = Slot(Top)
    BY <1>2 DEF PutElement, InArray, Slot
  <2>2. frames' = Append(Closed, g)
    BY <1>2, <2>1 DEF PutElement, Replaced
  <2>3. /\ frames \in Seq(Frame) /\ frames # <<>> /\ IsTree(parsed) /\ IsTree(t)
        /\ Top \in Frame /\ t \in Contents /\ ValueFits(parsed) /\ ValueFits(t) /\ FrameFits(Top)
    <3>1. frames # <<>> /\ frames \in Seq(Frame) /\ ValueFits(parsed)
      BY <2>1 DEF Inv, Types, Shape
    <3>2. Top \in Frame /\ t \in Contents /\ FrameFits(Top)
      BY <3>1, TopFrame, TopFits
    <3> QED
      BY <2>1, <3>1, <3>2 DEF FrameFits, IsArray, ValueFits
  <2>4. k \in Nat /\ q \in Address /\ DOMAIN w = DOMAIN t /\ q \notin DOMAIN t /\ IsTreeBut(w, q)
    <3>1. k = t[<<>>].size + 1 /\ w = Longer(t) /\ q = <<k>>
      OBVIOUS
    <3> HIDE DEF w, k, q, t
    <3>2. k \in Nat /\ <<k>> \in Address /\ DOMAIN w = DOMAIN t /\ <<k>> \notin DOMAIN t /\ IsTreeBut(w, <<k>>)
      BY <2>1, <2>3, <3>1, RoomForElement
    <3> QED
      BY <3>1, <3>2
  <2>5. \A y \in DOMAIN parsed : y \in Address
    BY <2>3, TreeFields
  <2>6. c \in Contents
    BY <2>1, <2>3, ElementFits DEF WithElement
  <2>7. n \in Nat /\ k = n + 1 /\ <<>> \in DOMAIN t /\ w[<<>>].size = k /\ w[<<>>].kind = "array"
    <3>1. <<>> \in DOMAIN t /\ t[<<>>] \in Node
      BY <2>3 DEF IsTree
    <3> HIDE DEF t
    <3> QED
      BY <2>1, <3>1, NodeFields DEF Longer, Node
  <2> HIDE DEF w, q, k, n
  <2>8. IsGraft(c, w, q, parsed)
    BY <2>4, <2>5, Grafted
  <2> HIDE DEF c
  <2>9. c[<<>>] = w[<<>>]
    BY <2>4, <2>7, <2>8 DEF IsGraft
  <2>10. g \in Frame /\ g.content = c /\ g.at = Top.at
    BY <2>3, <2>6 DEF Frame
  <2> HIDE DEF g
  <2>11. ~ Clashes(Top)
    <3>1. IsArray(Top)
      BY <2>1 DEF IsArray
    <3> QED
      BY <2>3, <3>1, ArrayNeverClashes
  <2>12. Given(Top, doing = "put") \subseteq Filled(g)
    <3>1. Filled(Top) = {<<i>> : i \in 1 .. n}
      BY <2>1 DEF Filled, IsArray, n
    <3>2. Filled(g) = {<<i>> : i \in 1 .. k}
      BY <2>7, <2>9, <2>10 DEF Filled, IsArray
    <3>3. Slot(Top) = <<k>>
      BY <2>1 DEF q
    <3>4. \A i \in 1 .. n : i \in 1 .. k
      BY <2>7
    <3>5. k \in 1 .. k
      BY <2>7
    <3> QED
      BY <2>1, <3>1, <3>2, <3>3, <3>4, <3>5 DEF Given
  <2> HIDE DEF t
  <2> QED
    BY <2>1, <2>2, <2>10, <2>11, <2>12, GoesNesting
<1> QED
  BY <1>1, <1>2

LEMMA PutMemberNesting ==
  ASSUME Inv, Nesting, PutMember
  PROVE  Nesting'
<1> DEFINE t == Top.content
           p == Top.path
<1>1. CASE ~ Inserts(t, p)
  <2>1. Ends("conflict") /\ "conflict" \in Outcomes
    BY <1>1 DEF PutMember, Outcomes
  <2> QED
    BY <2>1, EndsNesting
<1>2. CASE Inserts(t, p)
  <2> DEFINE c == Graft(WithWay(t, p), p, parsed)
             a == Top.assigned \cup {p}
             g == [Top EXCEPT !.content = c, !.assigned = a]
  <2>1. doing = "put" /\ t[<<>>].kind # "array" /\ Goes("next") /\ frames' = Append(Closed, g)
    BY <1>2 DEF PutMember, InArray, Replaced
  <2>2. /\ frames \in Seq(Frame) /\ frames # <<>> /\ ValueFits(parsed)
        /\ Top \in Frame /\ FrameFits(Top) /\ Reads(Top)
    <3>1. frames # <<>> /\ frames \in Seq(Frame) /\ ValueFits(parsed) /\ Reads(frames[Len(frames)])
      BY <2>1 DEF Inv, Types, Shape
    <3> QED
      BY <3>1, TopFits
  <2>3. p \in Paths /\ Top.assigned \in SUBSET Paths /\ TableFits(t, Top.assigned)
    BY <2>1, <2>2 DEF Reads, Frame, IsArray, FrameFits
  <2>4. p = Slot(Top) /\ Filled(Top) = Top.assigned
    BY <2>1 DEF Slot, Filled, IsArray
  <2>5. ~ Clashes(Top)
    <3>1. ~ \E q \in Top.assigned : StartsWith(q, p) \/ StartsWith(p, q)
      <4> DEFINE b == Top.assigned
      <4>1. b \in SUBSET Paths /\ TableFits(t, b) /\ p \in Paths /\ Inserts(t, p)
        BY <1>2, <2>3
      <4> HIDE DEF b, t, p, c, a, g
      <4>2. ~ \E q \in b : StartsWith(q, p) \/ StartsWith(p, q)
        BY <4>1, InsertsExactly
      <4> QED
        BY <4>2 DEF b
    <3> QED
      BY <2>4, <3>1 DEF Clashes
  <2>6. c \in Contents /\ TableFits(c, a)
    BY <1>2, <2>2, <2>3, MemberFits
  <2>7. a \in SUBSET Paths
    BY <2>3
  <2>8. Given(Top, TRUE) = a
    BY <2>4 DEF Given
  <2> HIDE DEF c, a
  <2>9. g \in Frame /\ g.content = c /\ g.at = Top.at /\ g.assigned = a
    <3>1. Top \in Frame
      BY <2>2
    <3> QED
      BY <2>6, <2>7, <3>1 DEF Frame
  <2> HIDE DEF g
  <2>10. Filled(g) = a
    BY <2>6, <2>9 DEF Filled, IsArray, TableFits
  <2>11. Given(Top, doing = "put") \subseteq Filled(g)
    <3>1. (doing = "put") = TRUE
      BY <2>1
    <3> QED
      BY <2>8, <2>10, <3>1
  <2> HIDE DEF t, p
  <2> QED
    BY <2>1, <2>5, <2>9, <2>11, GoesNesting
<1> QED
  BY <1>1, <1>2

LEMMA NestingStep ==
  ASSUME Inv, Nesting, [Next]_vars
  PROVE  Nesting'
<1>1. CASE UNCHANGED vars
  <2>1. doing' = doing /\ frames' = frames /\ Begun' = Begun
    BY <1>1 DEF vars, Begun, Said
  <2> QED
    BY <2>1 DEF Nesting
<1>2. CASE TooDeep
  BY <1>2, LimitNesting DEF TooDeep
<1>3. ASSUME NEW size \in Sizes, ReadScalar(size) PROVE Nesting'
  BY <1>3, ReadScalarNesting
<1>4. CASE OpenArray
  <2>1. Array(0) \in Node /\ Array(0).size = 0
    BY DEF Array, ArrayTable, Node, Definitions
  <2> QED
    BY <1>4, <2>1, OpenNesting DEF OpenArray
<1>5. CASE OpenTable
  <2>1. Table("implicit") \in Node /\ Table("implicit").size = 0
    BY NewTable DEF Definitions
  <2> QED
    BY <1>5, <2>1, OpenNesting DEF OpenTable
<1>6. CASE Close
  BY <1>6, CloseNesting
<1>7. CASE Comma \/ Element
  BY <1>7, PassingNesting
<1>8. CASE PutElement
  BY <1>8, PutElementNesting
<1>9. ASSUME NEW p \in Paths, Key(p) PROVE Nesting'
  BY <1>9, KeyNesting
<1>10. CASE PutMember
  BY <1>10, PutMemberNesting
<1>11. CASE Malformed
  BY <1>11, EndsNesting DEF Malformed, Outcomes
<1> QED
  BY <1>1, <1>2, <1>3, <1>4, <1>5, <1>6, <1>7, <1>8, <1>9, <1>10, <1>11 DEF Next

\* No array has more elements than it may.
Small(c) == \A x \in DOMAIN c : c[x].size <= MaxItems

Sized ==
  /\ \A i \in 1 .. Len(frames) : Small(frames[i].content)
  /\ doing \in {"put", "done"} => Small(parsed)

LEMMA SizedInitially ==
  ASSUME Init
  PROVE  Sized
<1>1. doing = "value" /\ frames = <<>> /\ Len(<<>>) = 0 /\ 1 .. 0 = {}
  BY DEF Init
<1> QED
  BY <1>1 DEF Sized

LEMMA EndsSized ==
  ASSUME NEW outcome \in Outcomes, Ends(outcome)
  PROVE  Sized'
<1>1. doing' \notin {"put", "done"} /\ frames' = <<>> /\ Len(<<>>) = 0 /\ 1 .. 0 = {}
  BY DEF Ends, Outcomes
<1> QED
  BY <1>1 DEF Sized

LEMMA LimitSized ==
  ASSUME Limit
  PROVE  Sized'
  BY EndsSized DEF Limit, Outcomes

\* One frame is opened, or another one takes the place of the innermost.
LEMMA OnTopSized ==
  ASSUME NEW s \in Seq(Frame), \A i \in 1 .. Len(s) : Small(s[i].content), NEW f \in Frame, Small(f.content),
         frames' = Append(s, f), doing' \notin {"put", "done"}
  PROVE  Sized'
<1> DEFINE u == Append(s, f)
           n == Len(s)
<1>1. /\ n \in Nat /\ Len(u) = n + 1 /\ u[n + 1] = f
      /\ \A i \in 1 .. n : u[i] = s[i]
  BY AppendProperties
<1>2. frames' = u
  OBVIOUS
<1> HIDE DEF u, n
<1>3. \A i : i \in 1 .. n + 1 <=> i \in 1 .. n \/ i = n + 1
  BY <1>1
<1>4. \A i \in 1 .. n : Small(s[i].content)
  BY DEF n
<1>5. \A i \in 1 .. Len(u) : Small(u[i].content)
  BY <1>1, <1>3, <1>4
<1> QED
  BY <1>2, <1>5 DEF Sized

LEMMA ClosedSized ==
  ASSUME Sized, frames \in Seq(Frame), frames # <<>>
  PROVE  Small(Top.content) /\ \A i \in 1 .. Len(Closed) : Small(Closed[i].content)
<1>1. Len(frames) \in Nat \ {0} /\ Top = frames[Len(frames)]
  BY TopFrame
<1>2. /\ Len(Closed) = Len(frames) - 1
      /\ \A i \in 1 .. Len(frames) - 1 : Closed[i] = frames[i]
  BY Shortened DEF Closed
<1>3. \A i \in 1 .. Len(frames) : Small(frames[i].content)
  BY DEF Sized
<1>4. Len(frames) \in 1 .. Len(frames) /\ \A i \in 1 .. Len(Closed) : i \in 1 .. Len(frames)
  BY <1>1, <1>2
<1> QED
  BY <1>1, <1>2, <1>3, <1>4

\* Nodes that are small stay so when they are put in one another.
LEMMA GraftSmall ==
  ASSUME NEW c, NEW w, NEW q, NEW v, IsGraft(c, w, q, v), Small(w), Small(v)
  PROVE  Small(c)
<1> SUFFICES ASSUME NEW x \in DOMAIN c PROVE c[x].size <= MaxItems
  BY DEF Small
<1>1. CASE x \in DOMAIN w
  BY <1>1 DEF IsGraft, Small
<1>2. CASE x \notin DOMAIN w
  <2>1. PICK y \in DOMAIN v : x = q \o y
    BY <1>2 DEF IsGraft
  <2>2. c[q \o y] = v[y]
    BY DEF IsGraft
  <2> QED
    BY <2>1, <2>2 DEF Small
<1> QED
  BY <1>1, <1>2

LEMMA ReadScalarSized ==
  ASSUME Inv, Sized, NEW size \in Sizes, ReadScalar(size)
  PROVE  Sized'
<1>1. CASE Limit
  BY <1>1, LimitSized
<1>2. CASE ~ Limit
  <2>1. frames' = frames /\ parsed' = [x \in {<<>>} |-> Leaf]
    BY <1>2 DEF ReadScalar, Ended
  <2>2. Leaf.size = 0 /\ 0 <= MaxItems
    BY ValuesAssumption DEF Leaf, Array, ArrayTable
  <2>3. Small([x \in {<<>>} |-> Leaf])
    BY <2>2 DEF Small
  <2> QED
    BY <2>1, <2>3 DEF Sized
<1> QED
  BY <1>1, <1>2

LEMMA OpenSized ==
  ASSUME Inv, Sized, NEW n \in Node, n.size = 0, NEW allowed, OpenContainer(n, allowed)
  PROVE  Sized'
<1> DEFINE c == [x \in {<<>>} |-> n]
           f == [content |-> c, path |-> <<>>, previous |-> newlines, at |-> Position, assigned |-> {}]
<1>1. doing' = "item" /\ frames' = Append(frames, f)
  BY DEF OpenContainer
<1>2. frames \in Seq(Frame) /\ Position \in Address /\ newlines \in BOOLEAN
  BY PositionAddress DEF Inv, Types, Shape
<1>3. c \in Contents /\ Small(c)
  <2>1. 0 <= MaxItems
    BY ValuesAssumption
  <2> QED
    BY <2>1, SingleContent DEF Small
<1> HIDE DEF c
<1>4. f \in Frame /\ f.content = c
  BY <1>2, <1>3, NewFrame
<1> HIDE DEF f
<1>5. \A i \in 1 .. Len(frames) : Small(frames[i].content)
  BY DEF Sized
<1> QED
  BY <1>1, <1>2, <1>3, <1>4, <1>5, OnTopSized

LEMMA CloseSized ==
  ASSUME Inv, Sized, Close
  PROVE  Sized'
<1>1. doing \in {"item", "next"}
  BY DEF Close, MayClose
<1>2. frames # <<>> /\ frames \in Seq(Frame)
  BY <1>1 DEF Inv, Types, Shape
<1>3. CASE Limit
  BY <1>3, LimitSized
<1>4. CASE ~ Limit
  <2> DEFINE t == Top.content
             c == IF InArray THEN t ELSE MarkInlineTable(t)
  <2>1. frames' = Closed /\ parsed' = c
    BY <1>4 DEF Close, Ended
  <2>2. Small(t) /\ \A i \in 1 .. Len(Closed) : Small(Closed[i].content)
    BY <1>2, ClosedSized
  <2>3. IsTree(t)
    BY <1>2, TopFits
  <2>4. Small(MarkInlineTable(t))
    <3>1. \A x \in DOMAIN t : t[x] \in Node
      BY <2>3, TreeFields
    <3> HIDE DEF t
    <3>2. \A x \in DOMAIN t : Marked(t[x]).size = t[x].size
      BY <3>1 DEF Marked, Node
    <3> QED
      BY <2>2, <3>2 DEF Small, MarkInlineTable
  <2>5. Small(c)
    BY <2>2, <2>4
  <2> HIDE DEF c
  <2> QED
    BY <2>1, <2>2, <2>5 DEF Sized
<1> QED
  BY <1>3, <1>4

LEMMA PassingSized ==
  ASSUME Sized, Comma \/ Element
  PROVE  Sized'
<1>1. frames' = frames /\ doing' \notin {"put", "done"}
  BY DEF Comma, Element, Goes
<1> QED
  BY <1>1 DEF Sized

LEMMA KeySized ==
  ASSUME Inv, Sized, NEW p \in Paths, Key(p)
  PROVE  Sized'
<1>1. CASE Limit
  BY <1>1, LimitSized
<1>2. CASE ~ Limit
  <2> DEFINE g == [Top EXCEPT !.path = p, !.previous = newlines]
  <2>1. doing = "item" /\ Goes("value") /\ frames' = Append(Closed, g)
    BY <1>2 DEF Key, Replaced
  <2>2. frames # <<>> /\ frames \in Seq(Frame) /\ newlines \in BOOLEAN
    BY <2>1 DEF Inv, Types, Shape
  <2>3. Top \in Frame /\ Closed \in Seq(Frame)
    BY <2>2, TopOnClosed
  <2>4. g \in Frame /\ g.content = Top.content
    BY <2>2, <2>3 DEF Frame
  <2> HIDE DEF g
  <2>5. doing' \notin {"put", "done"}
    BY <2>1 DEF Goes
  <2>6. Small(Top.content) /\ \A i \in 1 .. Len(Closed) : Small(Closed[i].content)
    BY <2>2, ClosedSized
  <2> QED
    BY <2>1, <2>3, <2>4, <2>5, <2>6, OnTopSized
<1> QED
  BY <1>1, <1>2

LEMMA PutElementSized ==
  ASSUME Inv, Sized, PutElement
  PROVE  Sized'
<1>1. CASE Limit
  BY <1>1, LimitSized
<1>2. CASE ~ Limit
  <2> DEFINE t == Top.content
             k == t[<<>>].size + 1
             w == Longer(t)
             q == <<k>>
             c == Graft(w, q, parsed)
             g == [Top EXCEPT !.content = c]
  <2>1. doing = "put" /\ t[<<>>].kind = "array" /\ Goes("next") /\ q = Slot(Top)
        /\ t[<<>>].size < MaxItems
    BY <1>2 DEF PutElement, InArray, Slot
  <2>2. frames' = Append(Closed, g)
    BY <1>2, <2>1 DEF PutElement, Replaced
  <2>3. /\ frames \in Seq(Frame) /\ frames # <<>> /\ IsTree(parsed) /\ IsTree(t)
        /\ Top \in Frame /\ t \in Contents /\ ValueFits(parsed) /\ ValueFits(t)
    <3>1. frames # <<>> /\ frames \in Seq(Frame) /\ ValueFits(parsed)
      BY <2>1 DEF Inv, Types, Shape
    <3>2. Top \in Frame /\ t \in Contents /\ FrameFits(Top)
      BY <3>1, TopFrame, TopFits
    <3> QED
      BY <2>1, <3>1, <3>2 DEF FrameFits, IsArray, ValueFits
  <2>4. Small(parsed) /\ Small(t) /\ Closed \in Seq(Frame)
        /\ \A i \in 1 .. Len(Closed) : Small(Closed[i].content)
    BY <2>1, <2>3, ClosedSized, TopOnClosed DEF Sized
  <2>5. c \in Contents
    BY <2>1, <2>3, ElementFits DEF WithElement
  <2>6. Small(w) /\ IsGraft(c, w, q, parsed)
    <3>1. k = t[<<>>].size + 1 /\ w = Longer(t) /\ q = <<k>> /\ c = Graft(w, q, parsed)
      OBVIOUS
    <3> HIDE DEF w, k, q, t, c
    <3>2. /\ <<k>> \in Address /\ DOMAIN w = DOMAIN t /\ <<k>> \notin DOMAIN t
          /\ IsTreeBut(w, <<k>>) /\ k \in Nat
          /\ \A x \in DOMAIN t \ {<<>>} : w[x] = t[x]
          /\ w[<<>>] = [t[<<>>] EXCEPT !.size = k]
      BY <2>1, <2>3, <3>1, RoomForElement
    <3>3. \A y \in DOMAIN parsed : y \in Address
      BY <2>3, TreeFields
    <3>4. t[<<>>] \in Node
      BY <2>3 DEF IsTree
    <3>5. w[<<>>].size = k /\ k <= MaxItems
      <4>1. t[<<>>].size \in Nat /\ MaxItems \in Nat
        BY <3>4, NodeFields, ValuesAssumption
      <4>2. k <= MaxItems
        BY <2>1, <3>1, <4>1
      <4> QED
        BY <3>2, <3>4, <4>2 DEF Node
    <3>6. Small(w)
      BY <2>4, <3>2, <3>5 DEF Small
    <3> QED
      BY <3>1, <3>2, <3>3, <3>6, Grafted
  <2>7. Small(c)
    BY <2>4, <2>6, GraftSmall
  <2> HIDE DEF c, w, q, k
  <2>8. g \in Frame /\ g.content = c
    BY <2>3, <2>5 DEF Frame
  <2> HIDE DEF g
  <2>9. doing' \notin {"put", "done"}
    BY <2>1 DEF Goes
  <2> QED
    BY <2>2, <2>4, <2>7, <2>8, <2>9, OnTopSized
<1> QED
  BY <1>1, <1>2

LEMMA PutMemberSized ==
  ASSUME Inv, Sized, PutMember
  PROVE  Sized'
<1> DEFINE t == Top.content
           p == Top.path
<1>1. CASE ~ Inserts(t, p)
  <2>1. Ends("conflict") /\ "conflict" \in Outcomes
    BY <1>1 DEF PutMember, Outcomes
  <2> QED
    BY <2>1, EndsSized
<1>2. CASE Inserts(t, p)
  <2> DEFINE w == WithWay(t, p)
             c == Graft(w, p, parsed)
             a == Top.assigned \cup {p}
             g == [Top EXCEPT !.content = c, !.assigned = a]
  <2>1. doing = "put" /\ t[<<>>].kind # "array" /\ Goes("next") /\ frames' = Append(Closed, g)
    BY <1>2 DEF PutMember, InArray, Replaced
  <2>2. /\ frames \in Seq(Frame) /\ frames # <<>> /\ ValueFits(parsed)
        /\ Top \in Frame /\ FrameFits(Top) /\ Reads(Top)
    <3>1. frames # <<>> /\ frames \in Seq(Frame) /\ ValueFits(parsed) /\ Reads(frames[Len(frames)])
      BY <2>1 DEF Inv, Types, Shape
    <3> QED
      BY <3>1, TopFits
  <2>3. p \in Paths /\ Top.assigned \in SUBSET Paths /\ TableFits(t, Top.assigned) /\ IsTree(t)
    BY <2>1, <2>2 DEF Reads, Frame, IsArray, FrameFits, TableFits
  <2>4. Small(parsed) /\ Small(t) /\ Closed \in Seq(Frame)
        /\ \A i \in 1 .. Len(Closed) : Small(Closed[i].content)
    BY <2>1, <2>2, ClosedSized, TopOnClosed DEF Sized
  <2>5. c \in Contents
    BY <1>2, <2>2, <2>3, MemberFits
  <2>6. Small(w) /\ IsGraft(c, w, p, parsed)
    <3> DEFINE b == Top.assigned
    <3>1. b \in SUBSET Paths /\ TableFits(t, b) /\ p \in Paths /\ Inserts(t, p)
      BY <1>2, <2>3
    <3>2. w = WithWay(t, p) /\ c = Graft(w, p, parsed)
      OBVIOUS
    <3> HIDE DEF b, t, p, w, c, a, g
    <3>3. IsTree(w) /\ p \notin DOMAIN w /\ p \in Address
      BY <3>1, <3>2, WayFits, PathAddress
    <3>4. IsTreeBut(w, p) /\ \A y \in DOMAIN parsed : y \in Address
      BY <2>2, <3>3, TreeNodes, TreeFields DEF ValueFits
    <3>5. Small(w)
      <4>1. Table("dotted_key").size = 0 /\ 0 <= MaxItems
        BY ValuesAssumption DEF Table
      <4> QED
        BY <2>4, <3>2, <4>1 DEF Small, WithWay
    <3> QED
      BY <3>2, <3>3, <3>4, <3>5, Grafted
  <2>7. Small(c)
    BY <2>4, <2>6, GraftSmall
  <2>8. a \in SUBSET Paths
    BY <2>3
  <2> HIDE DEF c, a, w
  <2>9. g \in Frame /\ g.content = c
    <3>1. Top \in Frame
      BY <2>2
    <3> QED
      BY <2>5, <2>8, <3>1 DEF Frame
  <2> HIDE DEF g
  <2>10. doing' \notin {"put", "done"}
    BY <2>1 DEF Goes
  <2> QED
    BY <2>1, <2>4, <2>7, <2>9, <2>10, OnTopSized
<1> QED
  BY <1>1, <1>2

LEMMA SizedStep ==
  ASSUME Inv, Sized, [Next]_vars
  PROVE  Sized'
<1>1. CASE UNCHANGED vars
  BY <1>1 DEF vars, Sized
<1>2. CASE TooDeep
  BY <1>2, LimitSized DEF TooDeep
<1>3. ASSUME NEW size \in Sizes, ReadScalar(size) PROVE Sized'
  BY <1>3, ReadScalarSized
<1>4. CASE OpenArray
  <2>1. Array(0) \in Node /\ Array(0).size = 0
    BY DEF Array, ArrayTable, Node, Definitions
  <2> QED
    BY <1>4, <2>1, OpenSized DEF OpenArray
<1>5. CASE OpenTable
  <2>1. Table("implicit") \in Node /\ Table("implicit").size = 0
    BY NewTable DEF Definitions
  <2> QED
    BY <1>5, <2>1, OpenSized DEF OpenTable
<1>6. CASE Close
  BY <1>6, CloseSized
<1>7. CASE Comma \/ Element
  BY <1>7, PassingSized
<1>8. CASE PutElement
  BY <1>8, PutElementSized
<1>9. ASSUME NEW p \in Paths, Key(p) PROVE Sized'
  BY <1>9, KeySized
<1>10. CASE PutMember
  BY <1>10, PutMemberSized
<1>11. CASE Malformed
  BY <1>11, EndsSized DEF Malformed, Outcomes
<1> QED
  BY <1>1, <1>2, <1>3, <1>4, <1>5, <1>6, <1>7, <1>8, <1>9, <1>10, <1>11 DEF Next

\* A value that is accepted keeps within the limits all together: it has as many values
\* as were counted, none lies in more containers than may be open at a time, and no
\* array has been given an element too many.
THEOREM Limiting == Spec => []LimitsExact
<1>1. Init => Inv /\ Nesting /\ Sized
  BY Initially, NestingInitially, SizedInitially
<1>2. Inv /\ Nesting /\ Sized /\ [Next]_vars => Inv' /\ Nesting' /\ Sized'
  BY Step, NestingStep, SizedStep
<1>3. Inv /\ Nesting /\ Sized => LimitsExact
  <2> SUFFICES ASSUME Inv, Nesting, Sized PROVE LimitsExact
    OBVIOUS
  <2>1. Counted
    BY DEF Inv, Counts
  <2>2. ASSUME doing = "done" PROVE \A x \in Said : Cardinality(Said \cap Prefixes(x)) <= MaxDepth
    <3>1. frames = <<>>
      BY <2>2 DEF Nesting
    <3>2. Begun = Said
      BY <3>1, NonePlaced DEF Begun
    <3>3. Nested(Begun)
      BY <2>2, <3>1, NonePlaced DEF Nesting
    <3> QED
      BY <3>2, <3>3 DEF Nested
  <2>3. ASSUME doing = "done" PROVE \A x \in DOMAIN parsed : parsed[x].size <= MaxItems
    BY <2>3 DEF Sized, Small
  <2> QED
    BY <2>1, <2>2, <2>3 DEF LimitsExact
<1> QED
  BY <1>1, <1>2, <1>3, PTL DEF Spec
=============================================================================
