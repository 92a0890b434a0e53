------------------------- MODULE TomlDocumentProofs -------------------------
(***************************************************************************)
(* The tables of a document grow, and only where they are open: proofs for *)
(* any keys, lines, values and limits, over the lemmas of TomlNodesProofs. *)
(***************************************************************************)
EXTENDS TomlDocumentProps, TomlNodesProofs, FiniteSetTheorems

\* Arrays of tables are that, and hold open tables.
ArraysOfTables(t) ==
  \A x \in DOMAIN t :
    t[x].arrayTable =>
      /\ t[x] = ArrayTable(t[x].size) /\ t[x].size # 0
      /\ \A i \in 1 .. t[x].size : t[Append(x, i)].kind = "table" /\ ~ t[Append(x, i)].inline

\* Address x leads through tables that are open and the last elements of arrays.
OpenNode(n) == ~ n.inline /\ (n.kind = "table" \/ n.arrayTable)
OpenWay(t, x) ==
  \A i \in 0 .. Len(x) :
    /\ OpenNode(t[SubSeq(x, 1, i)])
    /\ i < Len(x) /\ x[i + 1] \in Nat => x[i + 1] = t[SubSeq(x, 1, i)].size

\* The nodes of t are in u, but for a definition what they were.
Alike(t, u) ==
  /\ DOMAIN t \subseteq DOMAIN u
  /\ \A x \in DOMAIN t : u[x] = t[x] \/ \E d \in Definitions : u[x] = [t[x] EXCEPT !.definition = d]

\* What Keeps says of a node.
NodeKept(m, n) ==
  n = m \/ /\ m.definition = "implicit" /\ ~ m.inline
           /\ \/ n = [m EXCEPT !.definition = "explicit_table"]
              \/ m.arrayTable /\ n = [m EXCEPT !.size = @ + 1]
Kept(t, u) == \A x \in DOMAIN t : x \in DOMAIN u /\ NodeKept(t[x], u[x])

\* What AddsBelowOpen says of a new address.
BelowOpen(t, u, x) ==
  \A i \in 0 .. Len(x) - 1 :
    LET y == SubSeq(x, 1, i)
    IN y \in DOMAIN t => /\ ~ t[y].inline
                         /\ t[y].kind = "table" \/ t[y].arrayTable
                         /\ x[i + 1] \in Nat => x[i + 1] = u[y].size

-----------------------------------------------------------------------------
(* Trees with arrays of tables.                                            *)

LEMMA AlikeNodes ==
  ASSUME NEW t, NEW u, Alike(t, u), \A x \in DOMAIN t : t[x] \in Node, NEW x \in DOMAIN t
  PROVE  /\ x \in DOMAIN u /\ u[x] \in Node
         /\ u[x].kind = t[x].kind /\ u[x].inline = t[x].inline
         /\ u[x].arrayTable = t[x].arrayTable /\ u[x].size = t[x].size
<1>1. t[x] \in Node /\ x \in DOMAIN u
  BY DEF Alike
<1>2. u[x] = t[x] \/ \E d \in Definitions : u[x] = [t[x] EXCEPT !.definition = d]
  BY DEF Alike
<1> QED
  BY <1>1, <1>2 DEF Node

LEMMA OpenWayStays ==
  ASSUME NEW t, NEW u, IsTree(t), Alike(t, u), NEW x \in DOMAIN t, OpenWay(t, x)
  PROVE  OpenWay(u, x)
<1> SUFFICES ASSUME NEW i \in 0 .. Len(x)
             PROVE  /\ OpenNode(u[SubSeq(x, 1, i)])
                    /\ i < Len(x) /\ x[i + 1] \in Nat => x[i + 1] = u[SubSeq(x, 1, i)].size
  BY DEF OpenWay
<1> DEFINE y == SubSeq(x, 1, i)
<1>1. y \in DOMAIN t
  BY PrefixInTree
<1>2. OpenNode(t[y]) /\ (i < Len(x) /\ x[i + 1] \in Nat => x[i + 1] = t[y].size)
  BY DEF OpenWay
<1>3. \A z \in DOMAIN t : t[z] \in Node
  BY TreeFields
<1> HIDE DEF y
<1>4. u[y].kind = t[y].kind /\ u[y].inline = t[y].inline /\ u[y].arrayTable = t[y].arrayTable
      /\ u[y].size = t[y].size
  BY <1>1, <1>3, AlikeNodes
<1> QED
  BY <1>2, <1>4 DEF OpenNode, y

\* The way to a table goes on to an open node of it, or of the last of its tables.
LEMMA OpenWayOn ==
  ASSUME NEW t, NEW x \in Address, NEW k \in Keys \cup Nat, OpenWay(t, x),
         OpenNode(t[Append(x, k)]), k \in Nat => k = t[x].size
  PROVE  OpenWay(t, Append(x, k))
<1> DEFINE z == Append(x, k)
<1>1. z \in Address /\ Len(x) \in Nat /\ Len(z) = Len(x) + 1 /\ z[Len(x) + 1] = k
      /\ \A i \in 1 .. Len(x) : z[i] = x[i]
  BY AddressLength, Extended
<1>2. \A i \in 0 .. Len(x) : SubSeq(z, 1, i) = SubSeq(x, 1, i)
  BY PrefixOfExtended
<1>3. SubSeq(z, 1, Len(z)) = z /\ SubSeq(x, 1, Len(x)) = x
  BY <1>1, WholePrefix
<1>4. OpenNode(t[z])
  OBVIOUS
<1> HIDE DEF z
<1>5. ASSUME NEW i \in 0 .. Len(z)
      PROVE  /\ OpenNode(t[SubSeq(z, 1, i)])
             /\ i < Len(z) /\ z[i + 1] \in Nat => z[i + 1] = t[SubSeq(z, 1, i)].size
  <2>1. CASE i < Len(x)
    <3>1. i \in 0 .. Len(x) /\ i + 1 \in 1 .. Len(x)
      BY <1>1, <2>1
    <3>2. SubSeq(z, 1, i) = SubSeq(x, 1, i) /\ z[i + 1] = x[i + 1]
      BY <1>1, <1>2, <3>1
    <3> QED
      BY <2>1, <3>1, <3>2 DEF OpenWay
  <2>2. CASE i = Len(x)
    <3>1. Len(x) \in 0 .. Len(x)
      BY <1>1
    <3>2. SubSeq(z, 1, i) = x /\ OpenNode(t[x])
      BY <1>2, <1>3, <2>2, <3>1 DEF OpenWay
    <3> QED
      BY <1>1, <2>2, <3>2
  <2>3. CASE i = Len(z)
    <3>1. SubSeq(z, 1, i) = z
      BY <1>3, <2>3
    <3>2. ~ (i < Len(z))
      BY <1>1, <2>3
    <3> QED
      BY <1>4, <3>1, <3>2
  <2> QED
    BY <1>1, <2>1, <2>2, <2>3
<1> QED
  BY <1>5 DEF OpenWay, z

\* What is new at or below a new child of a table is below what is open.
LEMMA NewBelowOpen ==
  ASSUME NEW t, NEW u, IsTree(t), NEW x \in DOMAIN t, NEW k \in Keys, Keys \cap Nat = {},
         OpenWay(t, x), Append(x, k) \notin DOMAIN t, NEW w \in Address,
         \A y \in DOMAIN t : u[y] = t[y]
  PROVE  BelowOpen(t, u, Append(x, k) \o w)
<1> DEFINE p == Append(x, k)
           z == p \o w
<1>1. x \in Address /\ Len(x) \in Nat /\ Len(w) \in Nat
  BY TreeFields, AddressLength
<1>2. p \in Address /\ Len(p) = Len(x) + 1 /\ p[Len(x) + 1] = k
      /\ \A i \in 1 .. Len(x) : p[i] = x[i]
  BY <1>1, Extended
<1>3. \A i \in 0 .. Len(x) : SubSeq(p, 1, i) = SubSeq(x, 1, i)
  BY <1>1, PrefixOfExtended
<1>4. p \notin DOMAIN t
  OBVIOUS
<1> HIDE DEF p
<1>5. /\ Len(z) = Len(p) + Len(w)
      /\ \A i \in 1 .. Len(p) + Len(w) : z[i] = IF i <= Len(p) THEN p[i] ELSE w[i - Len(p)]
  BY <1>2, Joined
<1>6. \A i \in 0 .. Len(p) + Len(w) :
        SubSeq(z, 1, i) = IF i <= Len(p) THEN SubSeq(p, 1, i) ELSE p \o SubSeq(w, 1, i - Len(p))
  BY <1>2, PrefixOfJoined
<1> HIDE DEF z
<1>7. ASSUME NEW i \in 0 .. Len(z) - 1, SubSeq(z, 1, i) \in DOMAIN t
      PROVE  /\ OpenNode(t[SubSeq(z, 1, i)])
             /\ z[i + 1] \in Nat => z[i + 1] = u[SubSeq(z, 1, i)].size
  <2>1. CASE i <= Len(x)
    <3>1. i \in 0 .. Len(x) /\ i \in 0 .. Len(p) + Len(w) /\ i <= Len(p)
          /\ i + 1 \in 1 .. Len(p) + Len(w) /\ i + 1 <= Len(p)
      BY <1>1, <1>2, <1>5, <2>1
    <3>2. SubSeq(z, 1, i) = SubSeq(x, 1, i) /\ z[i + 1] = p[i + 1]
      BY <1>3, <1>5, <1>6, <3>1
    <3>3. u[SubSeq(x, 1, i)] = t[SubSeq(x, 1, i)]
      BY <1>7, <3>2
    <3>4. CASE i < Len(x)
      <4>1. i + 1 \in 1 .. Len(x)
        BY <1>1, <3>1, <3>4
      <4>2. z[i + 1] = x[i + 1]
        BY <1>2, <3>2, <4>1
      <4> QED
        BY <3>1, <3>2, <3>3, <3>4, <4>2 DEF OpenWay
    <3>5. CASE i = Len(x)
      <4>1. z[i + 1] = k /\ k \notin Nat
        BY <1>2, <3>2, <3>5
      <4> QED
        BY <3>1, <3>2, <4>1 DEF OpenWay
    <3> QED
      BY <1>1, <2>1, <3>4, <3>5
  <2>2. CASE ~ (i <= Len(x))
    <3> DEFINE n == i - Len(p)
    <3>1. n \in 0 .. Len(w) /\ i \in 0 .. Len(p) + Len(w)
      BY <1>1, <1>2, <1>5, <2>2
    <3>2. CASE i = Len(p)
      <4>1. SubSeq(z, 1, i) = p
        BY <1>1, <1>2, <1>6, <3>1, <3>2, WholePrefix
      <4> QED
        BY <1>4, <1>7, <4>1
    <3>3. CASE i # Len(p)
      <4>1. ~ (i <= Len(p))
        BY <1>1, <1>2, <2>2, <3>3
      <4>2. SubSeq(z, 1, i) = p \o SubSeq(w, 1, n)
        BY <1>6, <3>1, <4>1
      <4> HIDE DEF n
      <4>3. SubSeq(w, 1, n) \in Address
        BY <3>1, Prefix
      <4>4. IsTreeBut(t, <<>>)
        BY TreeNodes
      <4>5. p \o SubSeq(w, 1, n) \notin DOMAIN t
        BY <1>2, <1>4, <4>3, <4>4, NothingBelow
      <4> QED
        BY <1>7, <4>2, <4>5
    <3> QED
      BY <3>2, <3>3
  <2> QED
    BY <2>1, <2>2
<1>8. BelowOpen(t, u, z)
  BY <1>7 DEF BelowOpen, OpenNode
<1> QED
  BY <1>8 DEF z, p

-----------------------------------------------------------------------------
(* The four ways in which a tree changes.                                  *)

GoodTree(t) == IsTree(t) /\ ArraysOfTables(t)

LEMMA ElementInTree ==
  ASSUME NEW t, IsTree(t), NEW x \in DOMAIN t, t[x].kind = "array", NEW i \in 1 .. t[x].size
  PROVE  Append(x, i) \in DOMAIN t
  BY DEF IsTree

\* New nodes that are not arrays of tables disturb none.
LEMMA ArraysUndisturbed ==
  ASSUME NEW t, NEW u, GoodTree(t), DOMAIN t \subseteq DOMAIN u,
         \A y \in DOMAIN t : u[y] = t[y], \A y \in DOMAIN u \ DOMAIN t : ~ u[y].arrayTable
  PROVE  ArraysOfTables(u)
<1> SUFFICES ASSUME NEW x \in DOMAIN u, u[x].arrayTable
             PROVE  /\ u[x] = ArrayTable(u[x].size) /\ u[x].size # 0
                    /\ \A i \in 1 .. u[x].size :
                         u[Append(x, i)].kind = "table" /\ ~ u[Append(x, i)].inline
  BY DEF ArraysOfTables
<1>1. x \in DOMAIN t /\ t[x].arrayTable /\ u[x] = t[x]
  OBVIOUS
<1>2. t[x] = ArrayTable(t[x].size) /\ t[x].size # 0
  BY <1>1 DEF GoodTree, ArraysOfTables
<1>3. ASSUME NEW i \in 1 .. t[x].size
      PROVE  u[Append(x, i)].kind = "table" /\ ~ u[Append(x, i)].inline
  <2>1. t[Append(x, i)].kind = "table" /\ ~ t[Append(x, i)].inline
    BY <1>1 DEF GoodTree, ArraysOfTables
  <2>2. t[x].kind = "array"
    <3>1. t[x].size \in Nat
      BY <1>1, TreeFields, NodeFields DEF GoodTree
    <3> QED
      BY <1>2, <3>1, NewArray
  <2>3. Append(x, i) \in DOMAIN t
    BY <1>1, <2>2, ElementInTree DEF GoodTree
  <2> QED
    BY <2>1, <2>3
<1> QED
  BY <1>1, <1>2, <1>3

LEMMA ArrayTableFields ==
  ASSUME NEW t, GoodTree(t), NEW x \in DOMAIN t, t[x].arrayTable
  PROVE  /\ t[x].size \in Nat \ {0} /\ t[x] = ArrayTable(t[x].size) /\ t[x].kind = "array"
         /\ ~ t[x].inline /\ t[x].definition = "implicit"
<1>1. t[x].size \in Nat
  BY TreeFields, NodeFields DEF GoodTree
<1>2. t[x] = ArrayTable(t[x].size) /\ t[x].size # 0
  BY DEF GoodTree, ArraysOfTables
<1> QED
  BY <1>1, <1>2, NewArray

\* A new table under a table.
LEMMA TableCreated ==
  ASSUME NEW t, GoodTree(t), NEW x \in DOMAIN t, t[x].kind = "table", NEW k \in Keys,
         Append(x, k) \notin DOMAIN t, NEW d \in Definitions
  PROVE  LET u == Put(t, Append(x, k), Table(d))
         IN /\ GoodTree(u) /\ Alike(t, u)
            /\ DOMAIN u = DOMAIN t \cup {Append(x, k)}
            /\ u[Append(x, k)] = Table(d) /\ \A y \in DOMAIN t : u[y] = t[y]
<1> DEFINE p == Append(x, k)
           u == Put(t, p, Table(d))
<1>1. Table(d) \in Node /\ Table(d).kind = "table" /\ ~ Table(d).arrayTable
  BY NewTable
<1>2. IsTreeBut(t, p)
  BY TreeNodes DEF GoodTree
<1>3. MayHold(t[x], k)
  BY DEF MayHold
<1>4. IsTree(u)
  BY <1>1, <1>2, <1>3, PutTree
<1> HIDE DEF p
<1>5. DOMAIN u = DOMAIN t \cup {p} /\ u[p] = Table(d) /\ \A y \in DOMAIN t : y # p => u[y] = t[y]
  BY DEF Put
<1> HIDE DEF u
<1>6. \A y \in DOMAIN t : u[y] = t[y]
  BY <1>5 DEF p
<1>7. ArraysOfTables(u)
  <2>1. DOMAIN t \subseteq DOMAIN u /\ \A y \in DOMAIN u \ DOMAIN t : ~ u[y].arrayTable
    BY <1>1, <1>5
  <2> QED
    BY <1>6, <2>1, ArraysUndisturbed
<1>8. Alike(t, u)
  BY <1>5, <1>6 DEF Alike
<1>9. GoodTree(u)
  BY <1>4, <1>7 DEF GoodTree
<1> QED
  BY <1>5, <1>6, <1>8, <1>9 DEF u, p

\* A value under a table.
LEMMA ValueInserted ==
  ASSUME NEW t, GoodTree(t), NEW x \in DOMAIN t, t[x].kind = "table", NEW k \in Keys,
         Append(x, k) \notin DOMAIN t, NEW c, IsTree(c), \A y \in DOMAIN c : ~ c[y].arrayTable
  PROVE  LET u == Graft(t, Append(x, k), c)
         IN /\ GoodTree(u) /\ Alike(t, u)
            /\ \A z \in DOMAIN u : z \in DOMAIN t \/ \E y \in Address : z = Append(x, k) \o y
            /\ \A y \in DOMAIN t : u[y] = t[y]
<1> DEFINE p == Append(x, k)
           u == Graft(t, p, c)
<1>1. IsTreeBut(t, p) /\ p \notin DOMAIN t
  BY TreeNodes DEF GoodTree
<1>2. MayHold(t[x], k)
  BY DEF MayHold
<1>3. IsTree(u)
  BY <1>1, <1>2, GraftedTree
<1>4. p \in Address
  BY TreeFields, Extended DEF GoodTree
<1>5. \A y \in DOMAIN c : y \in Address
  BY DEF IsTree
<1> HIDE DEF p
<1>6. IsGraft(u, t, p, c)
  BY <1>1, <1>4, <1>5, Grafted
<1> HIDE DEF u
<1>7. \A y \in DOMAIN t : u[y] = t[y]
  BY <1>6 DEF IsGraft
<1>8. \A y \in DOMAIN c : u[p \o y] = c[y]
  BY <1>6 DEF IsGraft
<1>9. DOMAIN t \subseteq DOMAIN u
  BY <1>6 DEF IsGraft
<1>10. \A z \in DOMAIN u \ DOMAIN t : ~ u[z].arrayTable
  <2> TAKE z \in DOMAIN u \ DOMAIN t
  <2>1. PICK y \in DOMAIN c : z = p \o y
    BY <1>6 DEF IsGraft
  <2> QED
    BY <1>8, <2>1
<1>11. ArraysOfTables(u)
  BY <1>7, <1>9, <1>10, ArraysUndisturbed
<1>12. GoodTree(u) /\ Alike(t, u)
  BY <1>3, <1>7, <1>9, <1>11 DEF GoodTree, Alike
<1>13. \A z \in DOMAIN u : z \in DOMAIN t \/ \E y \in Address : z = p \o y
  BY <1>5, <1>6 DEF IsGraft
<1> QED
  BY <1>7, <1>12, <1>13 DEF u, p

\* A table gets another definition.
LEMMA TableDefined ==
  ASSUME NEW t, GoodTree(t), NEW x \in DOMAIN t, t[x].kind = "table", NEW d \in Definitions
  PROVE  LET u == [t EXCEPT ![x].definition = d]
         IN /\ GoodTree(u) /\ Alike(t, u) /\ DOMAIN u = DOMAIN t
            /\ u[x] = [t[x] EXCEPT !.definition = d]
            /\ \A y \in DOMAIN t \ {x} : u[y] = t[y]
<1> DEFINE u == [t EXCEPT ![x].definition = d]
<1>1. /\ DOMAIN u = DOMAIN t /\ u[x] = [t[x] EXCEPT !.definition = d]
      /\ \A y \in DOMAIN t \ {x} : u[y] = t[y]
  OBVIOUS
<1> HIDE DEF u
<1>2. Alike(t, u)
  BY <1>1 DEF Alike
<1>3. \A y \in DOMAIN t : y \in Address /\ t[y] \in Node
  BY TreeFields DEF GoodTree
<1>4. \A y \in DOMAIN t :
        /\ u[y] \in Node /\ u[y].kind = t[y].kind /\ u[y].inline = t[y].inline
        /\ u[y].arrayTable = t[y].arrayTable /\ u[y].size = t[y].size
  BY <1>2, <1>3, AlikeNodes
<1>5. Grows(t, u)
  <2>1. \A y \in DOMAIN t : t[y].size \in Nat
    BY <1>3, NodeFields
  <2> QED
    BY <1>1, <1>4, <2>1 DEF Grows
<1>6. IsTree(u)
  <2>1. IsTreeBut(t, <<>>) /\ <<>> \in DOMAIN u
    BY <1>1, TreeNodes DEF GoodTree, IsTree
  <2>2. \A y \in DOMAIN u :
          u[y].kind = "array" => \A i \in 1 .. u[y].size : Append(y, i) \in DOMAIN u \cup {<<>>}
    BY <1>1, <1>4, ElementInTree DEF GoodTree
  <2>3. \A y \in DOMAIN u : y \in Address /\ u[y] \in Node
    BY <1>1, <1>3, <1>4
  <2>4. IsTreeBut(u, <<>>)
    BY <1>1, <1>5, <2>1, <2>2, <2>3, Regrown
  <2> QED
    BY <2>1, <2>4, TreeNodes
<1>7. ASSUME NEW y \in DOMAIN u, u[y].arrayTable
      PROVE  /\ u[y] = ArrayTable(u[y].size) /\ u[y].size # 0
             /\ \A i \in 1 .. u[y].size :
                  u[Append(y, i)].kind = "table" /\ ~ u[Append(y, i)].inline
  <2>1. y \in DOMAIN t /\ t[y].arrayTable
    BY <1>1, <1>4, <1>7
  <2>2. t[y].kind = "array" /\ t[y].size # 0 /\ t[y] = ArrayTable(t[y].size)
    BY <2>1, ArrayTableFields
  <2>3. u[y] = t[y]
    BY <1>1, <2>1, <2>2
  <2>4. ASSUME NEW i \in 1 .. t[y].size
        PROVE  u[Append(y, i)].kind = "table" /\ ~ u[Append(y, i)].inline
    <3>1. Append(y, i) \in DOMAIN t
      BY <2>1, <2>2, ElementInTree DEF GoodTree
    <3>2. t[Append(y, i)].kind = "table" /\ ~ t[Append(y, i)].inline
      BY <2>1 DEF GoodTree, ArraysOfTables
    <3> QED
      BY <1>4, <3>1, <3>2
  <2> QED
    BY <2>2, <2>3, <2>4
<1>8. GoodTree(u)
  BY <1>6, <1>7 DEF GoodTree, ArraysOfTables
<1> QED
  BY <1>1, <1>2, <1>8 DEF u

\* The tree with element number size in the array of tables at p.
WithElement(t, p, size) ==
  Put(Put(t, p, ArrayTable(size)), Append(p, size), Table("array_element"))

SizeAfter(t, p) == IF p \in DOMAIN t THEN t[p].size + 1 ELSE 1

HasElement(t, p, size, u) ==
  /\ GoodTree(u) /\ size \in Nat \ {0}
  /\ DOMAIN u = DOMAIN t \cup {p, Append(p, size)} /\ Append(p, size) \notin DOMAIN t
  /\ u[p] = ArrayTable(size) /\ u[Append(p, size)] = Table("array_element")
  /\ \A y \in DOMAIN t \ {p} : u[y] = t[y]

\* An array of tables gets one more, or is there with one.
LEMMA ElementAppended ==
  ASSUME NEW t, GoodTree(t), NEW x \in DOMAIN t, t[x].kind = "table", NEW k \in Keys,
         Append(x, k) \in DOMAIN t => t[Append(x, k)].arrayTable
  PROVE  LET size == SizeAfter(t, Append(x, k))
         IN HasElement(t, Append(x, k), size, WithElement(t, Append(x, k), size))
<1> DEFINE p == Append(x, k)
           size == SizeAfter(t, p)
           element == Append(p, size)
           u == WithElement(t, p, size)
<1>0. /\ p = Append(x, k) /\ (p \in DOMAIN t => t[p].arrayTable)
      /\ size = IF p \in DOMAIN t THEN t[p].size + 1 ELSE 1
  BY DEF SizeAfter
<1> HIDE DEF p, size
<1>1. /\ \A y \in DOMAIN t : y \in Address /\ t[y] \in Node /\ Leads(t, y)
      /\ \A y \in DOMAIN t : t[y].size \in Nat
  BY TreeFields, NodeFields DEF GoodTree
<1>2. size \in Nat \ {0} /\ size \notin Keys
  BY <1>0, <1>1, DocumentAssumption
<1>3. p \in Address /\ Len(p) \in Nat
  BY <1>0, <1>1, Extended, AddressLength
<1>4. /\ element \in Address /\ SubSeq(element, 1, Len(p)) = p
      /\ Len(element) = Len(p) + 1 /\ element[Len(p) + 1] = size
  BY <1>2, <1>3, Extended, ParentOfExtended
<1>5. element # p
  <2> HIDE DEF element
  <2> QED
    BY <1>3, <1>4
<1>6. ArrayTable(size) \in Node /\ ArrayTable(size).kind = "array" /\ ArrayTable(size).size = size
  BY <1>2, NewArray
<1>7. /\ Table("array_element") \in Node /\ Table("array_element").kind = "table"
      /\ ~ Table("array_element").inline /\ ~ Table("array_element").arrayTable
  BY NewTable DEF Definitions
<1>8. element \notin DOMAIN t
  <2> SUFFICES ASSUME element \in DOMAIN t PROVE FALSE
    OBVIOUS
  <2>1. Len(p) \in 0 .. Len(element) - 1
    BY <1>3, <1>4
  <2>2. Leads(t, element)
    BY <1>1
  <2>3. p \in DOMAIN t /\ MayHold(t[p], size)
    BY <1>4, <2>1, <2>2 DEF Leads
  <2>4. t[p].kind = "array" /\ t[p].size \in Nat /\ size = t[p].size + 1
    BY <1>0, <1>1, <2>3, ArrayTableFields
  <2>5. size \in 1 .. t[p].size
    BY <1>2, <2>3 DEF MayHold
  <2> QED
    BY <2>4, <2>5
<1> HIDE DEF element
<1>9. /\ DOMAIN u = DOMAIN t \cup {p, element}
      /\ u[p] = ArrayTable(size) /\ u[element] = Table("array_element")
      /\ \A y \in DOMAIN t \ {p} : u[y] = t[y]
  BY <1>5, <1>8 DEF Put, WithElement, element
<1> HIDE DEF u
<1>10. p \in DOMAIN t => t[p].kind = "array" /\ t[p].size = size - 1 /\ t[p].size \in Nat
  BY <1>0, <1>1, ArrayTableFields
<1>11. Grows(t, u)
  <2>1. ASSUME NEW y \in DOMAIN t PROVE t[y].kind = u[y].kind /\ t[y].size <= u[y].size
    <3>1. CASE y = p
      BY <1>2, <1>6, <1>9, <1>10, <3>1
    <3>2. CASE y # p
      BY <1>1, <1>9, <3>2
    <3> QED
      BY <3>1, <3>2
  <2> QED
    BY <1>9, <2>1 DEF Grows
<1>12. \A y \in DOMAIN u : y \in Address /\ u[y] \in Node
  BY <1>1, <1>3, <1>4, <1>6, <1>7, <1>9
<1>13. Leads(u, p)
  <2>1. MayHold(t[x], k)
    BY DEF MayHold
  <2>2. Leads(t, p)
    BY <1>0, <1>1, <2>1, LeadsToChild
  <2> QED
    BY <1>1, <1>3, <1>9, <1>11, <1>12, <2>2, LeadsStill
<1>14. Leads(u, element)
  <2>1. MayHold(u[p], size)
    BY <1>2, <1>6, <1>9 DEF MayHold
  <2> QED
    BY <1>2, <1>3, <1>9, <1>13, <2>1, LeadsToChild DEF element
<1>15. ASSUME NEW y \in DOMAIN u, u[y].kind = "array", NEW i \in 1 .. u[y].size
       PROVE  Append(y, i) \in DOMAIN u \cup {element}
  <2>1. CASE y = p
    <3>1. i = size \/ (p \in DOMAIN t /\ i \in 1 .. t[p].size)
      BY <1>0, <1>2, <1>6, <1>9, <1>10, <1>15, <2>1
    <3>2. CASE i = size
      BY <2>1, <3>2 DEF element
    <3>3. CASE p \in DOMAIN t /\ i \in 1 .. t[p].size
      BY <1>9, <1>10, <2>1, <3>3, ElementInTree DEF GoodTree
    <3> QED
      BY <3>1, <3>2, <3>3
  <2>2. CASE y # p
    <3>1. y \in DOMAIN t /\ u[y] = t[y]
      BY <1>7, <1>9, <1>15, <2>2
    <3> QED
      BY <1>9, <1>15, <3>1, ElementInTree DEF GoodTree
  <2> QED
    BY <2>1, <2>2
<1>16. IsTree(u)
  <2>1. IsTreeBut(t, <<>>)
    BY TreeNodes DEF GoodTree
  <2>2. \A y \in DOMAIN u \ DOMAIN t : Leads(u, y)
    BY <1>9, <1>13, <1>14
  <2>3. IsTreeBut(u, element)
    BY <1>11, <1>12, <1>15, <2>1, <2>2, Regrown
  <2> QED
    BY <1>9, <2>3, TreeNodes
<1>17. ASSUME NEW y \in DOMAIN u, u[y].arrayTable
       PROVE  /\ u[y] = ArrayTable(u[y].size) /\ u[y].size # 0
              /\ \A i \in 1 .. u[y].size :
                   u[Append(y, i)].kind = "table" /\ ~ u[Append(y, i)].inline
  <2>1. ASSUME NEW z \in DOMAIN t, t[z].arrayTable, NEW i \in 1 .. t[z].size
        PROVE  u[Append(z, i)].kind = "table" /\ ~ u[Append(z, i)].inline
    <3>1. t[z].kind = "array"
      BY <2>1, ArrayTableFields
    <3>2. Append(z, i) \in DOMAIN t
      BY <2>1, <3>1, ElementInTree DEF GoodTree
    <3>3. t[Append(z, i)].kind = "table" /\ ~ t[Append(z, i)].inline
      BY <2>1 DEF GoodTree, ArraysOfTables
    <3>4. Append(z, i) # p
      BY <1>10, <3>2, <3>3
    <3> QED
      BY <1>9, <3>2, <3>3, <3>4
  <2>2. CASE y = p
    <3>1. u[y] = ArrayTable(u[y].size) /\ u[y].size # 0
      BY <1>2, <1>6, <1>9, <2>2
    <3>2. ASSUME NEW i \in 1 .. size
          PROVE  u[Append(p, i)].kind = "table" /\ ~ u[Append(p, i)].inline
      <4>1. CASE i = size
        BY <1>7, <1>9, <4>1 DEF element
      <4>2. CASE i # size
        <5>1. p \in DOMAIN t
          BY <1>0, <1>2, <4>2
        <5>2. i \in 1 .. t[p].size
          BY <1>2, <1>10, <4>2, <5>1
        <5> QED
          BY <1>0, <2>1, <5>1, <5>2
      <4> QED
        BY <4>1, <4>2
    <3> QED
      BY <1>6, <1>9, <2>2, <3>1, <3>2
  <2>3. CASE y # p
    <3>1. y \in DOMAIN t /\ u[y] = t[y]
      BY <1>7, <1>9, <1>17, <2>3
    <3>2. t[y] = ArrayTable(t[y].size) /\ t[y].size # 0
      BY <1>17, <3>1, ArrayTableFields
    <3> QED
      BY <1>17, <2>1, <3>1, <3>2
  <2> QED
    BY <2>2, <2>3
<1>18. GoodTree(u)
  BY <1>16, <1>17 DEF GoodTree, ArraysOfTables
<1>19. HasElement(t, p, size, u)
  BY <1>2, <1>8, <1>9, <1>18 DEF HasElement, element
<1> QED
  BY <1>19 DEF u, size, p

-----------------------------------------------------------------------------
(* The inductive invariant.                                                *)

\* TypeOK in two parts: the tree, with the tables that are pointed to, and the rest.
TreeFits ==
  /\ GoodTree(tree)
  /\ \A x \in {<<>>, current, table} : x \in DOMAIN tree /\ tree[x].kind = "table"

CallTypes ==
  /\ doing \in {"idle", "malformed", "finished"} \cup DOMAIN Refusal
               \cup {Refusal[c] : c \in DOMAIN Refusal}
  /\ path \in Seq(Keys) /\ header \in Seq(Keys)
  /\ \A x \in DOMAIN value : x \in Address /\ value[x] \in Node
  /\ nodes \in 0 .. MaxNodes /\ lines \in 0 .. MaxLines

\* The tables that are pointed to are open, and so is all that leads to them.
Ways == OpenWay(tree, current) /\ OpenWay(tree, table)

ContentFits ==
  doing = "insert" => IsTree(value) /\ \A y \in DOMAIN value : ~ value[y].arrayTable

\* What a header has defined is marked so, and what it is about to was not.
Defined ==
  /\ \A x \in opened : x \in DOMAIN tree /\ tree[x].definition = "explicit_table"
  /\ doing = "open" /\ path = <<>> =>
       table \notin opened /\ tree[table].definition = "explicit_table"

Inv == TreeFits /\ CallTypes /\ Ways /\ ContentFits /\ Defined

\* What a step does to the tree.
Grown ==
  /\ Kept(tree, tree')
  /\ \A x \in DOMAIN tree' \ DOMAIN tree : BelowOpen(tree, tree', x)

LEMMA Types == TreeFits /\ CallTypes <=> TypeOK
  BY DEF TreeFits, CallTypes, TypeOK, GoodTree, ArraysOfTables

LEMMA RootWay ==
  ASSUME NEW t, NEW x \in Address, OpenWay(t, x)
  PROVE  OpenWay(t, <<>>)
<1>1. 0 \in 0 .. Len(x) /\ SubSeq(x, 1, 0) = <<>>
  BY AddressLength, SubSeqEmpty
<1>2. OpenNode(t[<<>>])
  BY <1>1 DEF OpenWay
<1>3. \A i \in 0 .. Len(<<>>) : SubSeq(<<>>, 1, i) = <<>> /\ ~ (i < Len(<<>>))
  BY SubSeqEmpty
<1> QED
  BY <1>2, <1>3 DEF OpenWay

LEMMA Pointed ==
  ASSUME TreeFits, Ways
  PROVE  \A x \in {<<>>, current, table} :
           /\ x \in DOMAIN tree /\ x \in Address /\ tree[x] \in Node
           /\ tree[x].kind = "table" /\ OpenWay(tree, x)
<1>1. \A x \in {<<>>, current, table} :
        x \in DOMAIN tree /\ x \in Address /\ tree[x] \in Node /\ tree[x].kind = "table"
  BY TreeFields DEF TreeFits, GoodTree
<1>2. OpenWay(tree, <<>>)
  BY <1>1, RootWay DEF Ways
<1> QED
  BY <1>1, <1>2 DEF Ways

LEMMA TargetFields ==
  ASSUME TreeFits, CallTypes, Ways, path # <<>>
  PROVE  /\ Head(path) \in Keys /\ Tail(path) \in Seq(Keys) /\ Len(Tail(path)) = Len(path) - 1
         /\ Target = Append(table, Head(path)) /\ Target \in Address
<1>1. path \in Seq(Keys)
  BY DEF CallTypes
<1>2. Head(path) \in Keys /\ Tail(path) \in Seq(Keys) /\ Len(Tail(path)) = Len(path) - 1
  BY <1>1, HeadTailProperties
<1>3. table \in Address
  BY Pointed
<1>4. Append(table, Head(path)) \in Address
  BY <1>2, <1>3, Extended
<1> QED
  BY <1>2, <1>4 DEF Target

\* A step that leaves the tree as it is, and points to where it has pointed.
LEMMA TreeStays ==
  ASSUME TreeFits, Ways, tree' = tree, current' \in {current, table},
         table' \in {<<>>, current, table}
  PROVE  TreeFits' /\ Ways' /\ Grown
<1>1. \A x \in {<<>>, current', table'} :
        x \in DOMAIN tree /\ tree[x].kind = "table" /\ OpenWay(tree, x)
  BY Pointed
<1>2. TreeFits'
  BY <1>1 DEF TreeFits
<1>3. Ways'
  BY <1>1 DEF Ways
<1>4. Grown
  BY DEF Grown, Kept, NodeKept
<1> QED
  BY <1>2, <1>3, <1>4

\* A step that adds a table or a value under the table reached.
LEMMA TreeExtended ==
  ASSUME TreeFits, Ways, NEW k \in Keys, Append(table, k) \notin DOMAIN tree,
         GoodTree(tree'), Alike(tree, tree'), \A y \in DOMAIN tree : tree'[y] = tree[y],
         \A z \in DOMAIN tree' :
           z \in DOMAIN tree \/ \E w \in Address : z = Append(table, k) \o w
  PROVE  /\ Grown
         /\ \A x \in {<<>>, current, table} :
              x \in DOMAIN tree' /\ tree'[x].kind = "table" /\ OpenWay(tree', x)
<1>1. Kept(tree, tree')
  BY DEF Kept, NodeKept, Alike
<1>2. table \in DOMAIN tree /\ OpenWay(tree, table) /\ IsTree(tree) /\ Keys \cap Nat = {}
  BY DocumentAssumption DEF TreeFits, Ways, GoodTree
<1>3. ASSUME NEW z \in DOMAIN tree' \ DOMAIN tree PROVE BelowOpen(tree, tree', z)
  <2>1. PICK w \in Address : z = Append(table, k) \o w
    OBVIOUS
  <2>2. BelowOpen(tree, tree', Append(table, k) \o w)
    BY <1>2, NewBelowOpen
  <2> QED
    BY <2>1, <2>2
<1>4. ASSUME NEW x \in {<<>>, current, table}
      PROVE  x \in DOMAIN tree' /\ tree'[x].kind = "table" /\ OpenWay(tree', x)
  <2>1. x \in DOMAIN tree /\ tree[x].kind = "table" /\ OpenWay(tree, x)
    BY Pointed
  <2>2. OpenWay(tree', x)
    BY <1>2, <2>1, OpenWayStays
  <2> QED
    BY <2>1, <2>2 DEF Alike
<1> QED
  BY <1>1, <1>3, <1>4 DEF Grown

-----------------------------------------------------------------------------
(* Steps.                                                                  *)

LEMMA WalkTypes ==
  ASSUME Inv, path # <<>>, NEW t, NEW x, Walk(t, x)
  PROVE  CallTypes' /\ ContentFits'
<1>1. Tail(path) \in Seq(Keys)
  BY TargetFields DEF Inv
<1>2. UNCHANGED <<doing, value, nodes, lines, header>> /\ path' = Tail(path)
  BY DEF Walk
<1>3. CallTypes'
  BY <1>1, <1>2 DEF Inv, CallTypes
<1>4. ContentFits'
  BY <1>2 DEF Inv, ContentFits
<1> QED
  BY <1>3, <1>4

LEMMA ReturnTypes ==
  ASSUME Inv, Return
  PROVE  CallTypes' /\ ContentFits' /\ doing' = "idle" /\ table' = <<>>
<1>1. /\ doing' = "idle" /\ path' = <<>> /\ table' = <<>> /\ value' = NoNodes
      /\ UNCHANGED <<nodes, lines, header>>
  BY DEF Return
<1>2. DOMAIN value' = {}
  BY <1>1 DEF NoNodes
<1>3. CallTypes'
  BY <1>1, <1>2 DEF Inv, CallTypes
<1> QED
  BY <1>1, <1>3 DEF ContentFits

\* What headers have defined stays so while the nodes that are there stay.
LEMMA DefinedStays ==
  ASSUME Inv, opened' = opened, \A y \in opened : y \in DOMAIN tree' /\ tree'[y] = tree[y],
         doing' = "open" /\ path' = <<>> =>
           table' \notin opened /\ tree'[table'].definition = "explicit_table"
  PROVE  Defined'
  BY DEF Inv, Defined

LEMMA WalkingPath ==
  ASSUME Walking
  PROVE  path # <<>>
<1>1. Len(<<>>) = 0
  OBVIOUS
<1> QED
  BY <1>1 DEF Walking

\* A line that ends the document, with whatever outcome.
LEMMA EndsStep ==
  ASSUME Inv, NEW outcome, Ends(outcome), lines' \in 0 .. MaxLines,
         outcome \in {"malformed", "finished"} \cup {Refusal[c] : c \in DOMAIN Refusal}
  PROVE  Inv' /\ Grown
<1>1. /\ doing' = outcome /\ UNCHANGED <<tree, current, nodes, header, opened>>
      /\ path' = path /\ table' = table /\ value' = value
  BY DEF Ends, walkVars
<1>2. outcome \notin {"open", "insert"}
  BY DEF Refusal
<1>3. TreeFits' /\ Ways' /\ Grown
  BY <1>1, TreeStays DEF Inv
<1>4. CallTypes'
  BY <1>1 DEF Inv, CallTypes
<1>5. ContentFits' /\ Defined'
  BY <1>1, <1>2 DEF Inv, ContentFits, Defined
<1> QED
  BY <1>3, <1>4, <1>5 DEF Inv

LEMMA ConflictStep ==
  ASSUME Inv, doing \in {"open", "openArray", "insert"}, Conflict
  PROVE  Inv' /\ Grown
<1>1. doing \in DOMAIN Refusal
  BY DEF Refusal
<1>2. Ends(Refusal[doing]) /\ lines' \in 0 .. MaxLines
  BY DEF Conflict, Inv, CallTypes
<1> QED
  BY <1>1, <1>2, EndsStep

LEMMA OtherEnds ==
  ASSUME Inv, Malformed \/ Finish
  PROVE  Inv' /\ Grown
<1>1. PICK outcome \in {"malformed", "finished"} : Ends(outcome) /\ lines' = lines
  BY DEF Malformed, Finish
<1>2. lines' \in 0 .. MaxLines
  BY <1>1 DEF Inv, CallTypes
<1> QED
  BY <1>1, <1>2, EndsStep

LEMMA HeaderStep ==
  ASSUME Inv, NEW call \in {"open", "openArray"}, NEW p \in Paths, ParseHeader(call, p)
  PROVE  Inv' /\ Grown
<1>1. p \in Seq(Keys) /\ p # <<>> /\ MaxLines \in Nat
  BY DocumentAssumption
<1>2. lines' \in 0 .. MaxLines
  BY <1>1 DEF ParseHeader, StartLine, Inv, CallTypes
<1>3. CASE Ends("malformed")
  BY <1>2, <1>3, EndsStep
<1>4. CASE ~ Ends("malformed")
  <2>1. /\ doing' = call /\ path' = p /\ table' = <<>> /\ header' = p
        /\ UNCHANGED <<tree, current, value, nodes, opened>>
    BY <1>4 DEF ParseHeader
  <2>2. TreeFits' /\ Ways' /\ Grown
    BY <2>1, TreeStays DEF Inv
  <2>3. call \in DOMAIN Refusal
    BY DEF Refusal
  <2>4. CallTypes'
    BY <1>1, <1>2, <2>1, <2>3 DEF Inv, CallTypes
  <2>5. ContentFits'
    BY <2>1 DEF ContentFits
  <2>6. Defined'
    BY <1>1, <2>1 DEF Inv, Defined
  <2> QED
    BY <2>2, <2>4, <2>5, <2>6 DEF Inv
<1> QED
  BY <1>3, <1>4

LEMMA AssignmentStep ==
  ASSUME Inv, NEW p \in Paths, NEW v \in Values, ParseAssignment(p, v)
  PROVE  Inv' /\ Grown
<1>1. p \in Seq(Keys) /\ p # <<>> /\ MaxLines \in Nat /\ MaxNodes \in Nat /\ IsValue(v)
  BY DocumentAssumption
<1>2. lines' \in 0 .. MaxLines
  BY <1>1 DEF ParseAssignment, StartLine, Inv, CallTypes
<1>3. CASE Ends("malformed")
  BY <1>2, <1>3, EndsStep
<1>4. CASE ~ Ends("malformed")
  <2>1. /\ doing' = "insert" /\ path' = p /\ table' = current /\ value' = v.content
        /\ nodes' = nodes + v.count /\ nodes + v.count <= MaxNodes
        /\ UNCHANGED <<tree, current, header, opened>>
    BY <1>4 DEF ParseAssignment, Counted
  <2>2. TreeFits' /\ Ways' /\ Grown
    BY <2>1, TreeStays DEF Inv
  <2>3. IsTree(v.content) /\ v.count \in Nat /\ \A y \in DOMAIN v.content : ~ v.content[y].arrayTable
    BY <1>1 DEF IsValue
  <2>4. \A x \in DOMAIN v.content : x \in Address /\ v.content[x] \in Node
    BY <2>3, TreeFields
  <2>5. nodes' \in 0 .. MaxNodes
    BY <1>1, <2>1, <2>3 DEF Inv, CallTypes
  <2>6. "insert" \in DOMAIN Refusal
    BY DEF Refusal
  <2>7. CallTypes'
    BY <1>1, <1>2, <2>1, <2>4, <2>5, <2>6 DEF Inv, CallTypes
  <2>8. ContentFits'
    BY <2>1, <2>3 DEF ContentFits
  <2>9. Defined'
    BY <2>1 DEF Inv, Defined
  <2> QED
    BY <2>2, <2>7, <2>8, <2>9 DEF Inv
<1> QED
  BY <1>3, <1>4

LEMMA OpenedStep ==
  ASSUME Inv, Opened
  PROVE  Inv' /\ Grown
<1>1. /\ doing = "open" /\ path = <<>> /\ current' = table /\ tree' = tree
      /\ opened' = opened \cup {table}
  BY DEF Opened
<1>2. CallTypes' /\ ContentFits' /\ doing' = "idle" /\ table' = <<>>
  BY ReturnTypes DEF Opened
<1>3. TreeFits' /\ Ways' /\ Grown
  BY <1>1, <1>2, TreeStays DEF Inv
<1>4. Defined'
  BY <1>1, <1>2 DEF Inv, Defined, TreeFits
<1> QED
  BY <1>2, <1>3, <1>4 DEF Inv

\* A walk comes to a new table, which a step creates.
LEMMA Created ==
  ASSUME Inv, path # <<>>, ~ Exists(Target), NEW d \in Definitions,
         tree' = Put(tree, Target, Table(d)), table' = Target, current' = current
  PROVE  /\ TreeFits' /\ Ways' /\ Grown
         /\ Target \notin opened /\ tree'[Target].definition = d
         /\ \A y \in DOMAIN tree : y \in DOMAIN tree' /\ tree'[y] = tree[y]
<1> DEFINE k == Head(path)
<1>1. k \in Keys /\ Target = Append(table, k) /\ Target \in Address
  BY TargetFields DEF Inv
<1>2. GoodTree(tree) /\ table \in DOMAIN tree /\ tree[table].kind = "table"
  BY DEF Inv, TreeFits
<1>3. Target \notin DOMAIN tree
  BY DEF Exists
<1> HIDE DEF k
<1>4. /\ GoodTree(tree') /\ Alike(tree, tree')
      /\ DOMAIN tree' = DOMAIN tree \cup {Target}
      /\ tree'[Target] = Table(d) /\ \A y \in DOMAIN tree : tree'[y] = tree[y]
  <2> DEFINE u == Put(tree, Append(table, k), Table(d))
  <2>1. Append(table, k) \notin DOMAIN tree
    BY <1>1, <1>3
  <2>2. /\ GoodTree(u) /\ Alike(tree, u)
        /\ DOMAIN u = DOMAIN tree \cup {Append(table, k)}
        /\ u[Append(table, k)] = Table(d) /\ \A y \in DOMAIN tree : u[y] = tree[y]
    BY <1>1, <1>2, <2>1, TableCreated
  <2>3. tree' = u
    BY <1>1
  <2> HIDE DEF u
  <2> QED
    BY <1>1, <2>2, <2>3
<1>5. <<>> \in Address /\ Target \o <<>> = Target
  BY <1>1, JoinedRoot
<1>6. \A z \in DOMAIN tree' : z \in DOMAIN tree \/ \E w \in Address : z = Append(table, k) \o w
  BY <1>1, <1>4, <1>5
<1>7. /\ Grown
      /\ \A x \in {<<>>, current, table} :
           x \in DOMAIN tree' /\ tree'[x].kind = "table" /\ OpenWay(tree', x)
  BY <1>1, <1>3, <1>4, <1>6, TreeExtended DEF Inv
<1>8. Table(d).kind = "table" /\ ~ Table(d).inline /\ Table(d).definition = d
  BY NewTable
<1>9. OpenWay(tree', Target)
  <2>1. table \in Address /\ k \notin Nat /\ OpenNode(tree'[Target])
    BY <1>1, <1>4, <1>8, Pointed, DocumentAssumption DEF Inv, OpenNode
  <2> QED
    BY <1>1, <1>7, <2>1, OpenWayOn
<1>10. Target \in DOMAIN tree' /\ tree'[Target].kind = "table"
  BY <1>4, <1>8
<1>11. TreeFits' /\ Ways'
  BY <1>4, <1>7, <1>9, <1>10 DEF TreeFits, Ways
<1>12. Target \notin opened
  BY <1>3 DEF Inv, Defined
<1> QED
  BY <1>4, <1>7, <1>8, <1>11, <1>12

LEMMA CreateStep ==
  ASSUME Inv, CreateTable
  PROVE  Inv' /\ Grown
<1> DEFINE d == IF Terminal THEN "explicit_table" ELSE "implicit"
<1>1. d \in Definitions /\ path # <<>> /\ ~ Exists(Target)
  BY WalkingPath DEF CreateTable, Definitions
<1>2. Walk(Put(tree, Target, Table(d)), Target)
  BY DEF CreateTable
<1>3. /\ tree' = Put(tree, Target, Table(d)) /\ table' = Target /\ path' = Tail(path)
      /\ current' = current /\ doing' = doing /\ opened' = opened
  BY <1>2 DEF Walk
<1> HIDE DEF d
<1>4. /\ TreeFits' /\ Ways' /\ Grown
      /\ Target \notin opened /\ tree'[Target].definition = d
      /\ \A y \in DOMAIN tree : y \in DOMAIN tree' /\ tree'[y] = tree[y]
  BY <1>1, <1>3, Created
<1>5. CallTypes' /\ ContentFits'
  BY <1>1, <1>2, WalkTypes
<1>6. Defined'
  <2>1. \A y \in opened : y \in DOMAIN tree' /\ tree'[y] = tree[y]
    BY <1>4 DEF Inv, Defined
  <2>2. doing' = "open" /\ path' = <<>> => d = "explicit_table"
    <3>1. SUFFICES ASSUME doing' = "open", path' = <<>> PROVE d = "explicit_table"
      OBVIOUS
    <3>2. Len(path) \in Nat /\ Len(Tail(path)) = Len(path) - 1 /\ Len(<<>>) = 0
      BY <1>1, TargetFields DEF Inv, CallTypes
    <3>3. Len(path) = 1
      <4>1. Tail(path) = <<>>
        BY <1>3, <3>1
      <4>2. Len(Tail(path)) = 0
        BY <3>2, <4>1
      <4> QED
        BY <3>2, <4>2
    <3> QED
      BY <1>3, <3>1, <3>3 DEF Terminal, d
  <2> QED
    BY <1>3, <1>4, <2>1, <2>2, DefinedStays
<1> QED
  BY <1>4, <1>5, <1>6 DEF Inv

LEMMA DottedStep ==
  ASSUME Inv, WalkDotted
  PROVE  Inv' /\ Grown
<1>1. path # <<>> /\ doing = "insert" /\ (Exists(Target) => IsOpenTable(Target))
  <2>1. Len(<<>>) = 0
    OBVIOUS
  <2> QED
    BY <2>1 DEF WalkDotted
<1>2. /\ tree' = IF Exists(Target) THEN tree ELSE Put(tree, Target, Table("dotted_key"))
      /\ table' = Target /\ path' = Tail(path)
      /\ UNCHANGED <<current, doing, value, nodes, lines, header, opened>>
  BY DEF WalkDotted
<1>3. /\ Head(path) \in Keys /\ Tail(path) \in Seq(Keys) /\ Target = Append(table, Head(path))
  BY <1>1, TargetFields DEF Inv
<1>4. CallTypes'
  BY <1>2, <1>3 DEF Inv, CallTypes
<1>5. ContentFits'
  BY <1>2 DEF Inv, ContentFits
<1>6. /\ TreeFits' /\ Ways' /\ Grown
      /\ \A y \in DOMAIN tree : y \in DOMAIN tree' /\ tree'[y] = tree[y]
  <2>1. CASE Exists(Target)
    <3>1. tree' = tree /\ Target \in DOMAIN tree /\ tree[Target].kind = "table" /\ ~ tree[Target].inline
      BY <1>1, <1>2, <2>1 DEF IsOpenTable, Exists
    <3>2. /\ \A x \in {<<>>, current, table} :
               /\ x \in DOMAIN tree /\ x \in Address /\ tree[x] \in Node
               /\ tree[x].kind = "table" /\ OpenWay(tree, x)
      BY Pointed DEF Inv
    <3>3. OpenWay(tree, Target)
      <4>1. table \in Address /\ OpenWay(tree, table) /\ Head(path) \notin Nat
            /\ OpenNode(tree[Target])
        BY <1>3, <3>1, <3>2, DocumentAssumption DEF OpenNode
      <4> QED
        BY <1>3, <4>1, OpenWayOn
    <3>4. TreeFits'
      BY <1>2, <3>1, <3>2 DEF Inv, TreeFits
    <3>5. Ways'
      BY <1>2, <3>1, <3>2, <3>3 DEF Ways
    <3>6. Grown
      BY <3>1 DEF Grown, Kept, NodeKept
    <3> QED
      BY <3>1, <3>4, <3>5, <3>6
  <2>2. CASE ~ Exists(Target)
    <3>1. "dotted_key" \in Definitions
      BY DEF Definitions
    <3> QED
      BY <1>1, <1>2, <2>2, <3>1, Created
  <2> QED
    BY <2>1, <2>2
<1>7. Defined'
  <2>1. \A y \in opened : y \in DOMAIN tree' /\ tree'[y] = tree[y]
    BY <1>6 DEF Inv, Defined
  <2>2. doing' # "open"
    BY <1>1, <1>2
  <2> QED
    BY <1>2, <2>1, <2>2, DefinedStays
<1> QED
  BY <1>4, <1>5, <1>6, <1>7 DEF Inv

LEMMA InsertStep ==
  ASSUME Inv, Insert
  PROVE  Inv' /\ Grown
<1>1. path # <<>> /\ doing = "insert" /\ ~ Exists(Target)
  <2>1. Len(<<>>) = 0
    OBVIOUS
  <2> QED
    BY <2>1 DEF Insert, MayEmplace
<1>2. tree' = Graft(tree, Target, value) /\ current' = current /\ opened' = opened
  BY DEF Insert
<1>3. Head(path) \in Keys /\ Target = Append(table, Head(path)) /\ Target \notin DOMAIN tree
  BY <1>1, TargetFields DEF Inv, Exists
<1>4. IsTree(value) /\ \A y \in DOMAIN value : ~ value[y].arrayTable
  BY <1>1 DEF Inv, ContentFits
<1>5. GoodTree(tree) /\ table \in DOMAIN tree /\ tree[table].kind = "table"
  BY DEF Inv, TreeFits
<1>6. /\ GoodTree(tree') /\ Alike(tree, tree')
      /\ \A z \in DOMAIN tree' :
           z \in DOMAIN tree \/ \E y \in Address : z = Append(table, Head(path)) \o y
      /\ \A y \in DOMAIN tree : tree'[y] = tree[y]
  <2> DEFINE u == Graft(tree, Append(table, Head(path)), value)
  <2>1. Append(table, Head(path)) \notin DOMAIN tree
    BY <1>3
  <2>2. /\ GoodTree(u) /\ Alike(tree, u)
        /\ \A z \in DOMAIN u :
             z \in DOMAIN tree \/ \E y \in Address : z = Append(table, Head(path)) \o y
        /\ \A y \in DOMAIN tree : u[y] = tree[y]
    BY <1>3, <1>4, <1>5, <2>1, ValueInserted
  <2>3. tree' = u
    BY <1>2, <1>3
  <2> HIDE DEF u
  <2> QED
    BY <2>2, <2>3
<1>7. /\ Grown
      /\ \A x \in {<<>>, current, table} :
           x \in DOMAIN tree' /\ tree'[x].kind = "table" /\ OpenWay(tree', x)
  BY <1>3, <1>6, TreeExtended DEF Inv
<1>8. CallTypes' /\ ContentFits' /\ doing' = "idle" /\ table' = <<>>
  BY ReturnTypes DEF Insert
<1>9. TreeFits' /\ Ways'
  BY <1>2, <1>6, <1>7, <1>8 DEF TreeFits, Ways
<1>10. Defined'
  <2>1. \A y \in opened : y \in DOMAIN tree' /\ tree'[y] = tree[y]
    BY <1>6 DEF Inv, Defined, Alike
  <2> QED
    BY <1>2, <1>8, <2>1, DefinedStays
<1> QED
  BY <1>7, <1>8, <1>9, <1>10 DEF Inv

LEMMA LastElementStep ==
  ASSUME Inv, EnterLastElement
  PROVE  Inv' /\ Grown
<1>1. /\ path # <<>> /\ ~ Terminal /\ IsTableArray(Target)
      /\ Walk(tree, LastElement(Target))
  BY WalkingPath DEF EnterLastElement
<1>2. /\ tree' = tree /\ table' = LastElement(Target) /\ path' = Tail(path)
      /\ current' = current /\ doing' = doing /\ opened' = opened
  BY <1>1 DEF Walk
<1> DEFINE p == Target
           size == tree[p].size
           element == Append(p, size)
<1>3. /\ p \in DOMAIN tree /\ tree[p].arrayTable /\ tree[p].kind = "array"
      /\ size # 0 /\ tree[element].kind = "table" /\ table' = element
  BY <1>1, <1>2 DEF IsTableArray, LastElement, Exists
<1>4. GoodTree(tree)
  BY DEF Inv, TreeFits
<1>5. Head(path) \in Keys /\ p = Append(table, Head(path)) /\ p \in Address
  BY <1>1, TargetFields DEF Inv
<1> HIDE DEF p
<1>6. size \in Nat \ {0} /\ ~ tree[p].inline
  BY <1>3, <1>4, ArrayTableFields
<1>7. size \in 1 .. tree[p].size
  BY <1>6
<1>8. element \in DOMAIN tree /\ ~ tree[element].inline
  <2>1. element \in DOMAIN tree
    BY <1>3, <1>4, <1>7, ElementInTree DEF GoodTree
  <2>2. ~ tree[element].inline
    BY <1>3, <1>4, <1>7 DEF GoodTree, ArraysOfTables
  <2> QED
    BY <2>1, <2>2
<1>9. \A x \in {<<>>, current, table} :
        /\ x \in DOMAIN tree /\ x \in Address /\ tree[x].kind = "table" /\ OpenWay(tree, x)
  BY Pointed DEF Inv
<1>10. OpenWay(tree, p)
  <2>1. Head(path) \notin Nat /\ OpenNode(tree[p])
    BY <1>3, <1>5, <1>6, DocumentAssumption DEF OpenNode
  <2> QED
    BY <1>5, <1>9, <2>1, OpenWayOn
<1>11. OpenWay(tree, element)
  <2>1. OpenNode(tree[element])
    BY <1>3, <1>8 DEF OpenNode
  <2> QED
    BY <1>5, <1>6, <1>10, <2>1, OpenWayOn
<1> HIDE DEF element
<1>12. TreeFits' /\ Ways'
  BY <1>2, <1>3, <1>4, <1>8, <1>9, <1>11 DEF TreeFits, Ways
<1>13. Grown
  BY <1>2 DEF Grown, Kept, NodeKept
<1>14. CallTypes' /\ ContentFits'
  BY <1>1, WalkTypes
<1>15. Defined'
  <2>1. \A y \in opened : y \in DOMAIN tree' /\ tree'[y] = tree[y]
    BY <1>2 DEF Inv, Defined
  <2>2. ~ (doing' = "open" /\ path' = <<>>)
    <3>1. SUFFICES ASSUME doing' = "open", path' = <<>> PROVE FALSE
      OBVIOUS
    <3>2. Len(path) \in Nat /\ Len(Tail(path)) = Len(path) - 1 /\ Len(<<>>) = 0
      BY <1>1, TargetFields DEF Inv, CallTypes
    <3>3. Len(path) = 1
      <4>1. Tail(path) = <<>>
        BY <1>2, <3>1
      <4>2. Len(Tail(path)) = 0
        BY <3>2, <4>1
      <4> QED
        BY <3>2, <4>2
    <3> QED
      BY <1>1, <1>2, <3>1, <3>3 DEF Terminal
  <2> QED
    BY <1>2, <2>1, <2>2, DefinedStays
<1> QED
  BY <1>12, <1>13, <1>14, <1>15 DEF Inv

LEMMA EnterStep ==
  ASSUME Inv, EnterTable
  PROVE  Inv' /\ Grown
<1> DEFINE t == IF Terminal THEN [tree EXCEPT ![Target].definition = "explicit_table"] ELSE tree
<1>1. /\ path # <<>> /\ IsOpenTable(Target) /\ (Terminal => MayDefine(Target)) /\ Walk(t, Target)
  BY WalkingPath DEF EnterTable
<1>2. /\ tree' = t /\ table' = Target /\ path' = Tail(path)
      /\ current' = current /\ doing' = doing /\ opened' = opened
  BY <1>1 DEF Walk
<1>3. /\ Head(path) \in Keys /\ Target = Append(table, Head(path))
      /\ Len(path) \in Nat /\ Len(Tail(path)) = Len(path) - 1
  BY <1>1, TargetFields DEF Inv, CallTypes
<1>4. CallTypes' /\ ContentFits'
  BY <1>1, WalkTypes
<1> DEFINE p == Target
<1>5. p \in DOMAIN tree /\ tree[p].kind = "table" /\ ~ tree[p].inline
  BY <1>1 DEF IsOpenTable, Exists
<1>6. Terminal => tree[p].definition = "implicit"
  BY <1>1 DEF MayDefine
<1>7. GoodTree(tree)
  BY DEF Inv, TreeFits
<1>8. \A x \in {<<>>, current, table} :
        x \in DOMAIN tree /\ x \in Address /\ tree[x].kind = "table" /\ OpenWay(tree, x)
  BY Pointed DEF Inv
<1>9. p = Append(table, Head(path))
  BY <1>3
<1>10. /\ GoodTree(t) /\ Alike(tree, t) /\ DOMAIN t = DOMAIN tree
       /\ \A y \in DOMAIN tree \ {p} : t[y] = tree[y]
       /\ IF Terminal THEN t[p] = [tree[p] EXCEPT !.definition = "explicit_table"]
                      ELSE t[p] = tree[p]
  <2>1. CASE Terminal
    <3> DEFINE u == [tree EXCEPT ![p].definition = "explicit_table"]
    <3>1. "explicit_table" \in Definitions
      BY DEF Definitions
    <3> HIDE DEF p
    <3>2. /\ GoodTree(u) /\ Alike(tree, u) /\ DOMAIN u = DOMAIN tree
          /\ u[p] = [tree[p] EXCEPT !.definition = "explicit_table"]
          /\ \A y \in DOMAIN tree \ {p} : u[y] = tree[y]
      BY <1>5, <1>7, <3>1, TableDefined
    <3>3. t = u
      BY <2>1 DEF p
    <3> HIDE DEF u, t
    <3> QED
      BY <2>1, <3>2, <3>3
  <2>2. CASE ~ Terminal
    <3>1. t = tree
      BY <2>2
    <3> HIDE DEF t
    <3> QED
      BY <1>7, <2>2, <3>1 DEF Alike
  <2> QED
    BY <2>1, <2>2
<1> HIDE DEF t, p
<1>11. tree[p] \in Node /\ \A y \in DOMAIN tree : tree[y] \in Node
  BY <1>5, <1>7, TreeFields DEF GoodTree
<1>12. \A y \in DOMAIN tree :
         t[y].kind = tree[y].kind /\ t[y].inline = tree[y].inline
  BY <1>10, <1>11, AlikeNodes
<1>13. \A x \in {<<>>, current, table} :
         x \in DOMAIN t /\ t[x].kind = "table" /\ OpenWay(t, x)
  BY <1>7, <1>8, <1>10, <1>12, OpenWayStays DEF GoodTree
<1>14. OpenWay(t, p)
  <2>1. Head(path) \notin Nat /\ OpenNode(t[p])
    BY <1>3, <1>5, <1>12, DocumentAssumption DEF OpenNode
  <2> QED
    BY <1>3, <1>8, <1>9, <1>13, <2>1, OpenWayOn
<1>15. TreeFits' /\ Ways'
  <2>1. table' = p /\ p \in DOMAIN t /\ t[p].kind = "table"
    BY <1>2, <1>5, <1>10, <1>12 DEF p
  <2> QED
    BY <1>2, <1>10, <1>13, <1>14, <2>1 DEF TreeFits, Ways
<1>16. Grown
  <2>1. NodeKept(tree[p], t[p])
    BY <1>5, <1>6, <1>10 DEF NodeKept
  <2>2. \A y \in DOMAIN tree : y \in DOMAIN t /\ NodeKept(tree[y], t[y])
    BY <1>10, <2>1 DEF NodeKept
  <2> QED
    BY <1>2, <1>10, <2>2 DEF Grown, Kept
<1>17. Defined'
  <2>1. ASSUME NEW y \in opened PROVE y \in DOMAIN tree' /\ tree'[y].definition = "explicit_table"
    <3>1. y \in DOMAIN tree /\ tree[y].definition = "explicit_table"
      BY DEF Inv, Defined
    <3>2. CASE y = p
      BY <1>2, <1>6, <1>10, <3>1, <3>2
    <3>3. CASE y # p
      BY <1>2, <1>10, <3>1, <3>3
    <3> QED
      BY <3>2, <3>3
  <2>2. ASSUME doing' = "open", path' = <<>>
        PROVE  table' \notin opened' /\ tree'[table'].definition = "explicit_table"
    <3>1. Len(Tail(path)) = 0
      <4>1. Tail(path) = <<>>
        BY <1>2, <2>2
      <4> QED
        BY <4>1
    <3>2. Len(path) = 1
      BY <1>3, <3>1
    <3>3. Terminal
      BY <1>2, <2>2, <3>2 DEF Terminal
    <3>4. p \notin opened
      <4>1. "implicit" # "explicit_table"
        OBVIOUS
      <4> QED
        BY <1>6, <3>3, <4>1 DEF Inv, Defined
    <3>5. t[p].definition = "explicit_table"
      BY <1>10, <1>11, <3>3 DEF Node
    <3> QED
      BY <1>2, <3>4, <3>5 DEF p
  <2> QED
    BY <1>2, <2>1, <2>2 DEF Defined
<1> QED
  BY <1>4, <1>15, <1>16, <1>17 DEF Inv

\* What a new element of the array of tables p brings is below what is open.
LEMMA ElementBelowOpen ==
  ASSUME NEW t, IsTree(t), NEW p \in DOMAIN t, OpenWay(t, p), NEW size \in Nat, NEW u,
         u[p].size = size, \A y \in DOMAIN t \ {p} : u[y] = t[y]
  PROVE  BelowOpen(t, u, Append(p, size))
<1> DEFINE z == Append(p, size)
<1>1. p \in Address /\ Len(p) \in Nat
  BY TreeFields, AddressLength
<1>2. /\ Len(z) = Len(p) + 1 /\ z[Len(p) + 1] = size /\ \A i \in 1 .. Len(p) : z[i] = p[i]
  BY <1>1, Extended
<1>3. \A i \in 0 .. Len(p) : SubSeq(z, 1, i) = SubSeq(p, 1, i)
  BY <1>1, PrefixOfExtended
<1> HIDE DEF z
<1>4. ASSUME NEW i \in 0 .. Len(z) - 1
      PROVE  /\ OpenNode(t[SubSeq(z, 1, i)])
             /\ z[i + 1] \in Nat => z[i + 1] = u[SubSeq(z, 1, i)].size
  <2>1. i \in 0 .. Len(p) /\ SubSeq(z, 1, i) = SubSeq(p, 1, i)
    BY <1>1, <1>2, <1>3
  <2>2. OpenNode(t[SubSeq(p, 1, i)])
    BY <2>1 DEF OpenWay
  <2>3. CASE i = Len(p)
    BY <1>1, <1>2, <2>1, <2>2, <2>3, WholePrefix
  <2>4. CASE i # Len(p)
    <3>1. i < Len(p) /\ i + 1 \in 1 .. Len(p)
      BY <1>1, <2>1, <2>4
    <3>2. SubSeq(p, 1, i) \in DOMAIN t /\ Len(SubSeq(p, 1, i)) = i
      BY <1>1, <2>1, PrefixInTree, Prefix
    <3>3. u[SubSeq(p, 1, i)] = t[SubSeq(p, 1, i)]
      BY <2>4, <3>2
    <3>4. z[i + 1] = p[i + 1] /\ (p[i + 1] \in Nat => p[i + 1] = t[SubSeq(p, 1, i)].size)
      BY <1>2, <2>1, <3>1 DEF OpenWay
    <3> QED
      BY <2>1, <2>2, <3>3, <3>4
  <2> QED
    BY <2>3, <2>4
<1>5. BelowOpen(t, u, z)
  BY <1>4 DEF BelowOpen, OpenNode
<1> QED
  BY <1>5 DEF z

LEMMA ArrayTableGrown ==
  ASSUME NEW n \in Nat, NEW m, m = ArrayTable(n)
  PROVE  ArrayTable(n + 1) = [m EXCEPT !.size = n + 1]
<1>1. \A l \in Node : [l EXCEPT !.size = n + 1] =
        [kind |-> l.kind, inline |-> l.inline, arrayTable |-> l.arrayTable,
         definition |-> l.definition, size |-> n + 1]
  BY DEF Node
<1>2. m \in Node
  BY NewArray
<1>3. m.kind = "array" /\ m.inline = FALSE /\ m.arrayTable = TRUE /\ m.definition = "implicit"
  BY DEF ArrayTable
<1> QED
  BY <1>1, <1>2, <1>3 DEF ArrayTable

LEMMA AppendStep ==
  ASSUME Inv, AppendElement
  PROVE  Inv' /\ Grown
<1> DEFINE p == Target
           size == SizeAfter(tree, p)
           element == Append(p, size)
           u == WithElement(tree, p, size)
<1>1. path # <<>> /\ (p \in DOMAIN tree => tree[p].arrayTable)
  <2>1. Len(path) = 1 /\ MayAppend(Target)
    BY DEF AppendElement
  <2>2. path # <<>>
    <3>1. Len(<<>>) = 0
      OBVIOUS
    <3> QED
      BY <2>1, <3>1
  <2> QED
    BY <2>1, <2>2 DEF MayAppend, Exists
<1>2. tree' = u /\ current' = element /\ opened' = opened
  BY DEF AppendElement, WithElement, Exists, SizeAfter
<1>3. Head(path) \in Keys /\ p = Append(table, Head(path)) /\ p \in Address
  BY <1>1, TargetFields DEF Inv
<1>4. CallTypes' /\ ContentFits' /\ doing' = "idle" /\ table' = <<>>
  BY ReturnTypes DEF AppendElement
<1>5. GoodTree(tree) /\ IsTree(tree)
  BY DEF Inv, TreeFits, GoodTree
<1>6. \A x \in {<<>>, current, table} :
        /\ x \in DOMAIN tree /\ x \in Address /\ tree[x] \in Node
        /\ tree[x].kind = "table" /\ OpenWay(tree, x)
  BY Pointed DEF Inv
<1> HIDE DEF p
<1>7. size = IF p \in DOMAIN tree THEN tree[p].size + 1 ELSE 1
  BY DEF SizeAfter
<1> HIDE DEF size
<1>8. /\ GoodTree(u) /\ size \in Nat \ {0}
      /\ DOMAIN u = DOMAIN tree \cup {p, element} /\ element \notin DOMAIN tree
      /\ u[p] = ArrayTable(size) /\ u[element] = Table("array_element")
      /\ \A y \in DOMAIN tree \ {p} : u[y] = tree[y]
  <2>1. table \in DOMAIN tree /\ tree[table].kind = "table"
    BY <1>6
  <2>2. Head(path) \in Keys /\ p = Append(table, Head(path))
    BY <1>3
  <2>3. p \in DOMAIN tree => tree[p].arrayTable
    BY <1>1
  <2>4. HasElement(tree, p, SizeAfter(tree, p), WithElement(tree, p, SizeAfter(tree, p)))
    BY <1>5, <2>1, <2>2, <2>3, ElementAppended
  <2>5. HasElement(tree, p, size, u)
    BY <2>4 DEF size
  <2> HIDE DEF u
  <2> QED
    BY <2>5 DEF HasElement
<1> HIDE DEF u, element
<1>9. p \in DOMAIN tree =>
        /\ tree[p].size \in Nat \ {0} /\ tree[p] = ArrayTable(tree[p].size)
        /\ tree[p].kind = "array" /\ ~ tree[p].inline /\ tree[p].definition = "implicit"
  BY <1>1, <1>5, ArrayTableFields
<1>10. /\ u[p].kind = "array" /\ u[p].size = size /\ u[p].arrayTable /\ ~ u[p].inline
       /\ u[element].kind = "table" /\ ~ u[element].inline
  <2>1. "array_element" \in Definitions
    BY DEF Definitions
  <2> QED
    BY <1>8, <2>1, NewArray, NewTable
<1>11. \A x \in {<<>>, table} : x # p /\ x \in DOMAIN u /\ u[x].kind = "table"
  BY <1>6, <1>8, <1>9
<1>12. OpenWay(u, table)
  <2>1. Len(table) \in Nat /\ Len(p) = Len(table) + 1
    BY <1>3, <1>6, AddressLength, Extended
  <2>2. ASSUME NEW i \in 0 .. Len(table)
        PROVE  u[SubSeq(table, 1, i)] = tree[SubSeq(table, 1, i)]
    <3>1. SubSeq(table, 1, i) \in DOMAIN tree /\ Len(SubSeq(table, 1, i)) = i
      BY <1>5, <1>6, PrefixInTree, Prefix
    <3>2. SubSeq(table, 1, i) # p
      BY <2>1, <3>1
    <3> QED
      BY <1>8, <3>1, <3>2
  <2>3. OpenWay(tree, table)
    BY <1>6
  <2> QED
    BY <2>2, <2>3 DEF OpenWay
<1>13. OpenWay(u, p)
  <2>1. OpenNode(u[p]) /\ Head(path) \notin Nat
    BY <1>3, <1>10, DocumentAssumption DEF OpenNode
  <2> QED
    BY <1>3, <1>6, <1>12, <2>1, OpenWayOn
<1>14. OpenWay(u, element)
  <2>1. OpenNode(u[element])
    BY <1>10 DEF OpenNode
  <2> QED
    BY <1>3, <1>8, <1>10, <1>13, <2>1, OpenWayOn DEF element
<1>15. TreeFits' /\ Ways'
  <2>1. OpenWay(u, <<>>)
    BY <1>6, <1>12, RootWay
  <2>2. element \in DOMAIN u
    BY <1>8
  <2> QED
    BY <1>2, <1>4, <1>8, <1>10, <1>11, <1>14, <2>1, <2>2 DEF TreeFits, Ways
<1>16. Kept(tree, u)
  <2>1. ASSUME p \in DOMAIN tree PROVE u[p] = [tree[p] EXCEPT !.size = @ + 1]
    <3>1. size = tree[p].size + 1
      BY <1>7, <2>1
    <3>2. u[p] = ArrayTable(tree[p].size + 1)
      BY <1>8, <3>1
    <3>3. tree[p] = ArrayTable(tree[p].size)
      BY <1>9, <2>1
    <3> QED
      BY <1>9, <2>1, <3>2, <3>3, ArrayTableGrown
  <2>2. p \in DOMAIN tree => NodeKept(tree[p], u[p])
    BY <1>1, <1>9, <2>1 DEF NodeKept
  <2>3. \A y \in DOMAIN tree \ {p} : NodeKept(tree[y], u[y])
    BY <1>8 DEF NodeKept
  <2> QED
    BY <1>8, <2>2, <2>3 DEF Kept
<1>17. \A z \in DOMAIN u \ DOMAIN tree : BelowOpen(tree, u, z)
  <2>1. CASE p \in DOMAIN tree
    <3>1. OpenWay(tree, p)
      <4>1. OpenNode(tree[p]) /\ Head(path) \notin Nat
        BY <1>1, <1>3, <1>9, <2>1, DocumentAssumption DEF OpenNode
      <4> QED
        BY <1>3, <1>6, <4>1, OpenWayOn
    <3>2. BelowOpen(tree, u, element)
      BY <1>5, <1>8, <1>10, <2>1, <3>1, ElementBelowOpen DEF element
    <3> QED
      BY <1>8, <2>1, <3>2
  <2>2. CASE p \notin DOMAIN tree
    <3>1. <<>> \in Address /\ <<size>> \in Address
      BY <1>8 DEF Address
    <3>2. p \o <<>> = p /\ element = p \o <<size>>
      BY <1>3, <1>8, JoinedRoot, AppendIsConcat DEF element, Address
    <3>3. \A y \in DOMAIN tree : u[y] = tree[y]
      BY <1>8, <2>2
    <3>4. Append(table, Head(path)) \notin DOMAIN tree /\ Keys \cap Nat = {}
      BY <1>3, <2>2, DocumentAssumption
    <3>5. \A w \in Address : BelowOpen(tree, u, Append(table, Head(path)) \o w)
      BY <1>3, <1>5, <1>6, <3>3, <3>4, NewBelowOpen
    <3>6. BelowOpen(tree, u, p) /\ BelowOpen(tree, u, element)
      BY <1>3, <3>1, <3>2, <3>5
    <3> QED
      BY <1>8, <3>6
  <2> QED
    BY <2>1, <2>2
<1>18. Grown
  BY <1>2, <1>16, <1>17 DEF Grown
<1>19. Defined'
  <2>1. \A y \in opened : y \in DOMAIN tree' /\ tree'[y] = tree[y]
    <3>1. \A y \in opened : y \in DOMAIN tree /\ tree[y].definition = "explicit_table"
      BY DEF Inv, Defined
    <3>2. p \notin opened
      <4>1. "implicit" # "explicit_table"
        OBVIOUS
      <4> QED
        BY <1>9, <3>1, <4>1
    <3> QED
      BY <1>2, <1>8, <3>1, <3>2
  <2> QED
    BY <1>2, <1>4, <2>1, DefinedStays
<1> QED
  BY <1>4, <1>15, <1>18, <1>19 DEF Inv

-----------------------------------------------------------------------------
(* The theorems.                                                           *)

LEMMA Initially ==
  ASSUME Init
  PROVE  Inv
<1> DEFINE root == Table("implicit")
<1>1. root \in Node /\ root.kind = "table" /\ ~ root.inline /\ ~ root.arrayTable
  BY NewTable DEF Definitions
<1> HIDE DEF root
<1>2. /\ DOMAIN tree = {<<>>} /\ tree[<<>>] = root /\ current = <<>> /\ table = <<>>
      /\ path = <<>> /\ header = <<>> /\ value = NoNodes /\ doing = "idle" /\ opened = {}
      /\ nodes = 0 /\ lines = 0
  BY DEF Init, root
<1>3. <<>> \in Address /\ 0 .. Len(<<>>) - 1 = {} /\ 0 .. Len(<<>>) = {0}
  BY DEF Address
<1>4. IsTree(tree)
  BY <1>1, <1>2, <1>3 DEF IsTree
<1>5. ArraysOfTables(tree)
  BY <1>1, <1>2 DEF ArraysOfTables
<1>6. TreeFits
  BY <1>1, <1>2, <1>4, <1>5 DEF TreeFits, GoodTree
<1>7. SubSeq(<<>>, 1, 0) = <<>> /\ ~ (0 < Len(<<>>))
  BY SubSeqEmpty
<1>8. Ways
  BY <1>1, <1>2, <1>3, <1>7 DEF Ways, OpenWay, OpenNode
<1>9. CallTypes
  <2>1. MaxNodes \in Nat /\ MaxLines \in Nat /\ DOMAIN NoNodes = {} /\ <<>> \in Seq(Keys)
    BY DocumentAssumption DEF NoNodes
  <2> QED
    BY <1>2, <2>1 DEF CallTypes
<1> QED
  BY <1>2, <1>6, <1>8, <1>9 DEF Inv, ContentFits, Defined

LEMMA Step ==
  ASSUME Inv, [Next]_vars
  PROVE  Inv' /\ Grown
<1>1. CASE UNCHANGED vars
  <2>1. UNCHANGED <<tree, current, doing, path, table, value, nodes, lines, header, opened>>
    BY <1>1 DEF vars, walkVars
  <2>2. TreeFits' /\ Ways' /\ Grown
    BY <2>1, TreeStays DEF Inv
  <2>3. CallTypes' /\ ContentFits' /\ Defined'
    BY <2>1 DEF Inv, CallTypes, ContentFits, Defined
  <2> QED
    BY <2>2, <2>3 DEF Inv
<1>2. CASE \E p \in Paths : \/ ParseHeader("open", p) \/ ParseHeader("openArray", p)
                            \/ \E v \in Values : ParseAssignment(p, v)
  BY <1>2, HeaderStep, AssignmentStep
<1>3. CASE CreateTable
  BY <1>3, CreateStep
<1>4. CASE EnterTable
  BY <1>4, EnterStep
<1>5. CASE EnterLastElement
  BY <1>5, LastElementStep
<1>6. CASE CannotOpen
  <2>1. doing \in {"open", "openArray", "insert"} /\ Conflict
    BY <1>6 DEF CannotOpen, Walking
  <2> QED
    BY <2>1, ConflictStep
<1>7. CASE Opened
  BY <1>7, OpenedStep
<1>8. CASE AppendElement
  BY <1>8, AppendStep
<1>9. CASE CannotAppend
  <2>1. doing \in {"open", "openArray", "insert"} /\ Conflict
    BY <1>9 DEF CannotAppend
  <2> QED
    BY <2>1, ConflictStep
<1>10. CASE WalkDotted
  BY <1>10, DottedStep
<1>11. CASE Insert
  BY <1>11, InsertStep
<1>12. CASE CannotInsert
  <2>1. doing \in {"open", "openArray", "insert"} /\ Conflict
    BY <1>12 DEF CannotInsert
  <2> QED
    BY <2>1, ConflictStep
<1>13. CASE Malformed \/ Finish
  BY <1>13, OtherEnds
<1> QED
  BY <1>1, <1>2, <1>3, <1>4, <1>5, <1>6, <1>7, <1>8, <1>9, <1>10, <1>11, <1>12, <1>13
     DEF Next

\* The types, the shape of the tree and the inductive invariant hold in every
\* reachable state: all that leads to the current table is open.
THEOREM Invariance == Spec => []Inv
<1>1. Init => Inv
  BY Initially
<1>2. Inv /\ [Next]_vars => Inv'
  BY Step
<1> QED
  BY <1>1, <1>2, PTL DEF Spec

\* No std::get of open_table(), open_array_table() or insertValueAt() finds another
\* alternative than it asks for, whatever the lines of the document.
THEOREM Typing == Spec => []TypeOK
<1>1. Inv => TypeOK
  BY Types DEF Inv
<1> QED
  BY <1>1, Invariance, PTL

\* Nothing that a line has said is lost: nodes stay what they are, but that arrays of
\* tables get more elements and implied tables are defined.
THEOREM NothingLost == Spec => Keeps
<1>1. Inv /\ [Next]_vars => Grown
  BY Step
<1>2. Grown =>
        [\A x \in DOMAIN tree :
           /\ x \in DOMAIN tree'
           /\ tree'[x] = tree[x]
              \/ /\ tree[x].definition = "implicit" /\ ~ tree[x].inline
                 /\ \/ tree'[x] = [tree[x] EXCEPT !.definition = "explicit_table"]
                    \/ tree[x].arrayTable /\ tree'[x] = [tree[x] EXCEPT !.size = @ + 1]]_vars
  BY DEF Grown, Kept, NodeKept
<1> QED
  BY <1>1, <1>2, Invariance, PTL DEF Spec, Keeps

\* What a line adds is below tables that may be added to, and in the last elements
\* of arrays of tables.
THEOREM AdditionsBelowOpen == Spec => AddsBelowOpen
<1>1. Inv /\ [Next]_vars => Grown
  BY Step
<1>2. Grown =>
        [\A x \in DOMAIN tree' \ DOMAIN tree :
           \A i \in 0 .. Len(x) - 1 :
             LET y == SubSeq(x, 1, i)
             IN y \in DOMAIN tree =>
                  /\ ~ tree[y].inline
                  /\ tree[y].kind = "table" \/ tree[y].arrayTable
                  /\ x[i + 1] \in Nat => x[i + 1] = tree'[y].size]_vars
  BY DEF Grown, BelowOpen
<1> QED
  BY <1>1, <1>2, Invariance, PTL DEF Spec, AddsBelowOpen

\* No header defines a table that a header or an element has defined.
THEOREM DefinitionsOnce == Spec => DefinesOnce
<1>1. Inv /\ [Next]_vars =>
        [doing = "open" /\ doing' = "idle" =>
           current' \notin opened /\ tree[current'].definition # "array_element"]_vars
  <2> SUFFICES ASSUME Inv, Next, doing = "open", doing' = "idle"
               PROVE  current' \notin opened /\ tree[current'].definition # "array_element"
    OBVIOUS
  <2>1. Opened
    <3>1. \A outcome : Ends(outcome) => doing' = outcome
      BY DEF Ends
    <3>2. Refusal["open"] = "cannotOpen"
      BY DEF Refusal
    <3>3. \A t, x : Walk(t, x) => doing' = doing
      BY DEF Walk
    <3> QED
      BY <3>1, <3>2, <3>3
         DEF Next, ParseHeader, ParseAssignment, StartLine, CreateTable, EnterTable,
             EnterLastElement, CannotOpen, Conflict, AppendElement, CannotAppend, WalkDotted,
             Insert, CannotInsert, Malformed, Finish
  <2>2. path = <<>> /\ current' = table
    BY <2>1 DEF Opened
  <2> QED
    BY <2>2 DEF Inv, Defined
<1> QED
  BY <1>1, Invariance, PTL DEF Spec, DefinesOnce

-----------------------------------------------------------------------------
(* The limit on values.                                                    *)

\* The values of the document, with those that are to be inserted, have been counted.
Budget ==
  /\ IsFiniteSet(ValuesIn(tree)) /\ Cardinality(ValuesIn(tree)) <= nodes
  /\ doing = "insert" =>
       /\ IsFiniteSet(ValuesIn(value))
       /\ Cardinality(ValuesIn(tree)) + Cardinality(ValuesIn(value)) <= nodes

\* A table or an array of tables, in whatever place, is no value.
LEMMA NoValuePut ==
  ASSUME NEW t, NEW x, NEW n, n.kind = "table" \/ n.arrayTable
  PROVE  ValuesIn(Put(t, x, n)) \subseteq ValuesIn(t)
<1> DEFINE u == Put(t, x, n)
<1>1. DOMAIN u = DOMAIN t \cup {x} /\ \A y \in DOMAIN u : u[y] = IF y = x THEN n ELSE t[y]
  BY DEF Put
<1> HIDE DEF u
<1>2. ValuesIn(u) \subseteq ValuesIn(t)
  BY <1>1 DEF ValuesIn
<1> QED
  BY <1>2 DEF u

\* Grafting a content brings its values and no others.
LEMMA ValuesGrafted ==
  ASSUME NEW t, NEW p \in Address, NEW c, \A y \in DOMAIN c : y \in Address,
         IsFiniteSet(ValuesIn(t)), IsFiniteSet(ValuesIn(c))
  PROVE  /\ IsFiniteSet(ValuesIn(Graft(t, p, c)))
         /\ Cardinality(ValuesIn(Graft(t, p, c))) <=
              Cardinality(ValuesIn(t)) + Cardinality(ValuesIn(c))
<1> DEFINE below == {p \o y : y \in DOMAIN c}
           g == Graft(t, p, c)
           at == [y \in ValuesIn(c) |-> p \o y]
           new == {p \o y : y \in ValuesIn(c)}
<1>1. g = [y \in DOMAIN t \cup below |->
             IF y \in below THEN c[SubSeq(y, Len(p) + 1, Len(y))] ELSE t[y]]
  BY DEF Graft
<1>2. \A y \in DOMAIN c : SubSeq(p \o y, Len(p) + 1, Len(p \o y)) = y /\ p \o y \in below
  BY RestOfJoined
<1>3. \A y \in below : \E w \in DOMAIN c : y = p \o w
  OBVIOUS
<1> HIDE DEF below, g
<1>4. DOMAIN g = DOMAIN t \cup below
  BY <1>1
<1>5. \A w \in DOMAIN c : g[p \o w] = c[w]
  BY <1>1, <1>2
<1>6. \A y \in DOMAIN g \ below : g[y] = t[y] /\ y \in DOMAIN t
  BY <1>1
<1>7. ValuesIn(g) \subseteq ValuesIn(t) \cup new
  <2> SUFFICES ASSUME NEW y \in ValuesIn(g) PROVE y \in ValuesIn(t) \cup new
    OBVIOUS
  <2>1. y \in DOMAIN g /\ g[y].kind # "table" /\ ~ g[y].arrayTable
    BY DEF ValuesIn
  <2>2. CASE y \in below
    <3>1. PICK w \in DOMAIN c : y = p \o w
      BY <1>3, <2>2
    <3>2. w \in ValuesIn(c)
      BY <1>5, <2>1, <3>1 DEF ValuesIn
    <3> QED
      BY <3>1, <3>2
  <2>3. CASE y \notin below
    BY <1>6, <2>1, <2>3 DEF ValuesIn
  <2> QED
    BY <2>2, <2>3
<1>8. at \in Surjection(ValuesIn(c), new)
  BY DEF Surjection
<1>9. IsFiniteSet(new) /\ Cardinality(new) <= Cardinality(ValuesIn(c))
  BY <1>8, FS_Surjection
<1> HIDE DEF new
<1>10. IsFiniteSet(ValuesIn(t) \cup new)
       /\ Cardinality(ValuesIn(t) \cup new) =
            Cardinality(ValuesIn(t)) + Cardinality(new) - Cardinality(ValuesIn(t) \cap new)
  BY <1>9, FS_Union
<1>11. IsFiniteSet(ValuesIn(t) \cap new)
  BY FS_Subset
<1>12. /\ Cardinality(ValuesIn(t)) \in Nat /\ Cardinality(new) \in Nat
       /\ Cardinality(ValuesIn(c)) \in Nat /\ Cardinality(ValuesIn(t) \cap new) \in Nat
  BY <1>9, <1>11, FS_CardinalityType
<1>13. IsFiniteSet(ValuesIn(g)) /\ Cardinality(ValuesIn(g)) <= Cardinality(ValuesIn(t) \cup new)
  BY <1>7, <1>10, FS_Subset
<1>14. Cardinality(ValuesIn(g)) \in Nat
  BY <1>13, FS_CardinalityType
<1>15. Cardinality(ValuesIn(g)) <= Cardinality(ValuesIn(t)) + Cardinality(ValuesIn(c))
  BY <1>9, <1>10, <1>12, <1>13, <1>14
<1> QED
  BY <1>13, <1>15 DEF g

\* A step that brings no value.
LEMMA BudgetStays ==
  ASSUME Inv, Budget, ValuesIn(tree') \subseteq ValuesIn(tree), nodes' = nodes,
         doing' = "insert" => doing = "insert" /\ value' = value
  PROVE  Budget'
<1>1. IsFiniteSet(ValuesIn(tree')) /\ Cardinality(ValuesIn(tree')) <= Cardinality(ValuesIn(tree))
  BY FS_Subset DEF Budget
<1>2. Cardinality(ValuesIn(tree')) \in Nat /\ Cardinality(ValuesIn(tree)) \in Nat /\ nodes \in Nat
  BY <1>1, FS_CardinalityType, DocumentAssumption DEF Budget, Inv, CallTypes
<1>3. Cardinality(ValuesIn(tree')) <= nodes
  BY <1>1, <1>2 DEF Budget
<1>4. ASSUME doing' = "insert"
      PROVE  /\ IsFiniteSet(ValuesIn(value'))
             /\ Cardinality(ValuesIn(tree')) + Cardinality(ValuesIn(value')) <= nodes'
  <2>1. IsFiniteSet(ValuesIn(value)) /\ value' = value
        /\ Cardinality(ValuesIn(tree)) + Cardinality(ValuesIn(value)) <= nodes
    BY <1>4 DEF Budget
  <2>2. Cardinality(ValuesIn(value)) \in Nat
    BY <2>1, FS_CardinalityType
  <2> QED
    BY <1>1, <1>2, <2>1, <2>2
<1>5. (IsFiniteSet(ValuesIn(tree)) /\ Cardinality(ValuesIn(tree)) <= nodes)'
  BY <1>1, <1>3
<1> QED
  BY <1>4, <1>5 DEF Budget, ValuesIn

\* A value is counted before it is inserted.
LEMMA AssignmentBudget ==
  ASSUME Inv, Budget, NEW p \in Paths, NEW v \in Values, ParseAssignment(p, v)
  PROVE  Budget'
<1>1. CASE Ends("malformed")
  <2>1. tree' = tree /\ nodes' = nodes /\ doing' # "insert"
    BY <1>1 DEF Ends
  <2> QED
    BY <2>1, BudgetStays
<1>2. CASE doing' = "insert" /\ value' = v.content /\ nodes' = Counted(v) /\ tree' = tree
  <2>1. v.count \in Nat /\ IsFiniteSet(ValuesIn(v.content))
        /\ Cardinality(ValuesIn(v.content)) <= v.count
    BY DocumentAssumption, CountAssumption DEF IsValue
  <2>2. Cardinality(ValuesIn(v.content)) \in Nat /\ Cardinality(ValuesIn(tree)) \in Nat
    BY <2>1, FS_CardinalityType DEF Budget
  <2>3. nodes \in Nat /\ nodes' = nodes + v.count
    BY <1>2, DocumentAssumption DEF Inv, CallTypes, Counted
  <2>4. Cardinality(ValuesIn(tree)) + Cardinality(ValuesIn(v.content)) <= nodes'
        /\ Cardinality(ValuesIn(tree)) <= nodes'
    BY <2>1, <2>2, <2>3 DEF Budget
  <2>5. ValuesIn(tree)' = ValuesIn(tree) /\ ValuesIn(value)' = ValuesIn(v.content)
    BY <1>2 DEF ValuesIn
  <2> QED
    BY <2>1, <2>4, <2>5 DEF Budget
<1> QED
  BY <1>1, <1>2 DEF ParseAssignment

LEMMA InsertBudget ==
  ASSUME Inv, Budget, Insert
  PROVE  Budget'
<1>1. /\ doing = "insert" /\ Len(path) = 1 /\ tree' = Graft(tree, Target, value)
      /\ doing' = "idle" /\ nodes' = nodes
  BY DEF Insert, Return
<1>2. path # <<>>
  BY <1>1
<1>3. Target \in Address
  BY <1>2, TargetFields DEF Inv
<1>4. \A y \in DOMAIN value : y \in Address
  BY DEF Inv, CallTypes
<1>5. /\ IsFiniteSet(ValuesIn(tree)) /\ IsFiniteSet(ValuesIn(value))
      /\ Cardinality(ValuesIn(tree)) + Cardinality(ValuesIn(value)) <= nodes
  BY <1>1 DEF Budget
<1>6. /\ IsFiniteSet(ValuesIn(tree'))
      /\ Cardinality(ValuesIn(tree')) <= Cardinality(ValuesIn(tree)) + Cardinality(ValuesIn(value))
  BY <1>1, <1>3, <1>4, <1>5, ValuesGrafted
<1>7. /\ Cardinality(ValuesIn(tree')) \in Nat /\ Cardinality(ValuesIn(tree)) \in Nat
      /\ Cardinality(ValuesIn(value)) \in Nat /\ nodes \in Nat
  BY <1>5, <1>6, FS_CardinalityType, DocumentAssumption DEF Inv, CallTypes
<1>8. Cardinality(ValuesIn(tree')) <= nodes
  BY <1>5, <1>6, <1>7
<1>9. ValuesIn(tree)' = ValuesIn(tree')
  BY DEF ValuesIn
<1> QED
  BY <1>1, <1>6, <1>8, <1>9 DEF Budget

LEMMA BudgetStep ==
  ASSUME Inv, Budget, [Next]_vars
  PROVE  Budget'
<1>1. CASE UNCHANGED vars
  BY <1>1, BudgetStays DEF vars, walkVars
<1>2. ASSUME NEW outcome, outcome # "insert", Ends(outcome) PROVE Budget'
  <2>1. tree' = tree /\ nodes' = nodes /\ doing' # "insert"
    BY <1>2 DEF Ends
  <2> QED
    BY <2>1, BudgetStays
<1>3. ASSUME doing \in {"open", "openArray", "insert"}, Conflict PROVE Budget'
  <2>1. Refusal[doing] # "insert" /\ Ends(Refusal[doing])
    BY <1>3 DEF Refusal, Conflict
  <2> QED
    BY <1>2, <2>1
<1>4. ASSUME NEW p \in Paths, NEW call \in {"open", "openArray"}, ParseHeader(call, p)
      PROVE  Budget'
  <2>1. Ends("malformed") \/ (tree' = tree /\ nodes' = nodes /\ doing' = call)
    BY <1>4 DEF ParseHeader
  <2>2. CASE tree' = tree /\ nodes' = nodes /\ doing' = call
    BY <2>2, BudgetStays
  <2> QED
    BY <1>2, <2>1, <2>2
<1>5. ASSUME NEW t, NEW x, Walk(t, x), ValuesIn(t) \subseteq ValuesIn(tree) PROVE Budget'
  <2>1. tree' = t /\ nodes' = nodes /\ doing' = doing /\ value' = value
    BY <1>5 DEF Walk
  <2> QED
    BY <1>5, <2>1, BudgetStays
<1>6. CASE CreateTable
  <2> DEFINE d == IF Terminal THEN "explicit_table" ELSE "implicit"
  <2>1. Walk(Put(tree, Target, Table(d)), Target)
    BY <1>6 DEF CreateTable
  <2>2. Table(d).kind = "table"
    BY NewTable DEF Definitions
  <2> HIDE DEF d
  <2>3. ValuesIn(Put(tree, Target, Table(d))) \subseteq ValuesIn(tree)
    BY <2>2, NoValuePut
  <2> QED
    BY <1>5, <2>1, <2>3
<1>7. CASE EnterTable
  <2> DEFINE t == [tree EXCEPT ![Target].definition = "explicit_table"]
  <2>1. Walk(t, Target) \/ Walk(tree, Target)
    BY <1>7 DEF EnterTable
  <2>2. \A y \in DOMAIN tree : tree[y] \in Node
    BY TreeFields DEF Inv, TreeFits, GoodTree
  <2>3. DOMAIN t = DOMAIN tree
        /\ \A y \in DOMAIN tree : t[y].kind = tree[y].kind /\ t[y].arrayTable = tree[y].arrayTable
    BY <2>2 DEF Node
  <2> HIDE DEF t
  <2>4. ValuesIn(t) \subseteq ValuesIn(tree)
    BY <2>3 DEF ValuesIn
  <2> QED
    BY <1>5, <2>1, <2>4
<1>8. CASE EnterLastElement
  BY <1>5, <1>8 DEF EnterLastElement
<1>9. CASE CannotOpen
  BY <1>3, <1>9 DEF CannotOpen, Walking
<1>10. CASE Opened
  <2>1. tree' = tree /\ nodes' = nodes /\ doing' = "idle"
    BY <1>10 DEF Opened, Return
  <2> QED
    BY <2>1, BudgetStays
<1>11. CASE AppendElement
  <2> DEFINE size == IF Exists(Target) THEN tree[Target].size + 1 ELSE 1
             element == Append(Target, size)
             t == Put(tree, Target, ArrayTable(size))
  <2>1. /\ tree' = Put(t, element, Table("array_element"))
        /\ nodes' = nodes /\ doing' = "idle"
    BY <1>11 DEF AppendElement, Return
  <2> HIDE DEF size, element
  <2>2. ArrayTable(size).arrayTable /\ Table("array_element").kind = "table"
    BY DEF ArrayTable, Table
  <2>3. ValuesIn(t) \subseteq ValuesIn(tree)
    BY <2>2, NoValuePut
  <2> HIDE DEF t
  <2>4. ValuesIn(tree') \subseteq ValuesIn(t)
    BY <2>1, <2>2, NoValuePut
  <2> QED
    BY <2>1, <2>3, <2>4, BudgetStays
<1>12. CASE CannotAppend
  BY <1>3, <1>12 DEF CannotAppend
<1>13. CASE WalkDotted
  <2>1. /\ tree' = IF Exists(Target) THEN tree ELSE Put(tree, Target, Table("dotted_key"))
        /\ nodes' = nodes /\ doing' = doing /\ value' = value
    BY <1>13 DEF WalkDotted
  <2>2. Table("dotted_key").kind = "table"
    BY DEF Table
  <2>3. ValuesIn(Put(tree, Target, Table("dotted_key"))) \subseteq ValuesIn(tree)
    BY <2>2, NoValuePut
  <2> QED
    BY <2>1, <2>3, BudgetStays
<1>14. CASE CannotInsert
  BY <1>3, <1>14 DEF CannotInsert
<1>15. CASE Malformed \/ Finish
  BY <1>2, <1>15 DEF Malformed, Finish
<1> QED
  BY <1>1, <1>4, <1>6, <1>7, <1>8, <1>9, <1>10, <1>11, <1>12, <1>13, <1>14, <1>15,
     AssignmentBudget, InsertBudget DEF Next

\* max_nodes bounds the values of the document all together, however many lines bring
\* them, as long as what a value has is what has been counted for it (line 1215).
THEOREM Bounding == Spec => []BoundedValues
<1>1. Init => Inv /\ Budget
  <2> SUFFICES ASSUME Init PROVE Inv /\ Budget
    OBVIOUS
  <2>1. tree = [x \in {<<>>} |-> Table("implicit")] /\ nodes = 0 /\ doing = "idle"
    BY DEF Init
  <2>2. ValuesIn(tree) = {}
    BY <2>1 DEF ValuesIn, Table
  <2> QED
    BY <2>1, <2>2, Initially, FS_EmptySet DEF Budget
<1>2. Inv /\ Budget /\ [Next]_vars => (Inv /\ Budget)'
  BY Step, BudgetStep
<1>3. Inv /\ Budget => BoundedValues
  <2> SUFFICES ASSUME Inv, Budget PROVE BoundedValues
    OBVIOUS
  <2>1. Cardinality(ValuesIn(tree)) \in Nat /\ Cardinality(ValuesIn(tree)) <= nodes
    BY FS_CardinalityType DEF Budget
  <2>2. nodes \in 0 .. MaxNodes /\ MaxNodes \in Nat
    BY DocumentAssumption DEF Inv, CallTypes
  <2> QED
    BY <2>1, <2>2 DEF BoundedValues
<1> QED
  BY <1>1, <1>2, <1>3, PTL DEF Spec

-----------------------------------------------------------------------------
(* The table that the last header names.                                   *)

\* The keys of the table that the lines go to, or of the table that the walk has come
\* to with those that are left, are what the header names.
Headed ==
  /\ doing \in {"idle", "insert"} => Names(current) = header
  /\ doing \in {"open", "openArray"} => Names(table) \o path = header
  /\ doing = "openArray" => path # <<>>

LEMMA Onward ==
  ASSUME NEW s \in Address, NEW p \in Seq(Keys), p # <<>>
  PROVE  Append(s, Head(p)) \o Tail(p) = s \o p
<1> DEFINE k == Head(p)
           q == Tail(p)
           a == Append(s, k)
           l == a \o q
           r == s \o p
<1>1. /\ p \in Address /\ s \in Address /\ k \in Keys \cup Nat /\ q \in Address
      /\ k = p[1] /\ Len(p) \in Nat /\ Len(s) \in Nat /\ Len(q) = Len(p) - 1 /\ Len(p) # 0
      /\ \A i \in 1 .. Len(p) - 1 : q[i] = p[i + 1]
  BY HeadTailProperties DEF Address
<1> HIDE DEF k, q
<1>2. /\ a \in Address /\ Len(a) = Len(s) + 1
      /\ a[Len(s) + 1] = k /\ \A i \in 1 .. Len(s) : a[i] = s[i]
  BY <1>1, Extended
<1> HIDE DEF a
<1>3. /\ l \in Address /\ Len(l) = Len(s) + Len(p)
      /\ \A i \in 1 .. Len(s) + Len(p) :
           l[i] = IF i <= Len(s) + 1 THEN a[i] ELSE q[i - (Len(s) + 1)]
  <2>1. /\ l \in Address /\ Len(l) = Len(a) + Len(q)
        /\ \A i \in 1 .. Len(a) + Len(q) : l[i] = IF i <= Len(a) THEN a[i] ELSE q[i - Len(a)]
    BY <1>1, <1>2, Joined
  <2>2. Len(a) + Len(q) = Len(s) + Len(p)
    BY <1>1, <1>2
  <2> QED
    BY <1>2, <2>1, <2>2
<1>4. /\ r \in Address /\ Len(r) = Len(s) + Len(p)
      /\ \A i \in 1 .. Len(s) + Len(p) : r[i] = IF i <= Len(s) THEN s[i] ELSE p[i - Len(s)]
  BY <1>1, Joined
<1> HIDE DEF l, r
<1>5. ASSUME NEW i \in 1 .. Len(s) + Len(p) PROVE l[i] = r[i]
  <2>1. CASE i <= Len(s)
    BY <1>1, <1>2, <1>3, <1>4, <2>1
  <2>2. CASE i = Len(s) + 1
    BY <1>1, <1>2, <1>3, <1>4, <2>2
  <2>3. CASE i > Len(s) + 1
    <3>1. /\ i - (Len(s) + 1) \in 1 .. Len(p) - 1
          /\ i - (Len(s) + 1) + 1 = i - Len(s)
      BY <1>1, <2>3
    <3>2. q[i - (Len(s) + 1)] = p[i - Len(s)]
      BY <1>1, <3>1
    <3> QED
      BY <1>1, <1>3, <1>4, <2>3, <3>2
  <2> QED
    BY <1>1, <2>1, <2>2, <2>3
<1>6. l = r
  BY <1>3, <1>4, <1>5, Same
<1> QED
  BY <1>6 DEF l, r, a, k, q

\* The walk has come to the next key, or to an element of the array of that key.
LEMMA HeadedOnward ==
  ASSUME Inv, Headed, path # <<>>, doing' = doing, path' = Tail(path),
         UNCHANGED <<current, header>>,
         table' = Target \/ \E k \in Nat : table' = Append(Target, k),
         doing = "openArray" => Len(path) > 1
  PROVE  Headed'
<1>1. /\ Head(path) \in Keys /\ Tail(path) \in Seq(Keys) /\ Len(Tail(path)) = Len(path) - 1
      /\ Target = Append(table, Head(path)) /\ Target \in Address
  BY TargetFields DEF Inv
<1>2. table \in Address /\ path \in Seq(Keys) /\ Names(table) \in Seq(Keys)
  BY Pointed, NamesType DEF Inv, CallTypes
<1>3. Names(Target) = Append(Names(table), Head(path))
  BY <1>1, <1>2, NamesExtended
<1>4. Names(table') = Append(Names(table), Head(path))
  <2>1. CASE table' = Target
    BY <1>3, <2>1
  <2>2. CASE \E k \in Nat : table' = Append(Target, k)
    <3>1. PICK k \in Nat : table' = Append(Target, k)
      BY <2>2
    <3>2. k \notin Keys
      BY DocumentAssumption
    <3>3. Names(Append(Target, k)) = Names(Target)
      BY <1>1, <3>2, NamesExtended
    <3> QED
      BY <1>3, <3>1, <3>3
  <2> QED
    BY <2>1, <2>2
<1>5. Names(table') \o path' = Names(table) \o path
  <2>1. Names(table) \in Address
    BY <1>2 DEF Address
  <2> QED
    BY <1>2, <1>4, <2>1, Onward
<1>6. doing = "openArray" => path' # <<>>
  <2>1. SUFFICES ASSUME doing = "openArray", path' = <<>> PROVE FALSE
    OBVIOUS
  <2>2. Len(path') = 0
    <3>1. Len(<<>>) = 0
      OBVIOUS
    <3> QED
      BY <2>1, <3>1
  <2>3. Len(path) > 1 /\ Len(path) \in Nat
    BY <1>2, <2>1
  <2> QED
    BY <1>1, <2>2, <2>3
<1> QED
  BY <1>5, <1>6 DEF Headed

LEMMA HeadedStep ==
  ASSUME Inv, Headed, [Next]_vars
  PROVE  Headed'
<1>1. CASE UNCHANGED vars
  BY <1>1 DEF vars, walkVars, Headed
<1>2. ASSUME NEW outcome, Ends(outcome), outcome \notin {"idle", "open", "openArray", "insert"}
      PROVE  Headed'
  BY <1>2 DEF Ends, Headed
<1>3. ASSUME Conflict, doing \in {"open", "openArray", "insert"} PROVE Headed'
  <2>1. Refusal[doing] \notin {"idle", "open", "openArray", "insert"}
    BY <1>3 DEF Refusal
  <2> QED
    BY <1>2, <1>3, <2>1 DEF Conflict
<1>4. ASSUME NEW p \in Paths, NEW call \in {"open", "openArray"}, ParseHeader(call, p)
      PROVE  Headed'
  <2>1. CASE Ends("malformed")
    BY <1>2, <2>1
  <2>2. CASE ~ Ends("malformed")
    <3>1. doing' = call /\ path' = p /\ table' = <<>> /\ header' = p
      BY <1>4, <2>2 DEF ParseHeader
    <3>2. p \in Seq(Keys) /\ p # <<>>
      BY DocumentAssumption
    <3>3. Names(<<>>) \o p = p
      BY <3>2, NoNames, ConcatEmptySeq
    <3> QED
      BY <3>1, <3>2, <3>3 DEF Headed
  <2> QED
    BY <2>1, <2>2
<1>5. ASSUME NEW p \in Paths, NEW v \in Values, ParseAssignment(p, v)
      PROVE  Headed'
  <2>1. CASE Ends("malformed")
    BY <1>2, <2>1
  <2>2. CASE ~ Ends("malformed")
    <3>1. doing = "idle" /\ doing' = "insert" /\ UNCHANGED <<current, header>>
      BY <1>5, <2>2 DEF ParseAssignment, StartLine
    <3> QED
      BY <3>1 DEF Headed
  <2> QED
    BY <2>1, <2>2
<1>6. ASSUME NEW t, NEW x, Walk(t, x), Walking,
             x = Target \/ \E k \in Nat : x = Append(Target, k)
      PROVE  Headed'
  <2>1. path # <<>> /\ (doing = "openArray" => Len(path) > 1)
    BY <1>6, WalkingPath DEF Walking
  <2> QED
    BY <1>6, <2>1, HeadedOnward DEF Walk
<1>7. CASE CreateTable
  <2>1. PICK t : Walk(t, Target)
    BY <1>7 DEF CreateTable
  <2> QED
    BY <1>6, <1>7, <2>1 DEF CreateTable
<1>8. CASE EnterTable
  <2>1. PICK t : Walk(t, Target)
    BY <1>8 DEF EnterTable
  <2> QED
    BY <1>6, <1>8, <2>1 DEF EnterTable
<1>9. CASE EnterLastElement
  <2>1. Walking /\ IsTableArray(Target) /\ Walk(tree, Append(Target, tree[Target].size))
    BY <1>9 DEF EnterLastElement, LastElement
  <2>2. tree[Target].size \in Nat
    BY <2>1, TreeFields, NodeFields DEF IsTableArray, Exists, Inv, TreeFits, GoodTree
  <2> QED
    BY <1>6, <2>1, <2>2
<1>10. CASE Opened
  <2>1. /\ doing = "open" /\ path = <<>> /\ current' = table /\ doing' = "idle"
        /\ header' = header
    BY <1>10 DEF Opened, Return
  <2>2. Names(table) \in Seq(Keys)
    BY Pointed, NamesType DEF Inv
  <2>3. Names(table) = header
    BY <2>1, <2>2, ConcatEmptySeq DEF Headed
  <2> QED
    BY <2>1, <2>3 DEF Headed
<1>11. CASE AppendElement
  <2> DEFINE size == IF Exists(Target) THEN tree[Target].size + 1 ELSE 1
  <2>1. /\ doing = "openArray" /\ Len(path) = 1 /\ doing' = "idle" /\ header' = header
        /\ current' = Append(Target, size)
    BY <1>11 DEF AppendElement, Return
  <2>2. path \in Seq(Keys) /\ path # <<>> /\ table \in Address /\ Names(table) \in Seq(Keys)
    BY <2>1, Pointed, NamesType DEF Inv, CallTypes, Headed
  <2>3. /\ Head(path) \in Keys /\ Target = Append(table, Head(path)) /\ Target \in Address
        /\ Tail(path) = <<>>
    <3>1. Tail(path) \in Seq(Keys) /\ Len(Tail(path)) = 0
      BY <2>1, <2>2, TargetFields DEF Inv
    <3>2. Tail(path) = <<>>
      BY <3>1, EmptySeq
    <3> QED
      BY <2>2, <3>2, TargetFields DEF Inv
  <2>4. size \in Nat
    BY TreeFields, NodeFields DEF Exists, Inv, TreeFits, GoodTree
  <2> HIDE DEF size
  <2>5. Names(current') = Append(Names(table), Head(path))
    <3>1. Names(Target) = Append(Names(table), Head(path))
      BY <2>2, <2>3, NamesExtended
    <3>2. size \notin Keys
      BY <2>4, DocumentAssumption
    <3>3. Names(Append(Target, size)) = Names(Target)
      BY <2>3, <2>4, <3>2, NamesExtended
    <3> QED
      BY <2>1, <3>1, <3>3
  <2>6. Append(Names(table), Head(path)) = header
    <3>1. Append(Names(table), Head(path)) \o Tail(path) = Names(table) \o path
      <4>1. Names(table) \in Address
        BY <2>2 DEF Address
      <4> QED
        BY <2>2, <4>1, Onward
    <3>2. Append(Names(table), Head(path)) \in Seq(Keys)
      BY <2>2, <2>3
    <3>3. Append(Names(table), Head(path)) \o <<>> = Append(Names(table), Head(path))
      BY <3>2, ConcatEmptySeq
    <3> QED
      BY <2>1, <2>3, <3>1, <3>3 DEF Headed
  <2> QED
    BY <2>1, <2>5, <2>6 DEF Headed
<1>12. CASE WalkDotted
  <2>1. doing = "insert" /\ doing' = doing /\ UNCHANGED <<current, header>>
    BY <1>12 DEF WalkDotted
  <2> QED
    BY <2>1 DEF Headed
<1>13. CASE Insert
  <2>1. doing = "insert" /\ doing' = "idle" /\ UNCHANGED <<current, header>>
    BY <1>13 DEF Insert, Return
  <2> QED
    BY <2>1 DEF Headed
<1>14. CASE CannotOpen \/ CannotAppend \/ CannotInsert
  BY <1>3, <1>14 DEF CannotOpen, CannotAppend, CannotInsert, Walking
<1>15. CASE Malformed \/ Finish
  BY <1>2, <1>15 DEF Malformed, Finish
<1> QED
  BY <1>1, <1>4, <1>5, <1>7, <1>8, <1>9, <1>10, <1>11, <1>12, <1>13, <1>14, <1>15 DEF Next

\* Assignments go to the table that the last header names, in the last elements of the
\* arrays of tables on its way, and the pointer to it is never left over from before an
\* array has moved its elements.
THEOREM UnderHeader == Spec => []LinesGoUnderHeader
<1>1. Init => Headed
  BY NoNames DEF Init, Headed
<1>2. Inv /\ Headed /\ [Next]_vars => Headed'
  BY HeadedStep
<1>3. Inv /\ Headed => LinesGoUnderHeader
  <2> SUFFICES ASSUME Inv, Headed, doing \in {"idle", "insert"}
               PROVE  /\ IsOpenTable(current) /\ Names(current) = header
                      /\ Latest(tree, current) /\ Latest(tree, table)
    BY DEF LinesGoUnderHeader
  <2>1. \A x \in {current, table} :
          /\ x \in DOMAIN tree /\ tree[x].kind = "table" /\ x \in Address /\ OpenWay(tree, x)
    BY Pointed DEF Inv
  <2>2. ASSUME NEW x \in {current, table}
        PROVE  Latest(tree, x) /\ ~ tree[x].inline
    <3>1. Len(x) \in Nat /\ SubSeq(x, 1, Len(x)) = x
      BY <2>1, AddressLength, WholePrefix
    <3>2. ASSUME NEW i \in 1 .. Len(x), x[i] \in Nat
          PROVE  x[i] = tree[SubSeq(x, 1, i - 1)].size
      <4>1. i - 1 \in 0 .. Len(x) /\ i - 1 < Len(x) /\ i - 1 + 1 = i
        BY <3>1
      <4>2. x[i - 1 + 1] \in Nat => x[i - 1 + 1] = tree[SubSeq(x, 1, i - 1)].size
        BY <2>1, <4>1 DEF OpenWay
      <4> QED
        BY <3>2, <4>1, <4>2
    <3>3. OpenNode(tree[x])
      <4>1. Len(x) \in 0 .. Len(x)
        BY <3>1
      <4>2. OpenNode(tree[SubSeq(x, 1, Len(x))])
        BY <2>1, <4>1 DEF OpenWay
      <4> QED
        BY <3>1, <4>2
    <3> QED
      BY <3>2, <3>3 DEF Latest, OpenNode
  <2> QED
    BY <2>1, <2>2 DEF Headed, IsOpenTable, Exists
<1> QED
  BY <1>1, <1>2, <1>3, Invariance, PTL DEF Spec
-----------------------------------------------------------------------------
(* The calls that walk key paths component by component do what the        *)
(* statements of TomlStatements say at once.                               *)

\* An open table has no more than its definition to tell it from others, and all that
\* leads to it is open.
OpenTables(t) ==
  \A x \in DOMAIN t :
    IsOpen(t, x) =>
      /\ t[x] = Table(t[x].definition)
      /\ \A i \in 0 .. Len(x) : OpenNode(t[SubSeq(x, 1, i)])

\* The elements of an array of tables are never tables that a header implied.
Elements(t) ==
  \A x \in DOMAIN t :
    t[x].arrayTable => \A i \in 1 .. t[x].size : t[Append(x, i)].definition = "array_element"

Shape(t) == GoodTree(t) /\ OpenTables(t) /\ Elements(t)

-----------------------------------------------------------------------------
(* There is one way along a path.                                          *)

LEMMA LatestIsOpen ==
  ASSUME NEW t, Shape(t), NEW x, IsOpen(t, x), Latest(t, x)
  PROVE  OpenWay(t, x)
<1>1. x \in Address /\ Len(x) \in Nat
  BY TreeFields, AddressLength DEF Shape, GoodTree, IsOpen
<1>2. \A i \in 0 .. Len(x) : OpenNode(t[SubSeq(x, 1, i)])
  BY DEF Shape, OpenTables, IsOpen
<1>3. ASSUME NEW i \in 0 .. Len(x), i < Len(x), x[i + 1] \in Nat
      PROVE  x[i + 1] = t[SubSeq(x, 1, i)].size
  <2>1. i + 1 \in 1 .. Len(x) /\ i + 1 - 1 = i
    BY <1>1, <1>3
  <2>2. x[i + 1] = t[SubSeq(x, 1, i + 1 - 1)].size
    BY <1>3, <2>1 DEF Latest
  <2> QED
    BY <2>1, <2>2
<1> QED
  BY <1>2, <1>3 DEF OpenWay

LEMMA OpenIsLatest ==
  ASSUME NEW t, NEW x \in Address, OpenWay(t, x)
  PROVE  Latest(t, x)
<1>1. Len(x) \in Nat
  BY AddressLength
<1> SUFFICES ASSUME NEW i \in 1 .. Len(x), x[i] \in Nat
             PROVE  x[i] = t[SubSeq(x, 1, i - 1)].size
  BY DEF Latest
<1>2. i - 1 \in 0 .. Len(x) /\ i - 1 < Len(x) /\ i - 1 + 1 = i
  BY <1>1
<1>3. i - 1 < Len(x) /\ x[i - 1 + 1] \in Nat => x[i - 1 + 1] = t[SubSeq(x, 1, i - 1)].size
  BY <1>2 DEF OpenWay
<1> QED
  BY <1>2, <1>3

\* The way along p ends at x: with the path, or before a node that is not open.
WayEnds(t, x, p) ==
  /\ OnTheWay(t, x, p)
  /\ LET n == Len(Names(x))
     IN n < Len(p) =>
          ~ (Append(x, p[n + 1]) \in DOMAIN t /\ OpenNode(t[Append(x, p[n + 1])]))

LEMMA EndsOnce ==
  ASSUME NEW t, Shape(t), NEW p \in Seq(Keys), NEW x, NEW y, WayEnds(t, x, p), OnTheWay(t, y, p)
  PROVE  /\ Len(Names(y)) <= Len(Names(x))
         /\ Len(Names(x)) <= Len(Names(y)) => y = x
<1> DEFINE z == Append(x, p[Len(Names(x)) + 1])
<1>1. Trodden(t) /\ OnTheWay(t, x, p)
  BY TreeTrodden DEF WayEnds, Shape, GoodTree
<1>2. /\ y \in DOMAIN t /\ x \in Address /\ y \in Address /\ Len(x) \in Nat /\ Len(y) \in Nat
  BY <1>1, AddressLength DEF OnTheWay, IsOpen, Trodden
<1>3. ASSUME Len(Names(x)) < Len(p), Len(x) < Len(y)
      PROVE  z # SubSeq(y, 1, Len(x) + 1)
  <2>1. Len(x) + 1 \in 0 .. Len(y)
    BY <1>2, <1>3
  <2>2. SubSeq(y, 1, Len(x) + 1) \in DOMAIN t
    BY <1>1, <1>2, <2>1, PrefixTrodden
  <2>3. OpenNode(t[SubSeq(y, 1, Len(x) + 1)])
    BY <1>2, <2>1 DEF Shape, OpenTables, OnTheWay
  <2> QED
    BY <1>3, <2>2, <2>3 DEF WayEnds
<1> QED
  BY <1>1, <1>3, OneEnd

-----------------------------------------------------------------------------
(* The operators of TomlStatements.                                        *)

LEMMA SameNodes ==
  /\ \A x : Statements!Names(x) = Names(x)
  /\ \A t, x : Statements!Latest(t, x) <=> Latest(t, x)
  /\ \A d : Statements!Table(d) = Table(d)
  /\ \A x : Statements!Open(x) <=> Told[x].kind = "table" /\ ~ Told[x].inline
<1>1. \A x : Statements!Names(x) = Names(x)
  BY Zenon DEF Statements!Names, Names, Statements!KeysTo, KeysTo,
               Statements!Cardinality, Cardinality
<1>2. \A t, x : Statements!Latest(t, x) <=> Latest(t, x)
  BY DEF Statements!Latest, Latest
<1>3. \A d : Statements!Table(d) = Table(d)
  BY DEF Statements!Table, Table
<1> QED
  BY <1>1, <1>2, <1>3 DEF Statements!Open

LEMMA PrefixIsStart ==
  ASSUME NEW s \in Seq(Keys), NEW p \in Seq(Keys)
  PROVE  Statements!IsPrefix(s, p) <=> Begins(s, p)
  BY SamePrefix DEF Statements!IsPrefix

LEMMA FurthestIsEnd ==
  ASSUME Shape(Told), NEW p \in Seq(Keys), NEW x, WayEnds(Told, x, p)
  PROVE  Statements!Furthest(p) = x
<1> DEFINE way == {y \in DOMAIN Told : /\ Statements!Open(y) /\ Statements!Latest(Told, y)
                                       /\ Statements!IsPrefix(Statements!Names(y), p)}
           Longer(y, z) == Len(Statements!Names(y)) <= Len(Statements!Names(z))
<1>1. \A y \in DOMAIN Told : Names(y) \in Seq(Keys)
  BY TreeFields, NamesType DEF Shape, GoodTree
<1>2. ASSUME NEW y PROVE y \in way <=> OnTheWay(Told, y, p)
  <2>1. CASE y \in DOMAIN Told
    BY <1>1, <2>1, SameNodes, PrefixIsStart DEF OnTheWay, IsOpen
  <2>2. CASE y \notin DOMAIN Told
    BY <2>2 DEF OnTheWay, IsOpen
  <2> QED
    BY <2>1, <2>2
<1>3. \A y, z : Longer(y, z) <=> Len(Names(y)) <= Len(Names(z))
  BY SameNodes
<1>4. Statements!Furthest(p) = CHOOSE z \in way : \A y \in way : Longer(y, z)
  BY DEF Statements!Furthest
<1> HIDE DEF way, Longer
<1>5. x \in way
  BY <1>2 DEF WayEnds
<1>6. \A y \in way : Longer(y, x) /\ (Longer(x, y) => y = x)
  BY <1>2, <1>3, EndsOnce
<1>7. \A z \in way : (\A y \in way : Longer(y, z)) <=> z = x
  BY <1>5, <1>6
<1> QED
  BY <1>4, <1>5, <1>7

-----------------------------------------------------------------------------
(* The shape of the tree stays.                                            *)

\* What is open in t is open in u, and still no more than a table.
LEMMA OpenTablesStay ==
  ASSUME NEW t, NEW u, Shape(t), DOMAIN t \subseteq DOMAIN u,
         \A y \in DOMAIN t : OpenNode(t[y]) => OpenNode(u[y]),
         \A y \in DOMAIN t : u[y].kind = t[y].kind /\ u[y].inline = t[y].inline,
         \A y \in DOMAIN t : IsOpen(t, y) => u[y] = Table(u[y].definition),
         \A y \in DOMAIN u \ DOMAIN t :
           IsOpen(u, y) => /\ u[y] = Table(u[y].definition)
                              /\ \A i \in 0 .. Len(y) : OpenNode(u[SubSeq(y, 1, i)])
  PROVE  OpenTables(u)
<1> SUFFICES ASSUME NEW y \in DOMAIN t, IsOpen(u, y)
             PROVE  /\ u[y] = Table(u[y].definition)
                    /\ \A i \in 0 .. Len(y) : OpenNode(u[SubSeq(y, 1, i)])
  BY DEF OpenTables
<1>1. IsOpen(t, y)
  BY DEF IsOpen
<1>2. ASSUME NEW i \in 0 .. Len(y) PROVE OpenNode(u[SubSeq(y, 1, i)])
  <2>1. SubSeq(y, 1, i) \in DOMAIN t
    BY PrefixInTree DEF Shape, GoodTree
  <2>2. OpenNode(t[SubSeq(y, 1, i)])
    BY <1>1 DEF Shape, OpenTables
  <2> QED
    BY <2>1, <2>2
<1> QED
  BY <1>1, <1>2

LEMMA ElementsStay ==
  ASSUME NEW t, NEW u, Shape(t), DOMAIN t \subseteq DOMAIN u,
         \A y \in DOMAIN u : u[y].arrayTable =>
           y \in DOMAIN t /\ t[y].arrayTable /\ t[y].size = u[y].size,
         \A y \in DOMAIN t : t[y].definition = "array_element" => u[y] = t[y]
  PROVE  Elements(u)
<1> SUFFICES ASSUME NEW y \in DOMAIN u, u[y].arrayTable, NEW i \in 1 .. u[y].size
             PROVE  u[Append(y, i)].definition = "array_element"
  BY DEF Elements
<1>1. y \in DOMAIN t /\ t[y].arrayTable /\ i \in 1 .. t[y].size
  OBVIOUS
<1>2. t[y].kind = "array" /\ t[Append(y, i)].definition = "array_element"
  BY <1>1, ArrayTableFields DEF Shape, Elements
<1>3. Append(y, i) \in DOMAIN t
  BY <1>1, <1>2, ElementInTree DEF Shape, GoodTree
<1> QED
  BY <1>2, <1>3

\* A new table under one to which an open way leads.
LEMMA ShapeCreated ==
  ASSUME NEW t, Shape(t), NEW x, IsOpen(t, x), OpenWay(t, x), NEW k \in Keys,
         Append(x, k) \notin DOMAIN t, NEW d \in Definitions
  PROVE  Shape(Put(t, Append(x, k), Table(d)))
<1> DEFINE p == Append(x, k)
           u == Put(t, p, Table(d))
<1>1. GoodTree(t) /\ x \in DOMAIN t /\ t[x].kind = "table" /\ x \in Address
  BY TreeFields DEF Shape, GoodTree, IsOpen
<1>2. /\ GoodTree(u) /\ Alike(t, u) /\ DOMAIN u = DOMAIN t \cup {p} /\ u[p] = Table(d)
      /\ \A y \in DOMAIN t : u[y] = t[y]
  <2> DEFINE v == Put(t, Append(x, k), Table(d))
  <2>1. /\ GoodTree(v) /\ Alike(t, v)
        /\ DOMAIN v = DOMAIN t \cup {Append(x, k)}
        /\ v[Append(x, k)] = Table(d) /\ \A y \in DOMAIN t : v[y] = t[y]
    BY <1>1, TableCreated
  <2>2. u = v
    OBVIOUS
  <2> HIDE DEF v, u
  <2> QED
    BY <2>1, <2>2
<1> HIDE DEF u
<1>3. u[p].kind = "table" /\ ~ u[p].inline /\ ~ u[p].arrayTable /\ u[p].definition = d
  BY <1>2, NewTable
<1>4. OpenWay(u, p)
  <2>1. OpenWay(u, x)
    BY <1>1, <1>2, OpenWayStays DEF GoodTree
  <2>2. k \notin Nat /\ OpenNode(u[p])
    BY <1>3, DocumentAssumption DEF OpenNode
  <2> QED
    BY <1>1, <2>1, <2>2, OpenWayOn
<1> HIDE DEF p
<1>5. OpenTables(u)
  <2>1. \A y \in DOMAIN u \ DOMAIN t :
          /\ u[y] = Table(u[y].definition) /\ \A i \in 0 .. Len(y) : OpenNode(u[SubSeq(y, 1, i)])
    BY <1>2, <1>3, <1>4 DEF OpenWay
  <2>2. DOMAIN t \subseteq DOMAIN u
    BY <1>2
  <2>3. \A y \in DOMAIN t : IsOpen(t, y) => u[y] = Table(u[y].definition)
    BY <1>2 DEF Shape, OpenTables
  <2> QED
    BY <1>2, <2>1, <2>2, <2>3, OpenTablesStay
<1>6. Elements(u)
  <2>1. \A y \in DOMAIN u : u[y].arrayTable =>
          y \in DOMAIN t /\ t[y].arrayTable /\ t[y].size = u[y].size
    BY <1>2, <1>3
  <2> QED
    BY <1>2, <2>1, ElementsStay
<1>7. Shape(u)
  BY <1>2, <1>5, <1>6 DEF Shape
<1> QED
  BY <1>7 DEF u, p

\* A table that is defined after all.
LEMMA ShapeDefined ==
  ASSUME NEW t, Shape(t), NEW x, IsOpen(t, x), t[x].definition = "implicit"
  PROVE  LET u == [t EXCEPT ![x].definition = "explicit_table"]
         IN Shape(u) /\ u[x] = Table("explicit_table")
<1> DEFINE u == [t EXCEPT ![x].definition = "explicit_table"]
<1>1. GoodTree(t) /\ x \in DOMAIN t /\ t[x].kind = "table" /\ t[x] = Table("implicit")
      /\ t[x] \in Node
  BY TreeFields DEF Shape, GoodTree, IsOpen, OpenTables
<1>2. "explicit_table" \in Definitions
  BY DEF Definitions
<1>3. /\ GoodTree(u) /\ Alike(t, u) /\ DOMAIN u = DOMAIN t
      /\ u[x] = [t[x] EXCEPT !.definition = "explicit_table"]
      /\ \A y \in DOMAIN t \ {x} : u[y] = t[y]
  BY <1>1, <1>2, TableDefined
<1> HIDE DEF u
<1>4. u[x] = Table("explicit_table")
  <2>1. \A n \in Node : [n EXCEPT !.definition = "explicit_table"] =
          [kind |-> n.kind, inline |-> n.inline, arrayTable |-> n.arrayTable,
           definition |-> "explicit_table", size |-> n.size]
    BY DEF Node
  <2>2. /\ t[x].kind = "table" /\ t[x].inline = FALSE /\ t[x].arrayTable = FALSE
        /\ t[x].size = 0
    BY <1>1 DEF Table
  <2> QED
    BY <1>1, <1>3, <2>1, <2>2 DEF Table
<1>5. /\ u[x].kind = "table" /\ ~ u[x].inline /\ ~ u[x].arrayTable
      /\ u[x].definition = "explicit_table" /\ u[x].size = 0
  BY <1>2, <1>4, NewTable
<1>6. ~ t[x].inline /\ ~ t[x].arrayTable /\ t[x].definition = "implicit"
  BY <1>1, NewTable DEF Definitions
<1>7. OpenTables(u)
  <2>1. /\ \A y \in DOMAIN t : OpenNode(t[y]) => OpenNode(u[y])
        /\ \A y \in DOMAIN t : u[y].kind = t[y].kind /\ u[y].inline = t[y].inline
    <3>1. ASSUME NEW y \in DOMAIN t
          PROVE  /\ OpenNode(t[y]) => OpenNode(u[y])
                 /\ u[y].kind = t[y].kind /\ u[y].inline = t[y].inline
      <4>1. CASE y = x
        BY <1>1, <1>5, <1>6, <4>1, AlikeNodes, <1>3, TreeFields DEF OpenNode, GoodTree
      <4>2. CASE y # x
        BY <1>3, <4>2
      <4> QED
        BY <4>1, <4>2
    <3> QED
      BY <3>1
  <2>2. \A y \in DOMAIN t : IsOpen(t, y) => u[y] = Table(u[y].definition)
    BY <1>3, <1>4, <1>5 DEF Shape, OpenTables
  <2>3. DOMAIN t \subseteq DOMAIN u /\ DOMAIN u \ DOMAIN t = {}
    BY <1>3
  <2> QED
    BY <2>1, <2>2, <2>3, OpenTablesStay
<1>8. Elements(u)
  <2>1. \A y \in DOMAIN u : u[y].arrayTable =>
          y \in DOMAIN t /\ t[y].arrayTable /\ t[y].size = u[y].size
    BY <1>3, <1>5
  <2>2. \A y \in DOMAIN t : t[y].definition = "array_element" => u[y] = t[y]
    BY <1>3, <1>6
  <2> QED
    BY <1>3, <2>1, <2>2, ElementsStay
<1>9. Shape(u)
  BY <1>3, <1>7, <1>8 DEF Shape
<1> QED
  BY <1>4, <1>9 DEF u

\* A new element of the array of tables p.
LEMMA ShapeAppended ==
  ASSUME NEW t, Shape(t), NEW p \in Address, NEW size, NEW u, HasElement(t, p, size, u),
         OpenWay(u, Append(p, size)), p \in DOMAIN t => t[p].arrayTable /\ size = t[p].size + 1,
         p \notin DOMAIN t => size = 1
  PROVE  Shape(u)
<1> DEFINE element == Append(p, size)
<1>1. /\ GoodTree(u) /\ size \in Nat \ {0}
      /\ DOMAIN u = DOMAIN t \cup {p, element} /\ element \notin DOMAIN t
      /\ u[p] = ArrayTable(size) /\ u[element] = Table("array_element")
      /\ \A y \in DOMAIN t \ {p} : u[y] = t[y]
  BY DEF HasElement
<1>2. OpenWay(u, element)
  OBVIOUS
<1> HIDE DEF element
<1>3. /\ u[p].kind = "array" /\ u[p].arrayTable /\ u[p].size = size /\ ~ u[p].inline
      /\ u[element].kind = "table" /\ ~ u[element].inline /\ ~ u[element].arrayTable
      /\ u[element].definition = "array_element"
  <2>1. "array_element" \in Definitions
    BY DEF Definitions
  <2> QED
    BY <1>1, <2>1, NewArray, NewTable
<1>4. p \in DOMAIN t =>
        /\ t[p].kind = "array" /\ t[p].arrayTable /\ ~ t[p].inline
        /\ t[p].size \in Nat /\ size = t[p].size + 1
  BY ArrayTableFields DEF Shape
<1>5. OpenTables(u)
  <2>1. DOMAIN t \subseteq DOMAIN u
    BY <1>1
  <2>2. ASSUME NEW y \in DOMAIN t
        PROVE  /\ OpenNode(t[y]) => OpenNode(u[y])
               /\ u[y].kind = t[y].kind /\ u[y].inline = t[y].inline
               /\ IsOpen(t, y) => u[y] = Table(u[y].definition)
    <3>1. CASE y = p
      <4>1. t[p].inline \in BOOLEAN /\ u[p].inline \in BOOLEAN
        BY <1>1, <3>1, TreeFields, NodeFields DEF Shape, GoodTree
      <4> QED
        BY <1>3, <1>4, <3>1, <4>1 DEF OpenNode, IsOpen
    <3>2. CASE y # p
      BY <1>1, <3>2 DEF Shape, OpenTables
    <3> QED
      BY <3>1, <3>2
  <2>3. ASSUME NEW y \in DOMAIN u \ DOMAIN t, IsOpen(u, y)
        PROVE  /\ u[y] = Table(u[y].definition)
               /\ \A i \in 0 .. Len(y) : OpenNode(u[SubSeq(y, 1, i)])
    <3>1. y = element
      BY <1>1, <1>3, <2>3 DEF IsOpen
    <3>2. \A i \in 0 .. Len(y) : OpenNode(u[SubSeq(y, 1, i)])
      BY <1>2, <3>1 DEF OpenWay
    <3> QED
      BY <1>1, <1>3, <3>1, <3>2
  <2> QED
    BY <2>1, <2>2, <2>3, OpenTablesStay
<1>6. ASSUME NEW y \in DOMAIN t, t[y].arrayTable, NEW i \in 1 .. t[y].size
      PROVE  u[Append(y, i)].definition = "array_element"
  <2>1. t[y].kind = "array" /\ t[Append(y, i)].definition = "array_element"
        /\ t[Append(y, i)].kind = "table"
    BY <1>6, ArrayTableFields DEF Shape, Elements, GoodTree, ArraysOfTables
  <2>2. Append(y, i) \in DOMAIN t
    BY <1>6, <2>1, ElementInTree DEF Shape, GoodTree
  <2>3. Append(y, i) # p
    BY <1>4, <2>1, <2>2
  <2> QED
    BY <1>1, <2>1, <2>2, <2>3
<1>7. ASSUME NEW y \in DOMAIN u, u[y].arrayTable, NEW i \in 1 .. u[y].size
      PROVE  u[Append(y, i)].definition = "array_element"
  <2>1. CASE y = p
    <3>1. i = size \/ (p \in DOMAIN t /\ i \in 1 .. t[p].size)
      BY <1>1, <1>3, <1>4, <1>7, <2>1
    <3>2. CASE i = size
      BY <1>3, <2>1, <3>2 DEF element
    <3>3. CASE p \in DOMAIN t /\ i \in 1 .. t[p].size
      BY <1>4, <1>6, <2>1, <3>3
    <3> QED
      BY <3>1, <3>2, <3>3
  <2>2. CASE y # p
    <3>1. y \in DOMAIN t /\ u[y] = t[y]
      BY <1>1, <1>3, <1>7, <2>2
    <3> QED
      BY <1>6, <1>7, <3>1
  <2> QED
    BY <2>1, <2>2
<1>8. Elements(u)
  BY <1>7 DEF Elements
<1> QED
  BY <1>1, <1>5, <1>8 DEF Shape

\* What is inserted holds no open table.
LEMMA ShapeInserted ==
  ASSUME NEW t, Shape(t), NEW x \in DOMAIN t, t[x].kind = "table", NEW k \in Keys,
         Append(x, k) \notin DOMAIN t, NEW c, IsTree(c),
         \A y \in DOMAIN c : ~ c[y].arrayTable /\ (c[y].kind = "table" => c[y].inline)
  PROVE  Shape(Graft(t, Append(x, k), c))
<1> DEFINE p == Append(x, k)
           u == Graft(t, p, c)
<1>1. GoodTree(t) /\ IsTreeBut(t, p) /\ p \notin DOMAIN t /\ p \in Address
  BY TreeNodes, TreeFields, Extended DEF Shape, GoodTree
<1>2. GoodTree(u)
  <2> DEFINE v == Graft(t, Append(x, k), c)
  <2>1. GoodTree(v)
    BY <1>1, ValueInserted
  <2> QED
    BY <2>1
<1>3. \A y \in DOMAIN c : y \in Address
  BY DEF IsTree
<1> HIDE DEF p
<1>4. IsGraft(u, t, p, c)
  BY <1>1, <1>3, Grafted
<1> HIDE DEF u
<1>5. DOMAIN t \subseteq DOMAIN u /\ \A y \in DOMAIN t : u[y] = t[y]
  BY <1>4 DEF IsGraft
<1>6. ASSUME NEW z \in DOMAIN u \ DOMAIN t PROVE ~ u[z].arrayTable /\ ~ IsOpen(u, z)
  <2>1. PICK y \in DOMAIN c : z = p \o y
    BY <1>4, <1>6 DEF IsGraft
  <2>2. u[z] = c[y]
    BY <1>4, <2>1 DEF IsGraft
  <2> QED
    BY <2>2 DEF IsOpen
<1>7. OpenTables(u)
  <2>1. \A y \in DOMAIN t : IsOpen(t, y) => u[y] = Table(u[y].definition)
    BY <1>5 DEF Shape, OpenTables
  <2> QED
    BY <1>5, <1>6, <2>1, OpenTablesStay
<1>8. Elements(u)
  <2>1. \A y \in DOMAIN u : u[y].arrayTable =>
          y \in DOMAIN t /\ t[y].arrayTable /\ t[y].size = u[y].size
    BY <1>5, <1>6
  <2> QED
    BY <1>5, <2>1, ElementsStay
<1>9. Shape(u)
  BY <1>2, <1>7, <1>8 DEF Shape
<1> QED
  BY <1>9 DEF u, p

-----------------------------------------------------------------------------
(* The invariant: how far the call has come along the way of its statement. *)

IsMap(t) == t = [x \in DOMAIN t |-> t[x]]

\* The tree with the tables from x along r that the path has implied.
Implied(x, r) == Statements!Merge(before, Statements!Tables(Statements!Along(x, r), "implicit"))

\* open_table() has come from the root to x, through tables that were there, and on
\* along r to tables that it has created.
OnWay(x, r) ==
  /\ IsOpen(before, x) /\ OpenWay(before, x)
  /\ r \in Seq(Keys) /\ table = x \o r /\ Names(x) \o (r \o path) = header
  /\ r # <<>> => Append(x, Head(r)) \notin DOMAIN before
  /\ IF doing = "open" /\ path = <<>>
     THEN /\ tree = Statements!Merge(Implied(x, r), Statements!Tables({table}, "explicit_table"))
          /\ r = <<>> => before[x].definition = "implicit"
     ELSE tree = Implied(x, r)

Opening ==
  doing \in {"open", "openArray"} =>
    /\ header \in Paths /\ path \in Seq(Keys) /\ (doing = "openArray" => path # <<>>)
    /\ \E x \in Address, r \in Seq(Keys) : OnWay(x, r)

\* insertValueAt() has come from the current table along w.
AlongKey(w) ==
  /\ w \o path \in Paths /\ table = current \o w
  /\ tree = Statements!Merge(Statements!Tables(Statements!Along(current, w), "dotted_key"), before)
  /\ \A y \in Statements!Along(current, w) \cap DOMAIN before : IsOpen(before, y)

Assigning ==
  doing = "insert" =>
    /\ path # <<>> /\ value \in {v.content : v \in Values}
    /\ \E w \in Seq(Keys) : AlongKey(w)

Shapes == /\ Shape(tree) /\ Shape(Told)
          /\ IsMap(tree) /\ IsMap(Told)

LEMMA AlongNone ==
  ASSUME NEW x
  PROVE  Statements!Along(x, <<>>) = {}
<1>1. 1 .. Len(<<>>) = {}
  OBVIOUS
<1> QED
  BY <1>1 DEF Statements!Along

LEMMA AlongNext ==
  ASSUME NEW x \in Address, NEW r \in Seq(Keys), NEW k \in Keys
  PROVE  /\ Statements!Along(x, Append(r, k)) =
              Statements!Along(x, r) \cup {Append(x \o r, k)}
         /\ Append(x \o r, k) = x \o Append(r, k)
         /\ Append(r, k) \in Seq(Keys) /\ Append(r, k) # <<>>
<1> DEFINE s == Append(r, k)
           n == Len(r)
<1>1. r \in Address /\ n \in Nat /\ k \in Keys \cup Nat
  BY DEF Address
<1>2. s \in Seq(Keys) /\ Len(s) = n + 1 /\ s \in Address
  BY AppendProperties DEF Address
<1>3. \A i \in 0 .. n : SubSeq(s, 1, i) = SubSeq(r, 1, i)
  BY <1>1, PrefixOfExtended
<1>4. SubSeq(s, 1, n + 1) = s
  BY <1>2, WholePrefix
<1>5. Append(x \o r, k) = x \o s
  BY <1>1, ExtendedJoined
<1>6. s # <<>>
  <2>1. Len(<<>>) = 0
    OBVIOUS
  <2> QED
    BY <1>1, <1>2, <2>1
<1> HIDE DEF s
<1>7. 1 .. n + 1 = 1 .. n \cup {n + 1} /\ 1 .. n \subseteq 0 .. n
  BY <1>1
<1>8. Statements!Along(x, s) = {x \o SubSeq(s, 1, i) : i \in 1 .. n} \cup {x \o SubSeq(s, 1, n + 1)}
  BY <1>2, <1>7 DEF Statements!Along
<1>9. Statements!Along(x, r) = {x \o SubSeq(r, 1, i) : i \in 1 .. n}
  BY DEF Statements!Along
<1>10. Statements!Along(x, s) = Statements!Along(x, r) \cup {x \o s}
  BY <1>3, <1>4, <1>7, <1>8, <1>9
<1> QED
  BY <1>2, <1>5, <1>6, <1>10 DEF s

\* What is along r is no longer than x and r.
LEMMA AlongShort ==
  ASSUME NEW x \in Address, NEW r \in Seq(Keys), NEW k \in Keys
  PROVE  Append(x \o r, k) \notin Statements!Along(x, r)
<1>1. r \in Address /\ Len(r) \in Nat /\ Len(x) \in Nat /\ k \in Keys \cup Nat
  BY AddressLength DEF Address
<1>2. x \o r \in Address /\ Len(x \o r) = Len(x) + Len(r)
  BY <1>1, Joined
<1>3. Len(Append(x \o r, k)) = Len(x) + Len(r) + 1
  BY <1>1, <1>2, Extended
<1>4. ASSUME NEW i \in 1 .. Len(r) PROVE x \o SubSeq(r, 1, i) # Append(x \o r, k)
  <2>1. i \in 0 .. Len(r)
    BY <1>1
  <2>2. SubSeq(r, 1, i) \in Address /\ Len(SubSeq(r, 1, i)) = i
    BY <1>1, <2>1, Prefix
  <2>3. Len(x \o SubSeq(r, 1, i)) = Len(x) + i
    BY <2>2, Joined
  <2> QED
    BY <1>1, <1>3, <2>1, <2>3
<1> QED
  BY <1>4 DEF Statements!Along

\* Where the path has left the tree there is nothing.
LEMMA NothingOnward ==
  ASSUME NEW t, IsTree(t), NEW x \in Address, NEW r \in Seq(Keys), r # <<>>,
         Append(x, Head(r)) \notin DOMAIN t, NEW k \in Keys
  PROVE  Append(x \o r, k) \notin DOMAIN t
<1>1. Head(r) \in Keys /\ Tail(r) \in Seq(Keys) /\ r \in Address /\ k \in Keys \cup Nat
  BY HeadTailProperties DEF Address
<1>2. Tail(r) \in Address /\ Append(x, Head(r)) \in Address
  BY <1>1, Extended DEF Address
<1>3. Append(x, Head(r)) \o Tail(r) = x \o r
  BY Onward
<1>4. Append(x \o r, k) = Append(x, Head(r)) \o Append(Tail(r), k)
  <2> DEFINE a == Append(x, Head(r))
             b == Tail(r)
  <2>1. a \in Address /\ b \in Address /\ a \o b = x \o r
    BY <1>2, <1>3
  <2> HIDE DEF a, b
  <2>2. Append(a \o b, k) = a \o Append(b, k)
    BY <1>1, <2>1, ExtendedJoined
  <2> QED
    BY <2>1, <2>2 DEF a, b
<1>5. Append(Tail(r), k) \in Address
  BY <1>1, <1>2, Extended
<1>6. IsTreeBut(t, <<>>)
  BY TreeNodes
<1> QED
  BY <1>2, <1>4, <1>5, <1>6, NothingBelow

LEMMA SameMaps ==
  ASSUME NEW f, NEW g, IsMap(f), IsMap(g), DOMAIN f = DOMAIN g, \A x \in DOMAIN f : f[x] = g[x]
  PROVE  f = g
BY DEF IsMap

LEMMA Merged ==
  ASSUME NEW t, NEW u
  PROVE  LET m == Statements!Merge(t, u)
         IN /\ IsMap(m) /\ DOMAIN m = DOMAIN t \cup DOMAIN u
            /\ \A x \in DOMAIN u : m[x] = u[x]
            /\ \A x \in DOMAIN t \ DOMAIN u : m[x] = t[x]
BY DEF Statements!Merge, IsMap

LEMMA OnlyTables ==
  ASSUME NEW A, NEW d
  PROVE  LET m == Statements!Tables(A, d)
         IN IsMap(m) /\ DOMAIN m = A /\ \A x \in A : m[x] = Table(d)
BY SameNodes DEF Statements!Tables, IsMap

LEMMA MergedIs ==
  ASSUME NEW v, NEW t, NEW o, IsMap(v), DOMAIN v = DOMAIN t \cup DOMAIN o,
         \A y \in DOMAIN o : v[y] = o[y], \A y \in DOMAIN t \ DOMAIN o : v[y] = t[y]
  PROVE  v = Statements!Merge(t, o)
<1> DEFINE w == Statements!Merge(t, o)
<1>1. /\ IsMap(w) /\ DOMAIN w = DOMAIN t \cup DOMAIN o
      /\ \A y \in DOMAIN o : w[y] = o[y]
      /\ \A y \in DOMAIN t \ DOMAIN o : w[y] = t[y]
  BY Merged
<1> HIDE DEF w
<1>2. DOMAIN v = DOMAIN w /\ \A y \in DOMAIN v : v[y] = w[y]
  BY <1>1
<1>3. v = w
  BY <1>1, <1>2, SameMaps
<1> QED
  BY <1>3 DEF w

\* One more table, of the same definition or of another, and before all the others.
LEMMA OneMore ==
  ASSUME NEW t, NEW A, NEW y, NEW d
  PROVE  Put(Statements!Merge(t, Statements!Tables(A, d)), y, Table(d)) =
           Statements!Merge(t, Statements!Tables(A \cup {y}, d))
<1> DEFINE a == Statements!Tables(A, d)
           b == Statements!Tables(A \cup {y}, d)
           ta == Statements!Merge(t, a)
           n == Table(d)
           u == Put(ta, y, n)
<1>1. /\ DOMAIN a = A /\ \A z \in A : a[z] = n
      /\ DOMAIN b = A \cup {y} /\ \A z \in A \cup {y} : b[z] = n
  BY OnlyTables
<1> HIDE DEF a, b, n
<1>2. /\ DOMAIN ta = DOMAIN t \cup DOMAIN a
      /\ \A z \in DOMAIN a : ta[z] = a[z]
      /\ \A z \in DOMAIN t \ DOMAIN a : ta[z] = t[z]
  BY Merged
<1> HIDE DEF ta
<1>3. /\ IsMap(u) /\ DOMAIN u = DOMAIN ta \cup {y} /\ u[y] = n
      /\ \A z \in DOMAIN ta \ {y} : u[z] = ta[z]
  BY DEF Put, IsMap
<1> HIDE DEF u
<1>4. DOMAIN u = DOMAIN t \cup DOMAIN b
  BY <1>1, <1>2, <1>3
<1>5. /\ \A z \in DOMAIN b : u[z] = b[z]
      /\ \A z \in DOMAIN t \ DOMAIN b : u[z] = t[z]
  BY <1>1, <1>2, <1>3
<1>6. u = Statements!Merge(t, b)
  BY <1>3, <1>4, <1>5, MergedIs
<1> QED
  BY <1>6 DEF u, ta, a, b, n

LEMMA OneMoreDefined ==
  ASSUME NEW t, NEW A, NEW y, NEW d, NEW e
  PROVE  Put(Statements!Merge(t, Statements!Tables(A, d)), y, Table(e)) =
           Statements!Merge(Statements!Merge(t, Statements!Tables(A \cup {y}, d)),
                            Statements!Tables({y}, e))
<1> DEFINE a == Statements!Tables(A, d)
           b == Statements!Tables(A \cup {y}, d)
           c == Statements!Tables({y}, e)
           ta == Statements!Merge(t, a)
           tb == Statements!Merge(t, b)
           n == Table(d)
           m == Table(e)
           u == Put(ta, y, m)
<1>1. /\ DOMAIN a = A /\ \A z \in A : a[z] = n
      /\ DOMAIN b = A \cup {y} /\ \A z \in A \cup {y} : b[z] = n
      /\ DOMAIN c = {y} /\ c[y] = m
  BY OnlyTables
<1> HIDE DEF a, b, c, n, m
<1>2. /\ DOMAIN ta = DOMAIN t \cup DOMAIN a
      /\ \A z \in DOMAIN a : ta[z] = a[z]
      /\ \A z \in DOMAIN t \ DOMAIN a : ta[z] = t[z]
  BY Merged
<1>3. /\ DOMAIN tb = DOMAIN t \cup DOMAIN b
      /\ \A z \in DOMAIN b : tb[z] = b[z]
      /\ \A z \in DOMAIN t \ DOMAIN b : tb[z] = t[z]
  BY Merged
<1> HIDE DEF ta, tb
<1>4. /\ IsMap(u) /\ DOMAIN u = DOMAIN ta \cup {y} /\ u[y] = m
      /\ \A z \in DOMAIN ta \ {y} : u[z] = ta[z]
  BY DEF Put, IsMap
<1> HIDE DEF u
<1>5. DOMAIN u = DOMAIN tb \cup DOMAIN c
  BY <1>1, <1>2, <1>3, <1>4
<1>6. ASSUME NEW z \in DOMAIN tb \ DOMAIN c PROVE u[z] = tb[z]
  <2>1. z # y /\ (z \in A \/ (z \notin A /\ z \in DOMAIN t))
    BY <1>1, <1>3, <1>6
  <2>2. ta[z] = tb[z] /\ z \in DOMAIN ta
    BY <1>1, <1>2, <1>3, <2>1
  <2> QED
    BY <1>4, <2>1, <2>2
<1>7. \A z \in DOMAIN c : u[z] = c[z]
  BY <1>1, <1>4
<1>8. u = Statements!Merge(tb, c)
  BY <1>4, <1>5, <1>6, <1>7, MergedIs
<1> QED
  BY <1>8 DEF u, ta, tb, a, b, c, m

LEMMA OneMoreUnder ==
  ASSUME NEW t, NEW A, NEW y, NEW d
  PROVE  (IF y \in DOMAIN t THEN Statements!Merge(Statements!Tables(A, d), t)
          ELSE Put(Statements!Merge(Statements!Tables(A, d), t), y, Table(d))) =
           Statements!Merge(Statements!Tables(A \cup {y}, d), t)
<1> DEFINE a == Statements!Tables(A, d)
           b == Statements!Tables(A \cup {y}, d)
           at == Statements!Merge(a, t)
           n == Table(d)
           u == Put(at, y, n)
           v == IF y \in DOMAIN t THEN at ELSE u
<1>1. /\ DOMAIN a = A /\ \A z \in A : a[z] = n
      /\ DOMAIN b = A \cup {y} /\ \A z \in A \cup {y} : b[z] = n
  BY OnlyTables
<1> HIDE DEF a, b, n
<1>2. /\ IsMap(at) /\ DOMAIN at = DOMAIN a \cup DOMAIN t
      /\ \A z \in DOMAIN t : at[z] = t[z]
      /\ \A z \in DOMAIN a \ DOMAIN t : at[z] = a[z]
  BY Merged
<1> HIDE DEF at
<1>3. /\ IsMap(u) /\ DOMAIN u = DOMAIN at \cup {y} /\ u[y] = n
      /\ \A z \in DOMAIN at \ {y} : u[z] = at[z]
  BY DEF Put, IsMap
<1> HIDE DEF u
<1>4. IsMap(v) /\ DOMAIN v = DOMAIN b \cup DOMAIN t
  BY <1>1, <1>2, <1>3
<1>5. /\ \A z \in DOMAIN t : v[z] = t[z]
      /\ \A z \in DOMAIN b \ DOMAIN t : v[z] = b[z]
  BY <1>1, <1>2, <1>3
<1> HIDE DEF v
<1>6. v = Statements!Merge(b, t)
  BY <1>4, <1>5, MergedIs
<1> QED
  BY <1>6 DEF v, u, at, a, b, n

LEMMA NoneMore ==
  ASSUME NEW t, NEW d, IsMap(t)
  PROVE  /\ Statements!Merge(t, Statements!Tables({}, d)) = t
         /\ Statements!Merge(Statements!Tables({}, d), t) = t
<1> DEFINE o == Statements!Tables({}, d)
<1>1. DOMAIN o = {}
  BY OnlyTables
<1> HIDE DEF o
<1>2. t = Statements!Merge(t, o)
  BY <1>1, MergedIs
<1>3. t = Statements!Merge(o, t)
  BY <1>1, MergedIs
<1> QED
  BY <1>2, <1>3 DEF o

\* All that is known of a state.
Known == Inv /\ Headed /\ Shapes /\ Opening /\ Assigning

\* What a call sees of the line, and what is seen of it.
LEMMA Seen ==
  /\ doing = "idle" => Told = tree /\ Outcome = <<"open", <<>>>>
  /\ doing \in {"open", "openArray", "insert"} => Told = before /\ Outcome = <<"open", <<>>>>
  /\ doing \in {"malformed", "finished"} => Told = tree /\ Outcome = <<doing, <<>>>>
  /\ doing \in {"cannotOpen", "cannotAppend"} => Told = before /\ Outcome = <<doing, header>>
  /\ doing = "cannotInsert" =>
       Told = before /\ Outcome = <<doing, SubSeq(table, Len(current) + 1, Len(table)) \o path>>
BY DEF Told, Outcome

LEMMA SeenThen ==
  /\ doing' = "idle" => Told' = tree' /\ Outcome' = <<"open", <<>>>>
  /\ doing' \in {"open", "openArray", "insert"} => Told' = before' /\ Outcome' = <<"open", <<>>>>
  /\ doing' \in {"malformed", "finished"} => Told' = tree' /\ Outcome' = <<doing', <<>>>>
  /\ doing' \in {"cannotOpen", "cannotAppend"} =>
       Told' = before' /\ Outcome' = <<doing', header'>>
  /\ doing' = "cannotInsert" =>
       /\ Told' = before'
       /\ Outcome' = <<doing', SubSeq(table', Len(current') + 1, Len(table')) \o path'>>
BY DEF Told, Outcome

\* The node that the next component names, seen from the table x at which the call has
\* left the tree, or has yet to.
LEMMA NextComponent ==
  ASSUME Known, doing \in {"open", "openArray"}, path # <<>>,
         NEW x \in Address, NEW r \in Seq(Keys), OnWay(x, r)
  PROVE  LET k == Head(path)
             s == Append(r, k)
         IN /\ k \in Keys /\ Tail(path) \in Seq(Keys) /\ s \in Seq(Keys) /\ s # <<>>
            /\ Target = Append(x \o r, k) /\ Target = x \o s /\ s \o Tail(path) = r \o path
            /\ Statements!Along(x, s) = Statements!Along(x, r) \cup {Target}
            /\ tree = Implied(x, r)
            /\ Target \in DOMAIN tree <=> Target \in DOMAIN before
            /\ Target \in DOMAIN before => tree[Target] = before[Target] /\ r = <<>>
            /\ Target \notin DOMAIN before => Append(x, Head(s)) \notin DOMAIN before
            /\ r = <<>> => tree = before /\ table = x /\ Target = Append(x, k)
                           /\ Names(x) \o path = header
<1> DEFINE k == Head(path)
           s == Append(r, k)
           along == Statements!Along(x, r)
           new == Statements!Tables(along, "implicit")
           all == Statements!Merge(before, new)
<1>1. /\ path \in Seq(Keys) /\ k \in Keys /\ Tail(path) \in Seq(Keys)
      /\ Target = Append(table, k)
  BY TargetFields DEF Known, Inv, CallTypes
<1>2. /\ table = x \o r /\ tree = all /\ IsTree(before) /\ IsMap(before)
      /\ Names(x) \o (r \o path) = header
      /\ r # <<>> => Append(x, Head(r)) \notin DOMAIN before
  BY Seen DEF OnWay, Implied, Known, Shapes, Shape, GoodTree
<1>3. DOMAIN new = along
  BY OnlyTables
<1> HIDE DEF new
<1>4. /\ DOMAIN all = DOMAIN before \cup DOMAIN new
      /\ \A y \in DOMAIN before \ DOMAIN new : all[y] = before[y]
  BY Merged
<1> HIDE DEF all
<1>5. /\ Statements!Along(x, s) = along \cup {Append(x \o r, k)}
      /\ Append(x \o r, k) = x \o s /\ s \in Seq(Keys) /\ s # <<>>
  BY <1>1, AlongNext
<1>6. Append(x \o r, k) \notin along
  BY <1>1, AlongShort
<1>7. s \o Tail(path) = r \o path
  <2>1. r \in Address
    BY DEF Address
  <2> QED
    BY <1>1, <2>1, Onward
<1>8. r # <<>> => Target \notin DOMAIN before /\ Head(s) = Head(r)
  <2> SUFFICES ASSUME r # <<>> PROVE Target \notin DOMAIN before /\ Head(s) = Head(r)
    OBVIOUS
  <2>1. Append(x \o r, k) \notin DOMAIN before
    BY <1>1, <1>2, NothingOnward
  <2>2. Head(s) = Head(r)
    <3>1. Len(r) \in Nat \ {0}
      BY AddressLength, <1>2 DEF Address
    <3>2. s[1] = r[1]
      BY <1>1, <3>1, AppendProperties
    <3> QED
      BY <1>5, <3>2
  <2> QED
    BY <1>1, <1>2, <2>1, <2>2
<1>9. r = <<>> =>
        x \o r = x /\ Head(s) = k /\ r \o path = path /\ along = {}
  <2> SUFFICES ASSUME r = <<>> PROVE x \o r = x /\ Head(s) = k /\ r \o path = path /\ along = {}
    OBVIOUS
  <2>1. x \o r = x
    BY JoinedRoot
  <2>2. Head(s) = k
    <3>1. s = <<k>>
      OBVIOUS
    <3> QED
      BY <3>1
  <2>3. r \o path = path
    BY <1>1, ConcatEmptySeq
  <2> QED
    BY <2>1, <2>2, <2>3, AlongNone
<1>10. r = <<>> => tree = before
  <2> SUFFICES ASSUME r = <<>> PROVE tree = before
    OBVIOUS
  <2>1. Statements!Merge(before, Statements!Tables({}, "implicit")) = before
    BY <1>2, NoneMore
  <2> QED
    BY <1>2, <1>9, <2>1 DEF all, new
<1>11. Target \in DOMAIN tree <=> Target \in DOMAIN before
  BY <1>1, <1>2, <1>3, <1>4, <1>6
<1>12. Target \in DOMAIN before => tree[Target] = before[Target] /\ r = <<>>
  BY <1>8, <1>10
<1>13. Target \notin DOMAIN before => Append(x, Head(s)) \notin DOMAIN before
  BY <1>1, <1>2, <1>8, <1>9
<1> HIDE DEF s, k
<1> QED
  BY <1>1, <1>2, <1>5, <1>7, <1>9, <1>10, <1>11, <1>12, <1>13 DEF s, k, all, new, along, Implied

LEMMA Quiet ==
  ASSUME Told' = Told, current' = current, Outcome' = Outcome
  PROVE  [Statements!Next]_(Statements!vars)
BY DEF Statements!vars

\* From an open table x the way goes along q no further than x.
LEMMA EndOfWay ==
  ASSUME Shape(Told), NEW x \in Address, IsOpen(Told, x), OpenWay(Told, x),
         NEW q \in Seq(Keys), NEW p, p = Names(x) \o q,
         q # <<>> => ~ (/\ Append(x, Head(q)) \in DOMAIN Told
                        /\ OpenNode(Told[Append(x, Head(q))]))
  PROVE  p \in Seq(Keys) /\ Statements!Furthest(p) = x /\ Statements!Left(x, p) = q
<1> DEFINE s == Names(x)
           n == Len(s)
<1>1. s \in Seq(Keys) /\ s \in Address /\ q \in Address /\ n \in Nat /\ Len(q) \in Nat
  BY NamesType DEF Address
<1> HIDE DEF s
<1>2. p = s \o q
  BY DEF s
<1>3. p \in Seq(Keys)
  BY <1>1, <1>2
<1>4. /\ Len(p) = n + Len(q)
      /\ \A i \in 1 .. n + Len(q) : p[i] = IF i <= n THEN s[i] ELSE q[i - n]
  BY <1>1, <1>2, Joined
<1>5. Begins(s, p)
  BY <1>1, <1>4 DEF Begins
<1>6. n < Len(p) => q # <<>> /\ p[n + 1] = Head(q)
  <2> SUFFICES ASSUME n < Len(p) PROVE q # <<>> /\ p[n + 1] = Head(q)
    OBVIOUS
  <2>1. n + 1 \in 1 .. n + Len(q) /\ n + 1 - n = 1 /\ ~ (n + 1 <= n)
    BY <1>1, <1>4
  <2>2. p[n + 1] = q[1] /\ Len(q) # 0
    BY <1>1, <1>4, <2>1
  <2> QED
    BY <1>1, <2>2, AddressLength
<1>7. OnTheWay(Told, x, p)
  BY <1>5, OpenIsLatest DEF OnTheWay, s
<1>8. WayEnds(Told, x, p)
  BY <1>6, <1>7 DEF WayEnds, s
<1>9. Statements!Furthest(p) = x
  BY <1>3, <1>8, FurthestIsEnd
<1>10. SubSeq(p, n + 1, Len(p)) = q
  BY <1>1, <1>2, RestOfJoined
<1>11. Statements!Left(x, p) = q
  BY <1>10, SameNodes DEF Statements!Left, s
<1> QED
  BY <1>3, <1>9, <1>11

\* A table that is there is the next on the way, and so is the last element of an array.
LEMMA WayEntered ==
  ASSUME Known, doing \in {"open", "openArray"}, path # <<>>,
         NEW x \in Address, NEW r \in Seq(Keys), OnWay(x, r), Target \in DOMAIN before
  PROVE  /\ OpenNode(before[Target]) => OpenWay(before, Target) /\ Target \in Address
         /\ OpenNode(before[Target]) /\ before[Target].kind = "table" => IsOpen(before, Target)
         /\ before[Target].arrayTable =>
              LET e == Append(Target, before[Target].size)
              IN /\ IsOpen(before, e) /\ OpenWay(before, e) /\ e \in Address
                 /\ before[e].definition = "array_element" /\ Names(e) = Names(Target)
         /\ Names(Target) = Append(Names(x), Head(path))
<1> DEFINE k == Head(path)
<1>1. k \in Keys /\ r = <<>> /\ Target = Append(x, k) /\ tree = before /\ Told = before
  BY NextComponent, Seen DEF Known
<1>2. /\ Shape(before) /\ GoodTree(before) /\ IsTree(before)
      /\ IsOpen(before, x) /\ OpenWay(before, x)
  BY <1>1 DEF Known, Shapes, Shape, GoodTree, OnWay
<1>3. Target \in Address /\ before[Target] \in Node /\ k \notin Nat
  BY <1>1, <1>2, TreeFields, DocumentAssumption
<1> HIDE DEF k
<1>4. OpenNode(before[Target]) => OpenWay(before, Target)
  BY <1>1, <1>2, <1>3, OpenWayOn
<1>5. Names(Target) = Append(Names(x), k)
  BY <1>1, NamesExtended
<1>6. ASSUME before[Target].arrayTable
      PROVE  LET e == Append(Target, before[Target].size)
             IN /\ IsOpen(before, e) /\ OpenWay(before, e) /\ e \in Address
                /\ before[e].definition = "array_element" /\ Names(e) = Names(Target)
  <2> DEFINE n == before[Target].size
             e == Append(Target, n)
  <2>1. n \in Nat \ {0} /\ before[Target].kind = "array" /\ ~ before[Target].inline
    BY <1>2, <1>6, ArrayTableFields
  <2>2. n \in 1 .. n /\ n \in Keys \cup Nat /\ n \notin Keys
    BY <2>1, DocumentAssumption
  <2>3. e \in DOMAIN before
    BY <1>2, <2>1, <2>2, ElementInTree
  <2>4. /\ before[e].kind = "table" /\ ~ before[e].inline
        /\ before[e].definition = "array_element"
    BY <1>2, <1>6, <2>2 DEF GoodTree, ArraysOfTables, Shape, Elements
  <2>5. e \in Address
    BY <1>3, <2>2, Extended
  <2>6. Names(e) = Names(Target)
    BY <1>3, <2>2, NamesExtended
  <2>7. OpenNode(before[Target]) /\ OpenNode(before[e])
    BY <1>6, <2>1, <2>4 DEF OpenNode
  <2>8. OpenWay(before, e)
    BY <1>3, <1>4, <2>2, <2>7, OpenWayOn
  <2> HIDE DEF n
  <2> QED
    BY <2>3, <2>4, <2>5, <2>6, <2>8 DEF IsOpen, n
<1>7. OpenNode(before[Target]) /\ before[Target].kind = "table" => IsOpen(before, Target)
  BY DEF OpenNode, IsOpen
<1> QED
  BY <1>3, <1>4, <1>5, <1>6, <1>7 DEF k

\* A table is open for headers and dotted keys when the way to it is.
LEMMA PointedOpen ==
  ASSUME Inv
  PROVE  \A x \in {<<>>, current, table} : IsOpen(tree, x) /\ OpenWay(tree, x) /\ x \in Address
<1> SUFFICES ASSUME NEW x \in {<<>>, current, table}
             PROVE  IsOpen(tree, x) /\ OpenWay(tree, x) /\ x \in Address
  OBVIOUS
<1>1. x \in DOMAIN tree /\ tree[x].kind = "table" /\ x \in Address /\ OpenWay(tree, x)
  BY Pointed DEF Inv
<1>2. SubSeq(x, 1, Len(x)) = x /\ Len(x) \in 0 .. Len(x)
  BY <1>1, WholePrefix, AddressLength
<1>3. OpenNode(tree[SubSeq(x, 1, Len(x))])
  BY <1>1, <1>2 DEF OpenWay
<1> QED
  BY <1>1, <1>2, <1>3 DEF IsOpen, OpenNode

-----------------------------------------------------------------------------
(* The calls keep to their way, and do what their statements say.          *)

Follows == Shapes' /\ Opening' /\ Assigning' /\ [Statements!Next]_(Statements!vars)

LEMMA EndFollows ==
  ASSUME Known, doing = "idle", NEW o \in {"malformed", "finished"}, Ends(o)
  PROVE  Follows
<1>1. doing' = o /\ tree' = tree /\ current' = current
  BY DEF Ends
<1>2. /\ Told = tree /\ Outcome = <<"open", <<>>>>
      /\ Told' = tree /\ Outcome' = <<o, <<>>>>
  BY <1>1, Seen, SeenThen
<1>3. <<o, <<>>>> \in {"malformed", "finished"} \X {<<>>}
  OBVIOUS
<1>4. Statements!End
  BY <1>1, <1>2, <1>3 DEF Statements!End
<1>5. Shapes'
  BY <1>1, <1>2 DEF Known, Shapes
<1>6. Opening' /\ Assigning'
  BY <1>1 DEF Opening, Assigning
<1> QED
  BY <1>4, <1>5, <1>6 DEF Follows, Statements!Next

LEMMA HeaderFollows ==
  ASSUME Known, NEW call \in {"open", "openArray"}, NEW p \in Paths, ParseHeader(call, p)
  PROVE  Follows
<1>1. CASE Ends("malformed")
  BY <1>1, EndFollows DEF ParseHeader, StartLine
<1>2. CASE ~ Ends("malformed")
  <2>1. /\ doing = "idle" /\ before' = tree /\ tree' = tree /\ current' = current
        /\ doing' = call /\ path' = p /\ table' = <<>> /\ header' = p
    BY <1>2 DEF ParseHeader, StartLine
  <2>2. p \in Seq(Keys) /\ p # <<>>
    BY DocumentAssumption
  <2>3. Told = tree /\ Told' = tree /\ Outcome = <<"open", <<>>>> /\ Outcome' = <<"open", <<>>>>
    BY <2>1, Seen, SeenThen
  <2>4. Shapes'
    BY <2>1, <2>3 DEF Known, Shapes
  <2>5. /\ <<>> \in Address /\ <<>> \in Seq(Keys) /\ <<>> \o <<>> = <<>>
        /\ Names(<<>>) \o (<<>> \o p) = p
    BY <2>2, NoNames, ConcatEmptySeq DEF Address
  <2>6. IsOpen(tree, <<>>) /\ OpenWay(tree, <<>>)
    BY PointedOpen DEF Known
  <2>7. tree = Statements!Merge(tree, Statements!Tables(Statements!Along(<<>>, <<>>), "implicit"))
    <3>1. IsMap(tree) /\ Statements!Along(<<>>, <<>>) = {}
      BY AlongNone DEF Known, Shapes
    <3>2. Statements!Merge(tree, Statements!Tables({}, "implicit")) = tree
      BY <3>1, NoneMore
    <3> QED
      BY <3>1, <3>2
  <2>8. OnWay(<<>>, <<>>)'
    BY <2>1, <2>2, <2>5, <2>6, <2>7 DEF OnWay, Implied
  <2>9. Opening'
    BY <2>1, <2>2, <2>5, <2>8 DEF Opening
  <2>10. Assigning'
    BY <2>1 DEF Assigning
  <2> QED
    BY <2>1, <2>3, <2>4, <2>9, <2>10, Quiet DEF Follows
<1> QED
  BY <1>1, <1>2

LEMMA AssignmentFollows ==
  ASSUME Known, NEW p \in Paths, NEW v \in Values, ParseAssignment(p, v)
  PROVE  Follows
<1>1. CASE Ends("malformed")
  BY <1>1, EndFollows DEF ParseAssignment, StartLine
<1>2. CASE ~ Ends("malformed")
  <2>1. /\ doing = "idle" /\ before' = tree /\ tree' = tree /\ current' = current
        /\ doing' = "insert" /\ path' = p /\ table' = current /\ value' = v.content
    BY <1>2 DEF ParseAssignment, StartLine
  <2>2. p \in Seq(Keys) /\ p # <<>>
    BY DocumentAssumption
  <2>3. Told = tree /\ Told' = tree /\ Outcome = <<"open", <<>>>> /\ Outcome' = <<"open", <<>>>>
    BY <2>1, Seen, SeenThen
  <2>4. Shapes'
    BY <2>1, <2>3 DEF Known, Shapes
  <2>5. <<>> \in Seq(Keys) /\ <<>> \o p = p /\ current \o <<>> = current
    BY <2>2, ConcatEmptySeq, PointedOpen, JoinedRoot DEF Known
  <2>6. /\ Statements!Along(current, <<>>) = {}
        /\ tree = Statements!Merge(Statements!Tables({}, "dotted_key"), tree)
    BY AlongNone, NoneMore DEF Known, Shapes
  <2>7. AlongKey(<<>>)'
    BY <2>1, <2>5, <2>6 DEF AlongKey
  <2>8. Assigning'
    BY <2>1, <2>2, <2>5, <2>7 DEF Assigning
  <2>9. Opening'
    BY <2>1 DEF Opening
  <2> QED
    BY <2>1, <2>3, <2>4, <2>8, <2>9, Quiet DEF Follows
<1> QED
  BY <1>1, <1>2

LEMMA WalkFollows ==
  ASSUME Known, Walking, NEW t, NEW y, Walk(t, y), Shape(t), IsMap(t),
         NEW x \in Address, NEW r \in Seq(Keys), OnWay(x, r)'
  PROVE  Follows
<1>1. /\ doing \in {"open", "openArray"} /\ doing' = doing /\ path # <<>>
      /\ path' = Tail(path) /\ tree' = t
      /\ current' = current /\ header' = header /\ before' = before
  BY WalkingPath DEF Walk, Walking
<1>2. /\ Told = before /\ Told' = before
      /\ Outcome = <<"open", <<>>>> /\ Outcome' = <<"open", <<>>>>
  BY <1>1, Seen, SeenThen
<1>3. Shapes'
  BY <1>1, <1>2 DEF Known, Shapes
<1>4. /\ path \in Seq(Keys) /\ path' \in Seq(Keys) /\ Len(path') = Len(path) - 1
      /\ Len(path) \in Nat
  BY <1>1, TargetFields DEF Known, Inv, CallTypes
<1>5. doing' = "openArray" => path' # <<>>
  <2> SUFFICES ASSUME doing = "openArray" PROVE path' # <<>>
    BY <1>1
  <2>1. Len(path) > 1
    BY DEF Walking
  <2> DEFINE n == Len(path)
             m == Len(path')
  <2>2. n \in Nat /\ n > 1 /\ m = n - 1
    BY <1>4, <2>1
  <2> HIDE DEF n, m
  <2>3. m # 0
    BY <2>2
  <2>4. Len(<<>>) = 0
    OBVIOUS
  <2> QED
    BY <2>3, <2>4 DEF m
<1>6. header \in Paths
  BY <1>1 DEF Known, Opening
<1>7. Opening'
  BY <1>1, <1>4, <1>5, <1>6 DEF Opening
<1>8. Assigning'
  BY <1>1 DEF Assigning
<1> QED
  BY <1>1, <1>2, <1>3, <1>7, <1>8, Quiet DEF Follows

\* The table that a [header] is to define is the last of its path.
LEMMA TerminalEnds ==
  ASSUME Known, Walking, NEW t, NEW y, Walk(t, y)
  PROVE  /\ Terminal <=> doing' = "open" /\ path' = <<>>
         /\ doing \in {"open", "openArray"} /\ path # <<>>
<1>1. /\ doing \in {"open", "openArray"} /\ doing' = doing /\ path # <<>>
      /\ path' = Tail(path)
  BY WalkingPath DEF Walk, Walking
<1>2. /\ path \in Seq(Keys) /\ path' \in Seq(Keys) /\ Len(path') = Len(path) - 1
      /\ Len(path) \in Nat
  BY <1>1, TargetFields DEF Known, Inv, CallTypes
<1>3. path' = <<>> <=> Len(path') = 0
  BY <1>2, EmptySeq
<1> QED
  BY <1>1, <1>2, <1>3 DEF Terminal

LEMMA CreateFollows ==
  ASSUME Known, CreateTable
  PROVE  Follows
<1> DEFINE d == IF Terminal THEN "explicit_table" ELSE "implicit"
           t == Put(tree, Target, Table(d))
<1>1. Walking /\ Target \notin DOMAIN tree /\ Walk(t, Target)
  BY DEF CreateTable, Exists
<1>2. /\ tree' = t /\ table' = Target /\ path' = Tail(path) /\ doing' = doing
      /\ before' = before /\ header' = header
  BY <1>1 DEF Walk
<1>3. doing \in {"open", "openArray"} /\ path # <<>> /\ (Terminal <=> doing' = "open" /\ path' = <<>>)
  BY <1>1, TerminalEnds
<1>4. PICK x \in Address, r \in Seq(Keys) : OnWay(x, r)
  BY <1>3 DEF Known, Opening
<1> DEFINE k == Head(path)
           along == Statements!Along(x, r)
<1> PICK s : s = Append(r, k)
  OBVIOUS
<1>5. /\ k \in Keys /\ Tail(path) \in Seq(Keys) /\ s \in Seq(Keys) /\ s # <<>>
      /\ Target = x \o s /\ s \o Tail(path) = r \o path
      /\ Statements!Along(x, s) = along \cup {Target}
      /\ tree = Implied(x, r) /\ Append(x, Head(s)) \notin DOMAIN before
  BY <1>1, <1>3, <1>4, NextComponent
<1>6. IsMap(t)
  BY DEF Put, IsMap
<1>7. Shape(t)
  <2>1. IsOpen(tree, table) /\ OpenWay(tree, table) /\ table \in Address
    BY PointedOpen DEF Known
  <2>2. d \in Definitions
    BY DEF Definitions
  <2>3. Target = Append(table, k)
    BY DEF Target
  <2> HIDE DEF d, k
  <2>4. Shape(Put(tree, Append(table, k), Table(d)))
    BY <1>1, <1>5, <2>1, <2>2, <2>3, ShapeCreated DEF Known, Shapes
  <2> QED
    BY <2>3, <2>4
<1>8. Names(x) \o (s \o Tail(path)) = header /\ IsOpen(before, x) /\ OpenWay(before, x)
  BY <1>4, <1>5 DEF OnWay
<1>9. /\ ~ Terminal => t = Statements!Merge(before, Statements!Tables(along \cup {Target}, "implicit"))
      /\ Terminal =>
           t = Statements!Merge(
                 Statements!Merge(before, Statements!Tables(along \cup {Target}, "implicit")),
                 Statements!Tables({Target}, "explicit_table"))
  <2> HIDE DEF along
  <2>1. tree = Statements!Merge(before, Statements!Tables(along, "implicit"))
    BY <1>5 DEF Implied, along
  <2>2. /\ Put(Statements!Merge(before, Statements!Tables(along, "implicit")), Target,
              Table("implicit")) =
             Statements!Merge(before, Statements!Tables(along \cup {Target}, "implicit"))
        /\ Put(Statements!Merge(before, Statements!Tables(along, "implicit")), Target,
              Table("explicit_table")) =
             Statements!Merge(
               Statements!Merge(before, Statements!Tables(along \cup {Target}, "implicit")),
               Statements!Tables({Target}, "explicit_table"))
    BY OneMore, OneMoreDefined
  <2> QED
    BY <2>1, <2>2
<1>10. OnWay(x, s)'
  <2> HIDE DEF t
  <2>1. Implied(x, s)' = Statements!Merge(before, Statements!Tables(along \cup {Target}, "implicit"))
    BY <1>2, <1>5 DEF Implied
  <2>2. IF doing' = "open" /\ path' = <<>>
        THEN tree' = Statements!Merge(Implied(x, s)', Statements!Tables({table'}, "explicit_table"))
        ELSE tree' = Implied(x, s)'
    BY <1>2, <1>3, <1>9, <2>1
  <2>3. Names(x) \o (s \o path') = header' /\ IsOpen(before', x) /\ OpenWay(before', x)
    BY <1>2, <1>8
  <2>4. table' = x \o s /\ Append(x, Head(s)) \notin DOMAIN before'
    BY <1>2, <1>5
  <2> QED
    BY <1>5, <2>2, <2>3, <2>4 DEF OnWay
<1> HIDE DEF t
<1> QED
  BY <1>1, <1>2, <1>5, <1>6, <1>7, <1>10, WalkFollows

LEMMA DefinedMerge ==
  ASSUME NEW t, Shape(t), IsMap(t), NEW x, IsOpen(t, x), t[x].definition = "implicit"
  PROVE  [t EXCEPT ![x].definition = "explicit_table"] =
           Statements!Merge(t, Statements!Tables({x}, "explicit_table"))
<1> DEFINE u == [t EXCEPT ![x].definition = "explicit_table"]
           one == Statements!Tables({x}, "explicit_table")
           m == Statements!Merge(t, one)
<1>1. u[x] = Table("explicit_table")
  BY ShapeDefined
<1>2. x \in DOMAIN t
  BY DEF IsOpen
<1>3. DOMAIN u = DOMAIN t /\ IsMap(u) /\ \A y \in DOMAIN t \ {x} : u[y] = t[y]
  BY DEF IsMap
<1> HIDE DEF u
<1>4. DOMAIN one = {x} /\ one[x] = Table("explicit_table")
  BY OnlyTables
<1> HIDE DEF one
<1>5. /\ IsMap(m) /\ DOMAIN m = DOMAIN t \cup DOMAIN one
      /\ \A y \in DOMAIN one : m[y] = one[y]
      /\ \A y \in DOMAIN t \ DOMAIN one : m[y] = t[y]
  BY Merged
<1> HIDE DEF m
<1>6. \A y \in DOMAIN u : u[y] = m[y]
  BY <1>1, <1>2, <1>3, <1>4, <1>5
<1>7. DOMAIN u = DOMAIN m
  BY <1>2, <1>3, <1>4, <1>5
<1>8. u = m
  BY <1>3, <1>5, <1>6, <1>7, SameMaps
<1> QED
  BY <1>8 DEF u, m, one

\* The call has come to the table y, which was there.
LEMMA EnterWay ==
  ASSUME Known, doing \in {"open", "openArray"}, path # <<>>,
         NEW x \in Address, NEW r \in Seq(Keys), OnWay(x, r), Target \in DOMAIN before,
         NEW y \in Address, IsOpen(before, y), OpenWay(before, y), Names(y) = Names(Target),
         table' = y, path' = Tail(path), UNCHANGED <<before, header>>,
         IF doing' = "open" /\ path' = <<>>
         THEN /\ tree' = Statements!Merge(before, Statements!Tables({y}, "explicit_table"))
              /\ before[y].definition = "implicit"
         ELSE tree' = before
  PROVE  OnWay(y, <<>>)'
<1> DEFINE k == Head(path)
<1>1. /\ k \in Keys /\ r = <<>> /\ Target = Append(x, k) /\ tree = before
      /\ Names(x) \o path = header /\ path \in Seq(Keys)
  BY NextComponent, Seen DEF Known, Inv, CallTypes
<1>2. Names(y) = Append(Names(x), k)
  BY WayEntered
<1>3. Names(y) \o (<<>> \o path') = header'
  <2>1. Names(x) \in Address
    BY NamesType DEF Address
  <2>2. Append(Names(x), Head(path)) \o Tail(path) = Names(x) \o path
    BY <1>1, <2>1, Onward
  <2>3. <<>> \o Tail(path) = Tail(path)
    BY <1>1, TargetFields, ConcatEmptySeq DEF Known, Inv
  <2> QED
    BY <1>1, <1>2, <2>2, <2>3
<1>4. table' = y \o <<>> /\ <<>> \in Seq(Keys)
  BY JoinedRoot
<1>5. Implied(y, <<>>)' = before
  <2>1. Statements!Along(y, <<>>) = {}
    BY AlongNone
  <2>2. IsMap(before)
    BY Seen DEF Known, Shapes
  <2>3. Statements!Merge(before, Statements!Tables({}, "implicit")) = before
    BY <2>2, NoneMore
  <2> QED
    BY <2>1, <2>3 DEF Implied
<1>6. IF doing' = "open" /\ path' = <<>>
      THEN /\ tree' = Statements!Merge(Implied(y, <<>>)', Statements!Tables({table'}, "explicit_table"))
           /\ before'[y].definition = "implicit"
      ELSE tree' = Implied(y, <<>>)'
  BY <1>5
<1>7. IsOpen(before', y) /\ OpenWay(before', y)
  OBVIOUS
<1> QED
  BY <1>3, <1>4, <1>6, <1>7 DEF OnWay

LEMMA EnterFollows ==
  ASSUME Known, EnterTable
  PROVE  Follows
<1> DEFINE t == IF Terminal THEN [tree EXCEPT ![Target].definition = "explicit_table"] ELSE tree
<1>1. /\ Walking /\ Target \in DOMAIN tree /\ tree[Target].kind = "table" /\ ~ tree[Target].inline
      /\ Walk(t, Target) /\ (Terminal => tree[Target].definition = "implicit")
  BY DEF EnterTable, IsOpenTable, Exists, MayDefine
<1>2. /\ tree' = t /\ table' = Target /\ path' = Tail(path) /\ doing' = doing
      /\ UNCHANGED <<before, header>>
  BY <1>1 DEF Walk
<1>3. doing \in {"open", "openArray"} /\ path # <<>> /\ (Terminal <=> doing' = "open" /\ path' = <<>>)
  BY <1>1, TerminalEnds
<1>4. PICK x \in Address, r \in Seq(Keys) : OnWay(x, r)
  BY <1>3 DEF Known, Opening
<1>5. Target \in DOMAIN before /\ tree = before
  BY <1>1, <1>3, <1>4, NextComponent
<1>6. Shape(tree) /\ IsMap(tree) /\ IsOpen(tree, Target)
  BY <1>1 DEF Known, Shapes, IsOpen
<1>7. Shape(t) /\ IsMap(t)
  <2>1. CASE Terminal
    <3>1. Shape([tree EXCEPT ![Target].definition = "explicit_table"])
      BY <1>1, <1>6, <2>1, ShapeDefined
    <3> QED
      BY <2>1, <3>1 DEF IsMap
  <2>2. CASE ~ Terminal
    BY <1>6, <2>2
  <2> QED
    BY <2>1, <2>2
<1>8. Terminal =>
        t = Statements!Merge(before, Statements!Tables({Target}, "explicit_table"))
  BY <1>1, <1>5, <1>6, DefinedMerge
<1>9. OpenNode(before[Target]) /\ before[Target].kind = "table"
  BY <1>1, <1>5 DEF OpenNode
<1> PICK y : y = Target
  OBVIOUS
<1>10. y \in Address /\ IsOpen(before, y) /\ OpenWay(before, y)
  BY <1>3, <1>4, <1>5, <1>9, WayEntered
<1>11. IF doing' = "open" /\ path' = <<>>
       THEN /\ tree' = Statements!Merge(before, Statements!Tables({y}, "explicit_table"))
            /\ before[y].definition = "implicit"
       ELSE tree' = before
  BY <1>1, <1>2, <1>3, <1>5, <1>8
<1>12. OnWay(y, <<>>)'
  <2>1. Names(y) = Names(Target) /\ table' = y
    BY <1>2
  <2> QED
    BY <1>2, <1>3, <1>4, <1>5, <1>10, <1>11, <2>1, EnterWay
<1>13. <<>> \in Seq(Keys)
  OBVIOUS
<1> HIDE DEF t
<1> QED
  BY <1>1, <1>7, <1>10, <1>12, <1>13, WalkFollows

LEMMA LastElementFollows ==
  ASSUME Known, EnterLastElement
  PROVE  Follows
<1>1. /\ Walking /\ IsTableArray(Target) /\ ~ Terminal
      /\ Walk(tree, Append(Target, tree[Target].size))
  BY DEF EnterLastElement, LastElement
<1>2. /\ tree' = tree /\ table' = Append(Target, tree[Target].size) /\ path' = Tail(path)
      /\ doing' = doing /\ UNCHANGED <<before, header>>
  BY <1>1 DEF Walk
<1>3. /\ doing \in {"open", "openArray"} /\ path # <<>>
      /\ ~ (doing' = "open" /\ path' = <<>>)
  BY <1>1, TerminalEnds
<1>4. PICK x \in Address, r \in Seq(Keys) : OnWay(x, r)
  BY <1>3 DEF Known, Opening
<1>5. Target \in DOMAIN before /\ tree = before /\ before[Target].arrayTable
  BY <1>1, <1>3, <1>4, NextComponent DEF IsTableArray, Exists
<1> PICK y : y = Append(Target, before[Target].size)
  OBVIOUS
<1>6. /\ y \in Address /\ IsOpen(before, y) /\ OpenWay(before, y)
      /\ Names(y) = Names(Target)
  BY <1>3, <1>4, <1>5, WayEntered
<1>7. OnWay(y, <<>>)'
  <2>1. table' = y /\ tree' = before
    BY <1>2, <1>5
  <2> QED
    BY <1>2, <1>3, <1>4, <1>5, <1>6, <2>1, EnterWay
<1>8. <<>> \in Seq(Keys) /\ Shape(tree) /\ IsMap(tree)
  BY DEF Known, Shapes
<1> QED
  BY <1>1, <1>6, <1>7, <1>8, WalkFollows

LEMMA OpenedFollows ==
  ASSUME Known, Opened
  PROVE  Follows
<1>1. /\ doing = "open" /\ path = <<>> /\ current' = table /\ tree' = tree
      /\ doing' = "idle" /\ header' = header
  BY DEF Opened, Return
<1>2. PICK x \in Address, r \in Seq(Keys) : OnWay(x, r)
  BY <1>1 DEF Known, Opening
<1>3. /\ Told = before /\ Told' = tree
      /\ Outcome = <<"open", <<>>>> /\ Outcome' = <<"open", <<>>>>
  BY <1>1, Seen, SeenThen
<1>4. /\ IsOpen(before, x) /\ OpenWay(before, x) /\ table = x \o r
      /\ Names(x) \o (r \o <<>>) = header
      /\ r # <<>> => Append(x, Head(r)) \notin DOMAIN before
      /\ r = <<>> => before[x].definition = "implicit"
      /\ tree = Statements!Merge(Implied(x, r), Statements!Tables({table}, "explicit_table"))
  BY <1>1, <1>2 DEF OnWay
<1>5. header = Names(x) \o r
  BY <1>4, ConcatEmptySeq
<1>6. Statements!Furthest(header) = x /\ Statements!Left(x, header) = r
  BY <1>3, <1>4, <1>5, EndOfWay DEF Known, Shapes
<1>7. Statements!MayOpen(x, header)
  BY <1>3, <1>4, <1>6 DEF Statements!MayOpen, Statements!Free
<1>8. Statements!Opened(x, header) = Implied(x, r)
  BY <1>3, <1>6 DEF Statements!Opened, Implied
<1>9. Statements!OpenTable(header)
  BY <1>1, <1>3, <1>4, <1>6, <1>7, <1>8 DEF Statements!OpenTable
<1>10. header \in Paths
  BY <1>1 DEF Known, Opening
<1>11. Shapes'
  BY <1>1, <1>3 DEF Known, Shapes
<1>12. Opening' /\ Assigning'
  BY <1>1 DEF Opening, Assigning
<1> QED
  BY <1>9, <1>10, <1>11, <1>12 DEF Follows, Statements!Next

LEMMA FrontOfExtended ==
  ASSUME NEW s \in Seq(Keys), NEW k \in Keys
  PROVE  Statements!Front(Append(s, k)) = s /\ Append(s, k)[Len(Append(s, k))] = k
<1>1. s \in Address /\ k \in Keys \cup Nat /\ Len(s) \in Nat
  BY AddressLength DEF Address
<1>2. Len(Append(s, k)) = Len(s) + 1 /\ Append(s, k)[Len(s) + 1] = k
  BY <1>1, Extended
<1>3. SubSeq(Append(s, k), 1, Len(s)) = s
  BY <1>1, ParentOfExtended
<1>4. Len(Append(s, k)) - 1 = Len(s)
  BY <1>1, <1>2
<1> QED
  BY <1>2, <1>3, <1>4 DEF Statements!Front

\* The array of tables that a [[header]] names, when all but its last key have been walked.
LEMMA LastKey ==
  ASSUME Known, doing = "openArray", Len(path) = 1,
         NEW x \in Address, NEW r \in Seq(Keys), OnWay(x, r)
  PROVE  /\ Statements!Furthest(Statements!Front(header)) = x
         /\ Statements!Left(x, Statements!Front(header)) = r
         /\ Statements!ArrayOf(x, header) = Target
         /\ Statements!Free(x, Statements!Front(header))
         /\ Statements!Opened(x, Statements!Front(header)) = Implied(x, r)
<1> DEFINE k == Head(path)
           s == Names(x) \o r
<1>1. path \in Seq(Keys) /\ path # <<>> /\ Told = before
  BY Seen DEF Known, Headed, Opening
<1>2. /\ k \in Keys /\ Target = Append(x \o r, k) /\ Append(r, k) \o Tail(path) = r \o path
      /\ Append(r, k) \in Seq(Keys)
  BY <1>1, NextComponent
<1>3. Tail(path) = <<>>
  <2>1. Tail(path) \in Seq(Keys) /\ Len(Tail(path)) = 0
    BY <1>1, TargetFields DEF Known, Inv
  <2> QED
    BY <2>1, EmptySeq
<1>4. Names(x) \in Seq(Keys) /\ Names(x) \in Address /\ r \in Address
  BY NamesType DEF Address
<1> HIDE DEF k
<1>5. Append(r, k) = r \o path
  BY <1>2, <1>3, ConcatEmptySeq
<1>6. header = Append(s, k)
  <2>1. header = Names(x) \o Append(r, k)
    BY <1>5 DEF OnWay
  <2>2. k \in Keys \cup Nat
    BY <1>2
  <2>3. Append(Names(x) \o r, k) = Names(x) \o Append(r, k)
    BY <1>4, <2>2, ExtendedJoined
  <2> QED
    BY <2>1, <2>3
<1>7. s \in Seq(Keys)
  BY <1>4
<1>8. Statements!Front(header) = s /\ header[Len(header)] = k
  BY <1>2, <1>6, <1>7, FrontOfExtended
<1>9. Statements!Furthest(s) = x /\ Statements!Left(x, s) = r
  <2>1. /\ IsOpen(Told, x) /\ OpenWay(Told, x) /\ Shape(Told)
        /\ r # <<>> => Append(x, Head(r)) \notin DOMAIN Told
    BY <1>1 DEF Known, Shapes, OnWay
  <2> QED
    BY <2>1, EndOfWay
<1> HIDE DEF s
<1>10. Statements!ArrayOf(x, header) = Target
  BY <1>2, <1>8, <1>9 DEF Statements!ArrayOf
<1>11. Statements!Free(x, s)
  BY <1>1, <1>9 DEF Statements!Free, OnWay
<1>12. Statements!Opened(x, s) = Implied(x, r)
  BY <1>1, <1>9 DEF Statements!Opened, Implied
<1> QED
  BY <1>8, <1>9, <1>10, <1>11, <1>12

LEMMA AppendFollows ==
  ASSUME Known, AppendElement
  PROVE  Follows
<1> DEFINE size == IF Exists(Target) THEN tree[Target].size + 1 ELSE 1
           element == Append(Target, size)
<1>1. /\ doing = "openArray" /\ Len(path) = 1 /\ MayAppend(Target)
      /\ tree' = WithElement(tree, Target, size) /\ current' = element
      /\ doing' = "idle"
  BY DEF AppendElement, Return, WithElement
<1>2. PICK x \in Address, r \in Seq(Keys) : OnWay(x, r)
  BY <1>1 DEF Known, Opening
<1>3. /\ Told = before /\ Told' = tree'
      /\ Outcome = <<"open", <<>>>> /\ Outcome' = <<"open", <<>>>>
  BY <1>1, Seen, SeenThen
<1>4. /\ path # <<>> /\ header \in Paths
  BY <1>1 DEF Known, Opening
<1>5. /\ Head(path) \in Keys /\ Target = Append(table, Head(path)) /\ Target \in Address
  BY <1>4, TargetFields DEF Known, Inv
<1>6. /\ tree = Implied(x, r)
      /\ Target \in DOMAIN tree <=> Target \in DOMAIN before
      /\ Target \in DOMAIN before => tree[Target] = before[Target]
  BY <1>1, <1>2, <1>4, NextComponent
<1>7. size = SizeAfter(tree, Target)
  BY DEF SizeAfter, Exists
<1> HIDE DEF size
<1>8. HasElement(tree, Target, size, tree')
  <2>1. table \in DOMAIN tree /\ tree[table].kind = "table" /\ GoodTree(tree)
    BY PointedOpen DEF Known, IsOpen, Shapes, Shape
  <2>2. Append(table, Head(path)) \in DOMAIN tree => tree[Append(table, Head(path))].arrayTable
    BY <1>1, <1>5 DEF MayAppend, Exists
  <2>3. HasElement(tree, Append(table, Head(path)), SizeAfter(tree, Append(table, Head(path))),
                   WithElement(tree, Append(table, Head(path)), SizeAfter(tree, Append(table, Head(path)))))
    BY <1>5, <2>1, <2>2, ElementAppended
  <2> QED
    BY <1>1, <1>5, <1>7, <2>3
<1>9. Shape(tree')
  <2>1. Inv'
    BY AppendStep DEF Known
  <2>2. OpenWay(tree', Append(Target, size))
    BY <1>1, <2>1 DEF Inv, Ways
  <2>3. /\ Target \in DOMAIN tree => tree[Target].arrayTable /\ size = tree[Target].size + 1
        /\ Target \notin DOMAIN tree => size = 1
    BY <1>1 DEF MayAppend, Exists, size
  <2> QED
    BY <1>5, <1>8, <2>2, <2>3, ShapeAppended DEF Known, Shapes
<1>10. IsMap(tree')
  BY <1>1 DEF WithElement, Put, IsMap
<1>11. Shapes'
  BY <1>3, <1>9, <1>10 DEF Shapes
<1>12. Opening' /\ Assigning'
  BY <1>1 DEF Opening, Assigning
<1>13. /\ Statements!Furthest(Statements!Front(header)) = x
       /\ Statements!ArrayOf(x, header) = Target
       /\ Statements!Free(x, Statements!Front(header))
       /\ Statements!Opened(x, Statements!Front(header)) = tree
  BY <1>1, <1>2, <1>6, LastKey
<1>14. Statements!MayAppend(x, header)
  BY <1>1, <1>3, <1>6, <1>13 DEF Statements!MayAppend, MayAppend, Exists
<1>15. Statements!Appended(Target) = ArrayTable(size) /\ Statements!Appended(Target).size = size
  <2>1. size = IF Target \in DOMAIN before THEN before[Target].size + 1 ELSE 1
    BY <1>6 DEF size, Exists
  <2>2. Statements!Appended(Target) = ArrayTable(size)
    BY <1>3, <2>1 DEF Statements!Appended, ArrayTable
  <2> QED
    BY <2>2 DEF ArrayTable
<1> DEFINE o == [y \in {Target, element} |->
                  IF y = element THEN Statements!Table("array_element")
                                 ELSE Statements!Appended(Target)]
<1>16. tree' = Statements!Merge(tree, o)
  <2>1. /\ DOMAIN o = {Target, element} /\ o[element] = Table("array_element")
        /\ Target # element => o[Target] = ArrayTable(size)
    BY <1>15, SameNodes
  <2>2. /\ DOMAIN tree' = DOMAIN tree \cup {Target, element}
        /\ tree'[Target] = ArrayTable(size) /\ tree'[element] = Table("array_element")
        /\ \A y \in DOMAIN tree \ {Target} : tree'[y] = tree[y]
    BY <1>8 DEF HasElement
  <2> HIDE DEF o, element
  <2>3. /\ DOMAIN tree' = DOMAIN tree \cup DOMAIN o
        /\ \A y \in DOMAIN tree \ DOMAIN o : tree'[y] = tree[y]
    BY <2>1, <2>2
  <2>4. \A y \in DOMAIN o : tree'[y] = o[y]
    BY <2>1, <2>2
  <2> QED
    BY <1>10, <2>3, <2>4, MergedIs
<1>17. Statements!OpenArrayTable(header)
  BY <1>1, <1>3, <1>13, <1>14, <1>15, <1>16 DEF Statements!OpenArrayTable
<1> QED
  BY <1>4, <1>11, <1>12, <1>17 DEF Follows, Statements!Next

\* The node that the next component of a dotted key names.
LEMMA NextDotted ==
  ASSUME Known, doing = "insert", NEW w \in Seq(Keys), AlongKey(w)
  PROVE  LET k == Head(path)
             s == Append(w, k)
         IN /\ k \in Keys /\ Tail(path) \in Seq(Keys) /\ s \in Seq(Keys) /\ path # <<>>
            /\ Target = current \o s /\ s \o Tail(path) = w \o path
            /\ Target = Append(table, k) /\ Target \in Address
            /\ Statements!Along(current, s) = Statements!Along(current, w) \cup {Target}
            /\ DOMAIN before \subseteq DOMAIN tree
            /\ Target \in DOMAIN tree <=> Target \in DOMAIN before
            /\ Target \in DOMAIN before => tree[Target] = before[Target]
            /\ SubSeq(table, Len(current) + 1, Len(table)) = w
<1> DEFINE k == Head(path)
           s == Append(w, k)
           along == Statements!Along(current, w)
           new == Statements!Tables(along, "dotted_key")
           all == Statements!Merge(new, before)
<1>1. path # <<>> /\ current \in Address /\ w \in Address
  BY PointedOpen DEF Known, Assigning, Address
<1>2. /\ path \in Seq(Keys) /\ k \in Keys /\ Tail(path) \in Seq(Keys)
      /\ Target = Append(table, k) /\ Target \in Address
  BY <1>1, TargetFields DEF Known, Inv, CallTypes
<1>3. table = current \o w /\ tree = all
  BY DEF AlongKey
<1>4. DOMAIN new = along
  BY OnlyTables
<1> HIDE DEF new
<1>5. DOMAIN all = DOMAIN new \cup DOMAIN before /\ \A y \in DOMAIN before : all[y] = before[y]
  BY Merged
<1> HIDE DEF all
<1>6. /\ Statements!Along(current, s) = along \cup {Append(current \o w, k)}
      /\ Append(current \o w, k) = current \o s /\ s \in Seq(Keys)
  <2>1. current \in Address /\ w \in Seq(Keys) /\ k \in Keys
    BY <1>1, <1>2
  <2> HIDE DEF k
  <2>2. /\ Statements!Along(current, Append(w, k)) =
             Statements!Along(current, w) \cup {Append(current \o w, k)}
        /\ Append(current \o w, k) = current \o Append(w, k)
        /\ Append(w, k) \in Seq(Keys)
    BY <2>1, AlongNext
  <2> QED
    BY <2>2
<1>7. Append(current \o w, k) \notin along
  BY <1>1, <1>2, AlongShort
<1>8. s \o Tail(path) = w \o path
  BY <1>1, <1>2, Onward
<1>9. SubSeq(table, Len(current) + 1, Len(table)) = w
  BY <1>1, <1>3, RestOfJoined
<1> HIDE DEF s, k
<1> QED
  BY <1>1, <1>2, <1>3, <1>4, <1>5, <1>6, <1>7, <1>8, <1>9 DEF s, k, along

LEMMA DottedFollows ==
  ASSUME Known, WalkDotted
  PROVE  Follows
<1> DEFINE t == IF Target \in DOMAIN tree THEN tree ELSE Put(tree, Target, Table("dotted_key"))
           k == Head(path)
<1>1. /\ doing = "insert" /\ Len(path) > 1 /\ tree' = t /\ table' = Target /\ path' = Tail(path)
      /\ UNCHANGED <<current, doing, value, before>>
      /\ Target \in DOMAIN tree => IsOpen(tree, Target)
  BY DEF WalkDotted, Exists, IsOpenTable, IsOpen
<1>2. /\ Told = before /\ Told' = before
      /\ Outcome = <<"open", <<>>>> /\ Outcome' = <<"open", <<>>>>
  BY <1>1, Seen, SeenThen
<1>3. PICK w \in Seq(Keys) : AlongKey(w)
  BY <1>1 DEF Known, Assigning
<1> DEFINE along == Statements!Along(current, w)
<1> PICK s : s = Append(w, k)
  OBVIOUS
<1>4. /\ k \in Keys /\ Tail(path) \in Seq(Keys) /\ s \in Seq(Keys)
      /\ Target = current \o s /\ s \o Tail(path) = w \o path /\ Target = Append(table, k)
      /\ Statements!Along(current, s) = along \cup {Target}
      /\ Target \in DOMAIN tree <=> Target \in DOMAIN before
      /\ Target \in DOMAIN before => tree[Target] = before[Target]
  BY <1>1, <1>3, NextDotted
<1>5. /\ w \o path \in Paths
      /\ tree = Statements!Merge(Statements!Tables(along, "dotted_key"), before)
      /\ \A y \in along \cap DOMAIN before : IsOpen(before, y)
  BY <1>3 DEF AlongKey
<1>6. t = Statements!Merge(Statements!Tables(along \cup {Target}, "dotted_key"), before)
  <2> HIDE DEF along
  <2>1. (IF Target \in DOMAIN before
         THEN Statements!Merge(Statements!Tables(along, "dotted_key"), before)
         ELSE Put(Statements!Merge(Statements!Tables(along, "dotted_key"), before), Target,
                  Table("dotted_key"))) =
          Statements!Merge(Statements!Tables(along \cup {Target}, "dotted_key"), before)
    BY OneMoreUnder
  <2> QED
    BY <1>4, <1>5, <2>1
<1>7. \A y \in Statements!Along(current, s) \cap DOMAIN before : IsOpen(before, y)
  BY <1>1, <1>4, <1>5 DEF IsOpen
<1>8. AlongKey(s)'
  <2> HIDE DEF t
  <2>1. /\ s \o path' \in Paths /\ table' = current' \o s
        /\ \A y \in Statements!Along(current', s) \cap DOMAIN before' : IsOpen(before', y)
    BY <1>1, <1>4, <1>5, <1>7
  <2>2. tree' = Statements!Merge(Statements!Tables(Statements!Along(current', s), "dotted_key"),
                                 before')
    BY <1>1, <1>4, <1>6
  <2> QED
    BY <2>1, <2>2 DEF AlongKey
<1>9. path' # <<>>
  <2>1. path \in Seq(Keys) /\ path # <<>> /\ Len(Tail(path)) = Len(path) - 1 /\ Len(path) \in Nat
    BY <1>1, TargetFields DEF Known, Inv, CallTypes, Assigning
  <2>2. Len(path') # 0
    BY <1>1, <2>1
  <2>3. Len(<<>>) = 0
    OBVIOUS
  <2> QED
    BY <2>2, <2>3
<1>10. value' \in {v.content : v \in Values}
  BY <1>1 DEF Known, Assigning
<1>11. Assigning'
  BY <1>1, <1>4, <1>8, <1>9, <1>10 DEF Assigning
<1>12. Opening'
  BY <1>1 DEF Opening
<1>13. Shape(t) /\ IsMap(t)
  <2>1. CASE Target \in DOMAIN tree
    BY <2>1 DEF Known, Shapes
  <2>2. CASE Target \notin DOMAIN tree
    <3>1. IsOpen(tree, table) /\ OpenWay(tree, table) /\ table \in Address
      BY PointedOpen DEF Known
    <3>2. "dotted_key" \in Definitions
      BY DEF Definitions
    <3> HIDE DEF k
    <3>3. Shape(Put(tree, Append(table, k), Table("dotted_key")))
      BY <1>4, <2>2, <3>1, <3>2, ShapeCreated DEF Known, Shapes
    <3>4. IsMap(Put(tree, Target, Table("dotted_key")))
      BY DEF Put, IsMap
    <3> QED
      BY <1>4, <2>2, <3>3, <3>4
  <2> QED
    BY <2>1, <2>2
<1>14. Shapes'
  <2> HIDE DEF t
  <2> QED
    BY <1>1, <1>2, <1>13 DEF Known, Shapes
<1> QED
  BY <1>1, <1>2, <1>11, <1>12, <1>14, Quiet DEF Follows

\* The last key of an assignment, and all of it.
LEMMA LastOfKey ==
  ASSUME Known, doing = "insert", Len(path) = 1, NEW w \in Seq(Keys), AlongKey(w)
  PROVE  /\ w \o path \in Paths /\ Statements!Front(w \o path) = w
         /\ Target = current \o (w \o path)
<1> DEFINE k == Head(path)
<1>1. /\ k \in Keys /\ path # <<>> /\ Append(w, k) \o Tail(path) = w \o path
      /\ Append(w, k) \in Seq(Keys) /\ Target = current \o Append(w, k)
  BY NextDotted
<1>2. Tail(path) = <<>>
  <2>1. Tail(path) \in Seq(Keys) /\ Len(Tail(path)) = 0
    BY <1>1, TargetFields DEF Known, Inv
  <2> QED
    BY <2>1, EmptySeq
<1> HIDE DEF k
<1>3. Append(w, k) = w \o path
  BY <1>1, <1>2, ConcatEmptySeq
<1>4. Statements!Front(Append(w, k)) = w
  BY <1>1, FrontOfExtended
<1>5. w \o path \in Paths
  BY DEF AlongKey
<1> QED
  BY <1>1, <1>3, <1>4, <1>5

LEMMA InsertFollows ==
  ASSUME Known, Insert
  PROVE  Follows
<1>1. /\ doing = "insert" /\ Len(path) = 1 /\ Target \notin DOMAIN tree
      /\ tree' = Graft(tree, Target, value) /\ current' = current /\ doing' = "idle"
  BY DEF Insert, Return, MayEmplace, Exists
<1>2. /\ Told = before /\ Told' = tree'
      /\ Outcome = <<"open", <<>>>> /\ Outcome' = <<"open", <<>>>>
  BY <1>1, Seen, SeenThen
<1>3. PICK w \in Seq(Keys) : AlongKey(w)
  BY <1>1 DEF Known, Assigning
<1> PICK p : p = w \o path
  OBVIOUS
<1> PICK c : c = value
  OBVIOUS
<1>4. p \in Paths /\ Statements!Front(p) = w /\ Target = current \o p
  BY <1>1, <1>3, LastOfKey
<1>5. /\ Target \notin DOMAIN before /\ Target = Append(table, Head(path)) /\ Head(path) \in Keys
  BY <1>1, <1>3, NextDotted
<1>6. /\ tree = Statements!Merge(Statements!Tables(Statements!Along(current, w), "dotted_key"), before)
      /\ \A y \in Statements!Along(current, w) \cap DOMAIN before : IsOpen(before, y)
  BY <1>3 DEF AlongKey
<1>7. c \in {v.content : v \in Values}
  BY <1>1 DEF Known, Assigning
<1>8. Statements!MayAssign(p)
  BY <1>2, <1>4, <1>5, <1>6, SameNodes DEF Statements!MayAssign, IsOpen
<1> DEFINE g == [x \in {current \o p \o y : y \in DOMAIN c} |->
                  c[SubSeq(x, Len(current \o p) + 1, Len(x))]]
<1>9. tree' = Statements!Merge(tree, g)
  <2>1. tree' = Graft(tree, current \o p, c)
    BY <1>1, <1>4
  <2>2. Graft(tree, current \o p, c) = Statements!Merge(tree, g)
    <3> DEFINE u == Graft(tree, current \o p, c)
    <3>1. /\ IsMap(u) /\ DOMAIN u = DOMAIN tree \cup DOMAIN g
          /\ \A x \in DOMAIN g : u[x] = g[x]
          /\ \A x \in DOMAIN tree \ DOMAIN g : u[x] = tree[x]
      BY DEF Graft, IsMap
    <3> HIDE DEF u, g
    <3>2. u = Statements!Merge(tree, g)
      BY <3>1, MergedIs
    <3> QED
      BY <3>2 DEF u
  <2> QED
    BY <2>1, <2>2
<1>10. Statements!Assign(p, c)
  BY <1>1, <1>2, <1>4, <1>6, <1>8, <1>9 DEF Statements!Assign
<1>11. Shape(tree')
  <2>1. table \in DOMAIN tree /\ tree[table].kind = "table" /\ Shape(tree)
    BY PointedOpen DEF Known, IsOpen, Shapes
  <2>2. IsTree(value) /\ \A y \in DOMAIN value : ~ value[y].arrayTable
    BY <1>1 DEF Known, Inv, ContentFits
  <2>3. \A y \in DOMAIN value : value[y].kind = "table" => value[y].inline
    BY <1>7, DocumentAssumption DEF IsValue
  <2>4. Shape(Graft(tree, Append(table, Head(path)), value))
    BY <1>1, <1>5, <2>1, <2>2, <2>3, ShapeInserted
  <2> QED
    BY <1>1, <1>5, <2>4
<1>12. IsMap(tree')
  BY <1>1 DEF Graft, IsMap
<1>13. Shapes'
  BY <1>2, <1>11, <1>12 DEF Shapes
<1>14. Opening' /\ Assigning'
  BY <1>1 DEF Opening, Assigning
<1>15. Statements!Next
  BY <1>4, <1>7, <1>10 DEF Statements!Next
<1> QED
  BY <1>13, <1>14, <1>15 DEF Follows

\* A conflict ends the document.
LEMMA ConflictFollows ==
  ASSUME Known, doing \in {"open", "openArray", "insert"}, Conflict,
         NEW p \in Paths, doing \in {"open", "openArray"} => p = header,
         doing = "insert" => p = SubSeq(table, Len(current) + 1, Len(table)) \o path,
         doing = "open" => ~ Statements!MayOpen(Statements!Furthest(p), p),
         doing = "openArray" =>
           ~ Statements!MayAppend(Statements!Furthest(Statements!Front(p)), p),
         doing = "insert" => ~ Statements!MayAssign(p)
  PROVE  Follows
<1>1. /\ doing' = Refusal[doing] /\ UNCHANGED <<tree, current, path, table, header, before>>
  BY DEF Conflict, Ends, walkVars
<1>2. /\ Told = before /\ Outcome = <<"open", <<>>>>
  BY Seen
<1>3. /\ doing = "open" => doing' = "cannotOpen"
      /\ doing = "openArray" => doing' = "cannotAppend"
      /\ doing = "insert" => doing' = "cannotInsert"
  BY <1>1 DEF Refusal
<1>4. Told' = before /\ Outcome' = <<doing', p>>
  BY <1>1, <1>3, SeenThen
<1>5. Statements!Conflict(p)
  BY <1>1, <1>2, <1>3, <1>4 DEF Statements!Conflict
<1>6. Shapes'
  BY <1>1, <1>2, <1>4 DEF Known, Shapes
<1>7. Opening' /\ Assigning'
  BY <1>3 DEF Opening, Assigning
<1> QED
  BY <1>5, <1>6, <1>7 DEF Follows, Statements!Next

LEMMA FrontOfJoined ==
  ASSUME NEW s \in Seq(Keys), NEW q \in Seq(Keys), q # <<>>
  PROVE  /\ Statements!Front(q) \in Seq(Keys) /\ Statements!Front(s \o q) = s \o Statements!Front(q)
         /\ Len(Statements!Front(q)) = Len(q) - 1
         /\ Len(q) > 1 => Statements!Front(q) # <<>> /\ Head(Statements!Front(q)) = Head(q)
<1>1. s \in Address /\ q \in Address
  BY DEF Address
<1>2. Len(s) \in Nat /\ Len(q) \in Nat /\ Len(q) # 0
  BY <1>1, AddressLength
<1> DEFINE f == SubSeq(q, 1, Len(q) - 1)
<1>3. Statements!Front(q) = f
  BY DEF Statements!Front
<1>4. f \in Seq(Keys) /\ Len(f) = Len(q) - 1 /\ \A i \in 1 .. Len(q) - 1 : f[i] = q[i]
  <2>1. Len(q) - 1 \in 0 .. Len(q)
    BY <1>2
  <2>2. f \in Address /\ Len(f) = Len(q) - 1 /\ \A i \in 1 .. Len(q) - 1 : f[i] = q[i]
    BY <1>1, <2>1, Prefix
  <2>3. f \in Seq(Keys)
    BY <1>2, SubSeqProperties
  <2> QED
    BY <2>2, <2>3
<1>5. SubSeq(s \o q, 1, Len(s \o q) - 1) = s \o f
  <2>1. Len(s \o q) = Len(s) + Len(q)
    BY <1>1, Joined
  <2>2. Len(s) + Len(q) - 1 \in 0 .. Len(s) + Len(q) /\ Len(s) + Len(q) - 1 - Len(s) = Len(q) - 1
    BY <1>2
  <2>3. SubSeq(s \o q, 1, Len(s) + Len(q) - 1) =
          IF Len(s) + Len(q) - 1 <= Len(s) THEN SubSeq(s, 1, Len(s) + Len(q) - 1)
          ELSE s \o SubSeq(q, 1, Len(s) + Len(q) - 1 - Len(s))
    BY <1>1, <2>2, PrefixOfJoined
  <2>4. CASE Len(q) = 1
    <3>1. SubSeq(s \o q, 1, Len(s)) = s
      BY <1>1, <1>2, <2>3, <2>4, WholePrefix
    <3>2. f = <<>>
      BY <1>4, <2>4, EmptySeq
    <3>3. s \o <<>> = s
      BY ConcatEmptySeq
    <3>4. Len(s \o q) - 1 = Len(s)
      BY <1>2, <2>1, <2>4
    <3> HIDE DEF f
    <3> QED
      BY <3>1, <3>2, <3>3, <3>4
  <2>5. CASE Len(q) # 1
    <3>1. ~ (Len(s) + Len(q) - 1 <= Len(s))
      <4> DEFINE m == Len(s)
                 n == Len(q)
      <4>1. m \in Nat /\ n \in Nat /\ n # 0 /\ n # 1
        BY <1>2, <2>5
      <4> HIDE DEF m, n
      <4>2. ~ (m + n - 1 <= m)
        BY <4>1
      <4> QED
        BY <4>2 DEF m, n
    <3> QED
      BY <2>1, <2>2, <2>3, <3>1
  <2> QED
    BY <2>4, <2>5
<1>6. Statements!Front(s \o q) = s \o f
  BY <1>5 DEF Statements!Front
<1>7. Len(q) > 1 => f # <<>> /\ Head(f) = Head(q)
  <2> HIDE DEF f
  <2>1. Len(<<>>) = 0
    OBVIOUS
  <2> QED
    BY <1>2, <1>4, <2>1
<1> HIDE DEF f
<1> QED
  BY <1>3, <1>4, <1>6, <1>7

\* What has been walked of a path is along all but its last key.
LEMMA AlongFront ==
  ASSUME NEW x, NEW s \in Seq(Keys), s # <<>>, NEW q \in Seq(Keys), q # <<>>
  PROVE  x \o s \in Statements!Along(x, Statements!Front(s \o q))
<1>1. /\ s \in Address /\ q \in Address /\ Len(s) \in Nat /\ Len(s) # 0
      /\ Len(q) \in Nat /\ Len(q) # 0
  BY AddressLength DEF Address
<1> DEFINE f == Statements!Front(q)
<1>2. f \in Seq(Keys) /\ Statements!Front(s \o q) = s \o f
  BY FrontOfJoined
<1>3. f \in Address /\ Len(f) \in Nat
  BY <1>2, AddressLength DEF Address
<1> HIDE DEF f
<1>4. Len(s \o f) = Len(s) + Len(f) /\ Len(s) \in 1 .. Len(s \o f)
  BY <1>1, <1>3, Joined
<1>5. SubSeq(s \o f, 1, Len(s)) = s
  <2>1. Len(s) \in 0 .. Len(s) + Len(f) /\ Len(s) <= Len(s)
    BY <1>1, <1>3
  <2>2. SubSeq(s \o f, 1, Len(s)) = SubSeq(s, 1, Len(s))
    BY <1>1, <1>3, <2>1, PrefixOfJoined
  <2> QED
    BY <1>1, <2>2, WholePrefix
<1>6. x \o s \in Statements!Along(x, s \o f)
  BY <1>4, <1>5 DEF Statements!Along
<1> QED
  BY <1>2, <1>6

LEMMA CannotInsertFollows ==
  ASSUME Known, CannotInsert
  PROVE  Follows
<1>1. /\ doing = "insert" /\ Conflict
      /\ Len(path) > 1 => Target \in DOMAIN tree /\ ~ IsOpen(tree, Target)
      /\ ~ (Len(path) > 1) => Target \in DOMAIN tree
  BY DEF CannotInsert, MayEmplace, Exists, IsOpenTable, IsOpen
<1>2. PICK w \in Seq(Keys) : AlongKey(w)
  BY <1>1 DEF Known, Assigning
<1> PICK p : p = w \o path
  OBVIOUS
<1> DEFINE k == Head(path)
           s == Append(w, k)
<1>3. /\ k \in Keys /\ Tail(path) \in Seq(Keys) /\ s \in Seq(Keys) /\ path # <<>>
      /\ Target = current \o s /\ s \o Tail(path) = p
      /\ Statements!Along(current, s) = Statements!Along(current, w) \cup {Target}
      /\ Target \in DOMAIN tree <=> Target \in DOMAIN before
      /\ Target \in DOMAIN before => tree[Target] = before[Target]
      /\ SubSeq(table, Len(current) + 1, Len(table)) = w
  BY <1>1, <1>2, NextDotted
<1>4. Told = before /\ p \in Paths
  BY <1>1, <1>2, Seen DEF AlongKey
<1>5. path \in Seq(Keys) /\ Len(path) \in Nat /\ Len(path) # 0 /\ Len(Tail(path)) = Len(path) - 1
  BY <1>3, TargetFields, AddressLength, EmptySeq DEF Known, Inv, CallTypes
<1>6. ~ Statements!MayAssign(p)
  <2>1. CASE ~ (Len(path) > 1)
    <3>1. Len(path) = 1
      BY <1>5, <2>1
    <3>2. Target = current \o p
      BY <1>1, <1>2, <3>1, LastOfKey
    <3> QED
      BY <1>1, <1>3, <1>4, <2>1, <3>2 DEF Statements!MayAssign
  <2>2. CASE Len(path) > 1
    <3>1. Target \in DOMAIN before /\ ~ IsOpen(before, Target)
      BY <1>1, <1>3, <2>2 DEF IsOpen
    <3>2. Target \in Statements!Along(current, Statements!Front(p))
      <4>1. Tail(path) # <<>>
        <5>1. Len(path) - 1 # 0
          <6> DEFINE n == Len(path)
          <6>1. n \in Nat /\ n > 1
            BY <1>5, <2>2
          <6> HIDE DEF n
          <6>2. n - 1 # 0
            BY <6>1
          <6> QED
            BY <6>2 DEF n
        <5>2. Len(Tail(path)) # 0
          BY <1>5, <5>1
        <5>3. Len(<<>>) = 0
          OBVIOUS
        <5> QED
          BY <5>2, <5>3
      <4>2. s # <<>>
        BY <1>3
      <4> HIDE DEF s
      <4>3. current \o s \in Statements!Along(current, Statements!Front(s \o Tail(path)))
        BY <1>3, <4>1, <4>2, AlongFront
      <4> QED
        BY <1>3, <4>3
    <3> QED
      BY <1>4, <3>1, <3>2, SameNodes DEF Statements!MayAssign, IsOpen
  <2> QED
    BY <2>1, <2>2
<1> QED
  BY <1>1, <1>3, <1>4, <1>6, ConflictFollows

LEMMA CannotAppendFollows ==
  ASSUME Known, CannotAppend
  PROVE  Follows
<1>1. /\ doing = "openArray" /\ Len(path) = 1 /\ Conflict
      /\ Target \in DOMAIN tree /\ ~ tree[Target].arrayTable
  BY DEF CannotAppend, MayAppend, Exists
<1>2. PICK x \in Address, r \in Seq(Keys) : OnWay(x, r)
  BY <1>1 DEF Known, Opening
<1>3. path # <<>> /\ header \in Paths /\ Told = before
  BY <1>1, Seen DEF Known, Opening
<1>4. Target \in DOMAIN before /\ ~ before[Target].arrayTable
  BY <1>1, <1>2, <1>3, NextComponent
<1>5. /\ Statements!Furthest(Statements!Front(header)) = x
      /\ Statements!ArrayOf(x, header) = Target
  BY <1>1, <1>2, LastKey
<1>6. ~ Statements!MayAppend(x, header)
  BY <1>3, <1>4, <1>5 DEF Statements!MayAppend
<1> PICK p : p = header
  OBVIOUS
<1> QED
  BY <1>1, <1>3, <1>5, <1>6, ConflictFollows

\* A [header] that names the table y, which was there and is not one that a longer header
\* implied, conflicts.
LEMMA DefinedConflicts ==
  ASSUME Shape(Told), NEW y \in Address, IsOpen(Told, y), OpenWay(Told, y),
         Told[y].definition # "implicit"
  PROVE  ~ Statements!MayOpen(Statements!Furthest(Names(y)), Names(y))
<1>1. Names(y) \in Seq(Keys) /\ <<>> \in Seq(Keys)
  BY NamesType
<1>2. Names(y) = Names(y) \o <<>>
  BY <1>1, ConcatEmptySeq
<1>3. Statements!Furthest(Names(y)) = y /\ Statements!Left(y, Names(y)) = <<>>
  BY <1>1, <1>2, EndOfWay
<1> QED
  BY <1>3 DEF Statements!MayOpen

LEMMA CannotOpenFollows ==
  ASSUME Known, CannotOpen
  PROVE  Follows
<1> DEFINE k == Head(path)
           n == before[Target]
<1>1. /\ Walking /\ Target \in DOMAIN tree /\ Conflict
      /\ ~ (IsOpenTable(Target) /\ (Terminal => MayDefine(Target)))
      /\ ~ (IsTableArray(Target) /\ ~ Terminal)
  BY DEF CannotOpen, Exists
<1>2. /\ doing \in {"open", "openArray"} /\ path # <<>> /\ (doing = "openArray" => Len(path) > 1)
  BY <1>1, WalkingPath DEF Walking
<1>3. PICK x \in Address, r \in Seq(Keys) : OnWay(x, r)
  BY <1>2 DEF Known, Opening
<1>4. /\ k \in Keys /\ Target \in DOMAIN before /\ tree = before /\ Target = Append(x, k)
      /\ Names(x) \o path = header /\ path \in Seq(Keys)
  BY <1>1, <1>2, <1>3, NextComponent DEF Known, Inv, CallTypes
<1>5. Told = before /\ Shape(before) /\ GoodTree(before) /\ header \in Paths
  BY <1>2, Seen DEF Known, Shapes, Shape, Opening
<1>6. IsOpen(before, x) /\ OpenWay(before, x)
  BY <1>3 DEF OnWay
<1> PICK p : p = header
  OBVIOUS
<1> HIDE DEF k
<1>7. ASSUME ~ OpenNode(n)
      PROVE  /\ doing = "open" => ~ Statements!MayOpen(Statements!Furthest(p), p)
             /\ doing = "openArray" =>
                  ~ Statements!MayAppend(Statements!Furthest(Statements!Front(p)), p)
  <2>1. ASSUME NEW q \in Seq(Keys), q # <<>>, Head(q) = k, NEW s, s = Names(x) \o q
        PROVE  Statements!Furthest(s) = x /\ ~ Statements!Free(x, s)
    <3>1. ~ (Append(x, Head(q)) \in DOMAIN Told /\ OpenNode(Told[Append(x, Head(q))]))
      BY <1>4, <1>5, <1>7, <2>1
    <3>2. Statements!Furthest(s) = x /\ Statements!Left(x, s) = q
      BY <1>5, <1>6, <2>1, <3>1, EndOfWay
    <3> QED
      BY <1>4, <1>5, <2>1, <3>2 DEF Statements!Free
  <2>2. Statements!Furthest(p) = x /\ ~ Statements!Free(x, p)
    BY <1>2, <1>4, <2>1 DEF k
  <2>3. CASE doing = "open"
    BY <2>2, <2>3 DEF Statements!MayOpen
  <2>4. CASE doing = "openArray"
    <3> DEFINE f == Statements!Front(path)
    <3>1. Names(x) \in Seq(Keys)
      BY NamesType
    <3>2. /\ f \in Seq(Keys) /\ Statements!Front(Names(x) \o path) = Names(x) \o f
          /\ f # <<>> /\ Head(f) = Head(path)
      BY <1>2, <1>4, <2>4, <3>1, FrontOfJoined
    <3>3. Statements!Front(p) = Names(x) \o f
      BY <1>4, <3>2
    <3> HIDE DEF f
    <3>4. /\ Statements!Furthest(Statements!Front(p)) = x
          /\ ~ Statements!Free(x, Statements!Front(p))
      BY <2>1, <3>2, <3>3 DEF k
    <3> QED
      BY <2>4, <3>4 DEF Statements!MayAppend
  <2> QED
    BY <1>2, <2>3, <2>4
<1>8. ASSUME OpenNode(n)
      PROVE  doing = "open" /\ ~ Statements!MayOpen(Statements!Furthest(p), p)
  <2>1. /\ OpenWay(before, Target) /\ Target \in Address
        /\ n.kind = "table" => IsOpen(before, Target)
        /\ n.arrayTable =>
             LET e == Append(Target, n.size)
             IN /\ IsOpen(before, e) /\ OpenWay(before, e) /\ e \in Address
                /\ before[e].definition = "array_element" /\ Names(e) = Names(Target)
        /\ Names(Target) = Append(Names(x), Head(path))
    BY <1>2, <1>3, <1>4, <1>8, WayEntered
  <2>2. n.kind = "table" => Terminal /\ n.definition # "implicit"
    BY <1>1, <1>4, <2>1 DEF IsOpenTable, IsOpen, Exists, MayDefine
  <2>3. n.arrayTable => Terminal
    <3> SUFFICES ASSUME n.arrayTable PROVE Terminal
      OBVIOUS
    <3>1. n.size # 0 /\ n.kind = "array"
      BY <1>4, <1>5, ArrayTableFields
    <3>2. before[Append(Target, n.size)].kind = "table"
      BY <2>1 DEF IsOpen
    <3> QED
      BY <1>1, <1>4, <3>1, <3>2 DEF IsTableArray, Exists, LastElement
  <2>4. n.kind = "table" \/ n.arrayTable
    BY <1>8 DEF OpenNode
  <2>5. Terminal
    BY <2>2, <2>3, <2>4
  <2>6. Names(Target) = p
    <3>1. Len(path) = 1
      BY <2>5 DEF Terminal
    <3>2. Tail(path) = <<>>
      <4>1. Tail(path) \in Seq(Keys) /\ Len(Tail(path)) = 0
        BY <1>2, <3>1, TargetFields DEF Known, Inv
      <4> QED
        BY <4>1, EmptySeq
    <3>3. Names(x) \in Address /\ Names(x) \in Seq(Keys)
      BY NamesType DEF Address
    <3>4. Append(Names(x), Head(path)) \o Tail(path) = Names(x) \o path
      BY <1>2, <1>4, <3>3, Onward
    <3>5. Append(Names(x), Head(path)) \in Seq(Keys)
      BY <1>4, <3>3 DEF k
    <3> QED
      BY <1>4, <2>1, <3>2, <3>4, <3>5, ConcatEmptySeq
  <2>7. doing = "open"
    BY <2>5 DEF Terminal
  <2>8. CASE n.kind = "table"
    <3> PICK y : y = Target
      OBVIOUS
    <3>1. /\ IsOpen(Told, y) /\ OpenWay(Told, y) /\ y \in Address
          /\ Told[y].definition # "implicit" /\ Names(y) = p /\ Shape(Told)
      BY <1>5, <2>1, <2>2, <2>6, <2>8
    <3>2. ~ Statements!MayOpen(Statements!Furthest(Names(y)), Names(y))
      BY <3>1, DefinedConflicts
    <3> QED
      BY <2>7, <3>1, <3>2
  <2>9. CASE n.arrayTable
    <3> PICK e : e = Append(Target, n.size)
      OBVIOUS
    <3>1. /\ IsOpen(Told, e) /\ OpenWay(Told, e) /\ e \in Address
          /\ Told[e].definition # "implicit" /\ Names(e) = p /\ Shape(Told)
      BY <1>5, <2>1, <2>6, <2>9
    <3>2. ~ Statements!MayOpen(Statements!Furthest(Names(e)), Names(e))
      BY <3>1, DefinedConflicts
    <3> QED
      BY <2>7, <3>1, <3>2
  <2> QED
    BY <2>4, <2>8, <2>9
<1>9. doing # "insert"
  BY <1>2
<1>10. /\ doing = "open" => ~ Statements!MayOpen(Statements!Furthest(p), p)
       /\ doing = "openArray" =>
            ~ Statements!MayAppend(Statements!Furthest(Statements!Front(p)), p)
  BY <1>7, <1>8
<1> HIDE DEF n
<1> QED
  BY <1>1, <1>2, <1>5, <1>9, <1>10, ConflictFollows

LEMMA StepFollows ==
  ASSUME Known, [Next]_vars
  PROVE  Known' /\ [Statements!Next]_(Statements!vars)
<1> SUFFICES Follows
  BY Step, HeadedStep DEF Known, Follows
<1>1. CASE UNCHANGED vars
  <2>1. UNCHANGED <<tree, current, doing, path, table, value, header, before>>
    BY <1>1 DEF vars, walkVars
  <2>2. Told' = Told /\ Outcome' = Outcome
    BY <2>1 DEF Told, Outcome
  <2>3. Shapes'
    BY <2>1, <2>2 DEF Known, Shapes
  <2>4. Assigning'
    BY <2>1 DEF Known, Assigning, AlongKey
  <2>5. Opening'
    BY <2>1 DEF Known, Opening, OnWay, Implied
  <2> QED
    BY <2>1, <2>2, <2>3, <2>4, <2>5, Quiet DEF Follows
<1>2. CASE Malformed \/ Finish
  BY <1>2, EndFollows DEF Malformed, Finish
<1>3. CASE CreateTable \/ EnterTable \/ EnterLastElement \/ Opened \/ AppendElement
  BY <1>3, CreateFollows, EnterFollows, LastElementFollows, OpenedFollows, AppendFollows
<1>4. CASE CannotOpen \/ CannotAppend \/ CannotInsert
  BY <1>4, CannotOpenFollows, CannotAppendFollows, CannotInsertFollows
<1>5. CASE WalkDotted \/ Insert
  BY <1>5, DottedFollows, InsertFollows
<1>6. ASSUME NEW p \in Paths, ParseHeader("open", p) \/ ParseHeader("openArray", p)
      PROVE  Follows
  BY <1>6, HeaderFollows
<1>7. ASSUME NEW p \in Paths, NEW v \in Values, ParseAssignment(p, v)
      PROVE  Follows
  BY <1>7, AssignmentFollows
<1> QED
  BY <1>1, <1>2, <1>3, <1>4, <1>5, <1>6, <1>7 DEF Next

LEMMA InitFollows ==
  ASSUME Init
  PROVE  Known /\ Statements!Init
<1>1. /\ tree = [x \in {<<>>} |-> Table("implicit")] /\ current = <<>> /\ doing = "idle"
      /\ header = <<>>
  BY DEF Init
<1>2. Told = tree /\ Outcome = <<"open", <<>>>>
  BY <1>1, Seen
<1>3. Inv /\ GoodTree(tree)
  BY Initially DEF Inv, TreeFits
<1>4. Headed
  BY <1>1, NoNames DEF Headed
<1>5. "implicit" \in Definitions
  BY DEF Definitions
<1>6. /\ DOMAIN tree = {<<>>} /\ tree[<<>>] = Table("implicit") /\ ~ tree[<<>>].inline
      /\ tree[<<>>].kind = "table" /\ tree[<<>>].definition = "implicit"
      /\ ~ tree[<<>>].arrayTable
  BY <1>1, <1>5, NewTable
<1>7. OpenTables(tree)
  <2>1. ASSUME NEW i \in 0 .. Len(<<>>) PROVE OpenNode(tree[SubSeq(<<>>, 1, i)])
    <3>1. Len(<<>>) = 0 /\ <<>> \in Address
      BY DEF Address
    <3>2. i = Len(<<>>)
      BY <3>1
    <3>3. SubSeq(<<>>, 1, i) = <<>>
      BY <3>1, <3>2, WholePrefix
    <3> QED
      BY <1>6, <3>3 DEF OpenNode
  <2> QED
    BY <1>6, <2>1 DEF OpenTables
<1>8. Elements(tree)
  BY <1>6 DEF Elements
<1>9. IsMap(tree)
  BY <1>1 DEF IsMap
<1>10. Shapes
  BY <1>2, <1>3, <1>7, <1>8, <1>9 DEF Shapes, Shape
<1>11. Opening /\ Assigning
  BY <1>1 DEF Opening, Assigning
<1>12. tree = Statements!Tables({<<>>}, "implicit")
  BY <1>1, SameNodes DEF Statements!Tables
<1>13. Statements!Init
  BY <1>1, <1>2, <1>12 DEF Statements!Init
<1> QED
  BY <1>3, <1>4, <1>10, <1>11, <1>13 DEF Known

\* Component by component the calls do what their statement says at once, for any keys,
\* paths, values and limits: a statement is accepted exactly when it does not conflict with
\* what has been said, adds all that it names, and otherwise nothing of it is seen.
THEOREM Refinement == Spec => Implements
<1>1. Init => Known /\ Statements!Init
  BY InitFollows
<1>2. Known /\ [Next]_vars => Known' /\ [Statements!Next]_(Statements!vars)
  BY StepFollows
<1> QED
  BY <1>1, <1>2, PTL DEF Spec, Implements, Statements!Spec
=============================================================================
