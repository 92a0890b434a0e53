-------------------------- MODULE TomlNodesProofs ---------------------------
(***************************************************************************)
(* What the operators on trees of nodes preserve: a node is put where its  *)
(* parent may hold it, or a content grafted there, and a tree is a tree.   *)
(***************************************************************************)
EXTENDS TomlNodes, SequenceTheorems, FiniteSetTheorems, TLAPS

\* All that leads to address x is in t and may hold it.
Leads(t, x) ==
  \A i \in 0 .. Len(x) - 1 : SubSeq(x, 1, i) \in DOMAIN t /\ MayHold(t[SubSeq(x, 1, i)], x[i + 1])

\* A tree in which the node at p may be missing.
IsTreeBut(t, p) ==
  /\ <<>> \in DOMAIN t
  /\ \A x \in DOMAIN t :
       /\ x \in Address /\ t[x] \in Node /\ Leads(t, x)
       /\ t[x].kind = "array" => \A i \in 1 .. t[x].size : Append(x, i) \in DOMAIN t \cup {p}

\* g has the nodes of t and, at and below p, those of c.
IsGraft(g, t, p, c) ==
  /\ \A z : z \in DOMAIN g <=> z \in DOMAIN t \/ \E y \in DOMAIN c : z = p \o y
  /\ \A x \in DOMAIN t : g[x] = t[x]
  /\ \A y \in DOMAIN c : g[p \o y] = c[y]

\* u has the nodes of t, of the same kinds, and no array of u is smaller.
Grows(t, u) ==
  /\ DOMAIN t \subseteq DOMAIN u
  /\ \A x \in DOMAIN t : t[x].kind = u[x].kind /\ t[x].size <= u[x].size

-----------------------------------------------------------------------------
(* Addresses.                                                              *)

LEMMA Prefix ==
  ASSUME NEW x \in Address, NEW i \in 0 .. Len(x)
  PROVE  /\ SubSeq(x, 1, i) \in Address /\ Len(SubSeq(x, 1, i)) = i
         /\ \A j \in 1 .. i : SubSeq(x, 1, i)[j] = x[j]
<1>1. x \in Seq(Keys \cup Nat) /\ Len(x) \in Nat
  BY DEF Address
<1>2. \A j \in 1 .. i : x[j] \in Keys \cup Nat
  BY <1>1
<1>3. /\ SubSeq(x, 1, i) \in Seq(Keys \cup Nat)
      /\ Len(SubSeq(x, 1, i)) = IF 1 <= i THEN i - 1 + 1 ELSE 0
      /\ \A j \in 1 .. i - 1 + 1 : SubSeq(x, 1, i)[j] = x[1 + j - 1]
  BY <1>1, <1>2, SubSeqProperties
<1>4. i - 1 + 1 = i /\ \A j \in 1 .. i : 1 + j - 1 = j
  BY <1>1
<1> HIDE DEF Address
<1>5. Len(SubSeq(x, 1, i)) = i
  BY <1>1, <1>3
<1>6. \A j \in 1 .. i : SubSeq(x, 1, i)[j] = x[j]
  BY <1>3, <1>4
<1> QED
  BY <1>3, <1>5, <1>6 DEF Address

LEMMA Same ==
  ASSUME NEW x \in Address, NEW y \in Address, Len(x) = Len(y),
         \A i \in 1 .. Len(x) : x[i] = y[i]
  PROVE  x = y
  BY SeqEqual DEF Address

LEMMA WholePrefix ==
  ASSUME NEW x \in Address
  PROVE  SubSeq(x, 1, Len(x)) = x
  BY SubSeqFull DEF Address

LEMMA Joined ==
  ASSUME NEW x \in Address, NEW y \in Address
  PROVE  /\ x \o y \in Address /\ Len(x \o y) = Len(x) + Len(y)
         /\ \A i \in 1 .. Len(x) + Len(y) :
              (x \o y)[i] = IF i <= Len(x) THEN x[i] ELSE y[i - Len(x)]
  BY ConcatProperties DEF Address

LEMMA AddressLength ==
  ASSUME NEW x \in Address
  PROVE  /\ Len(x) \in Nat /\ (Len(x) = 0 <=> x = <<>>)
         /\ \A i \in 1 .. Len(x) : x[i] \in Keys \cup Nat
  BY DEF Address

LEMMA Extended ==
  ASSUME NEW x \in Address, NEW k \in Keys \cup Nat
  PROVE  /\ Append(x, k) \in Address /\ Len(Append(x, k)) = Len(x) + 1
         /\ \A i \in 1 .. Len(x) : Append(x, k)[i] = x[i]
         /\ Append(x, k)[Len(x) + 1] = k
  BY AppendProperties DEF Address

\* What leads to an extended address.
LEMMA PrefixOfExtended ==
  ASSUME NEW x \in Address, NEW k \in Keys \cup Nat, NEW i \in 0 .. Len(x)
  PROVE  SubSeq(Append(x, k), 1, i) = SubSeq(x, 1, i)
<1>1. Len(x) \in Nat /\ Append(x, k) \in Address /\ Len(Append(x, k)) = Len(x) + 1
  BY AddressLength, Extended
<1>2. i \in 0 .. Len(Append(x, k))
  BY <1>1
<1>3. /\ SubSeq(x, 1, i) \in Address /\ Len(SubSeq(x, 1, i)) = i
      /\ \A j \in 1 .. i : SubSeq(x, 1, i)[j] = x[j]
  BY Prefix
<1>4. /\ SubSeq(Append(x, k), 1, i) \in Address /\ Len(SubSeq(Append(x, k), 1, i)) = i
      /\ \A j \in 1 .. i : SubSeq(Append(x, k), 1, i)[j] = Append(x, k)[j]
  BY <1>1, <1>2, Prefix
<1>5. \A j \in 1 .. i : Append(x, k)[j] = x[j]
  BY <1>1, Extended
<1> QED
  BY <1>3, <1>4, <1>5, Same

LEMMA ParentOfExtended ==
  ASSUME NEW x \in Address, NEW k \in Keys \cup Nat
  PROVE  SubSeq(Append(x, k), 1, Len(x)) = x
<1>1. Len(x) \in 0 .. Len(x)
  BY AddressLength
<1> QED
  BY <1>1, PrefixOfExtended, WholePrefix

\* What leads to a joined address.
LEMMA PrefixOfJoined ==
  ASSUME NEW x \in Address, NEW y \in Address, NEW i \in 0 .. Len(x) + Len(y)
  PROVE  SubSeq(x \o y, 1, i) =
           IF i <= Len(x) THEN SubSeq(x, 1, i) ELSE x \o SubSeq(y, 1, i - Len(x))
<1> DEFINE z == x \o y
<1>1. Len(x) \in Nat /\ Len(y) \in Nat
  BY AddressLength
<1>2. /\ z \in Address /\ Len(z) = Len(x) + Len(y)
      /\ \A j \in 1 .. Len(x) + Len(y) : z[j] = IF j <= Len(x) THEN x[j] ELSE y[j - Len(x)]
  BY Joined
<1> HIDE DEF z
<1>3. /\ SubSeq(z, 1, i) \in Address /\ Len(SubSeq(z, 1, i)) = i
      /\ \A j \in 1 .. i : SubSeq(z, 1, i)[j] = z[j]
  BY <1>2, Prefix
<1>4. CASE i <= Len(x)
  <2>1. i \in 0 .. Len(x)
    BY <1>1, <1>4
  <2>2. /\ SubSeq(x, 1, i) \in Address /\ Len(SubSeq(x, 1, i)) = i
        /\ \A j \in 1 .. i : SubSeq(x, 1, i)[j] = x[j]
    BY <2>1, Prefix
  <2>3. \A j \in 1 .. i : z[j] = x[j]
    BY <1>1, <1>2, <1>4
  <2>4. SubSeq(z, 1, i) = SubSeq(x, 1, i)
    BY <1>3, <2>2, <2>3, Same
  <2> QED
    BY <1>4, <2>4 DEF z
<1>5. CASE ~ (i <= Len(x))
  <2> DEFINE n == i - Len(x)
             q == SubSeq(y, 1, n)
             w == x \o q
  <2>1. n \in 0 .. Len(y) /\ Len(x) + n = i
    BY <1>1, <1>5
  <2> HIDE DEF n
  <2>2. q \in Address /\ Len(q) = n /\ \A j \in 1 .. n : q[j] = y[j]
    BY <2>1, Prefix
  <2> HIDE DEF q
  <2>3. /\ w \in Address /\ Len(w) = Len(x) + Len(q)
        /\ \A j \in 1 .. Len(x) + Len(q) : w[j] = IF j <= Len(x) THEN x[j] ELSE q[j - Len(x)]
    BY <2>2, Joined
  <2> HIDE DEF w
  <2>4. ASSUME NEW j \in 1 .. i PROVE w[j] = z[j]
    <3>1. CASE j <= Len(x)
      BY <1>1, <1>2, <2>1, <2>2, <2>3, <3>1
    <3>2. CASE ~ (j <= Len(x))
      <4>1. j - Len(x) \in 1 .. n
        BY <1>1, <2>1, <3>2
      <4>2. q[j - Len(x)] = y[j - Len(x)]
        BY <2>2, <4>1
      <4> QED
        BY <1>1, <1>2, <2>1, <2>2, <2>3, <3>2, <4>2
    <3> QED
      BY <3>1, <3>2
  <2>5. SubSeq(z, 1, i) = w
    BY <1>3, <2>1, <2>2, <2>3, <2>4, Same
  <2> QED
    BY <1>5, <2>5 DEF w, q, n, z
<1> QED
  BY <1>4, <1>5

LEMMA ExtendedJoined ==
  ASSUME NEW x \in Address, NEW y \in Address, NEW k \in Keys \cup Nat
  PROVE  Append(x \o y, k) = x \o Append(y, k)
<1>1. <<k>> \in Address
  BY DEF Address
<1>2. x \o y \in Address
  BY Joined
<1>3. Append(x \o y, k) = (x \o y) \o <<k>> /\ Append(y, k) = y \o <<k>>
  BY <1>2, AppendIsConcat DEF Address
<1> QED
  BY <1>1, <1>3, ConcatAssociative DEF Address

LEMMA RestOfJoined ==
  ASSUME NEW x \in Address, NEW y \in Address
  PROVE  SubSeq(x \o y, Len(x) + 1, Len(x \o y)) = y
<1> DEFINE z == x \o y
           r == SubSeq(z, Len(x) + 1, Len(z))
<1>1. Len(x) \in Nat /\ Len(y) \in Nat
  BY AddressLength
<1>2. /\ z \in Address /\ Len(z) = Len(x) + Len(y)
      /\ \A j \in 1 .. Len(x) + Len(y) : z[j] = IF j <= Len(x) THEN x[j] ELSE y[j - Len(x)]
  BY Joined
<1> HIDE DEF z
<1>3. \A i \in Len(x) + 1 .. Len(z) : z[i] \in Keys \cup Nat
  BY <1>1, <1>2, AddressLength
<1>4. /\ r \in Seq(Keys \cup Nat)
      /\ Len(r) = IF Len(x) + 1 <= Len(z) THEN Len(z) - (Len(x) + 1) + 1 ELSE 0
      /\ \A i \in 1 .. Len(z) - (Len(x) + 1) + 1 : r[i] = z[Len(x) + 1 + i - 1]
  BY <1>1, <1>2, <1>3, SubSeqProperties
<1> HIDE DEF r
<1>5. Len(z) - (Len(x) + 1) + 1 = Len(y) /\ Len(r) = Len(y)
  BY <1>1, <1>2, <1>4
<1>6. ASSUME NEW i \in 1 .. Len(r) PROVE r[i] = y[i]
  <2>1. Len(x) + 1 + i - 1 = Len(x) + i /\ (Len(x) + i) - Len(x) = i /\ ~ (Len(x) + i <= Len(x))
        /\ Len(x) + i \in 1 .. Len(x) + Len(y)
    BY <1>1, <1>5
  <2>2. r[i] = z[Len(x) + i]
    BY <1>4, <1>5, <2>1
  <2>3. z[Len(x) + i] = y[(Len(x) + i) - Len(x)]
    BY <1>2, <2>1
  <2> QED
    BY <2>1, <2>2, <2>3
<1>7. r \in Address
  BY <1>4 DEF Address
<1>8. r = y
  BY <1>5, <1>6, <1>7, Same
<1> QED
  BY <1>8 DEF r, z

-----------------------------------------------------------------------------
(* Trees.                                                                  *)

LEMMA NodeFields ==
  ASSUME NEW n \in Node
  PROVE  /\ n.kind \in {"table", "array", "leaf"} /\ n.inline \in BOOLEAN
         /\ n.arrayTable \in BOOLEAN /\ n.definition \in Definitions /\ n.size \in Nat
  BY DEF Node

LEMMA NewTable ==
  ASSUME NEW d \in Definitions
  PROVE  /\ Table(d) \in Node /\ Table(d).kind = "table" /\ Table(d).size = 0
         /\ Table(d).definition = d /\ ~ Table(d).inline /\ ~ Table(d).arrayTable
  BY DEF Table, Node, Definitions

LEMMA NewArray ==
  ASSUME NEW size \in Nat
  PROVE  /\ ArrayTable(size) \in Node /\ ArrayTable(size).kind = "array"
         /\ ArrayTable(size).size = size /\ ArrayTable(size).arrayTable
         /\ ArrayTable(size).definition = "implicit" /\ ~ ArrayTable(size).inline
  BY DEF ArrayTable, Node, Definitions

\* A tree is a tree in which nothing is missing.
LEMMA TreeNodes ==
  ASSUME NEW t
  PROVE  /\ IsTree(t) <=> \A p : IsTreeBut(t, p)
         /\ \A p \in DOMAIN t : IsTreeBut(t, p) => IsTree(t)
<1>1. ASSUME IsTree(t), NEW p PROVE IsTreeBut(t, p)
  BY <1>1 DEF IsTree, IsTreeBut, Leads
<1>2. ASSUME NEW p \in DOMAIN t, IsTreeBut(t, p) PROVE IsTree(t)
  BY <1>2 DEF IsTree, IsTreeBut, Leads
<1>3. ASSUME \A p : IsTreeBut(t, p) PROVE IsTree(t)
  <2>1. IsTreeBut(t, <<>>) /\ <<>> \in DOMAIN t
    BY <1>3 DEF IsTreeBut
  <2> QED
    BY <1>2, <2>1
<1> QED
  BY <1>1, <1>2, <1>3

LEMMA TreeFields ==
  ASSUME NEW t, IsTree(t), NEW x \in DOMAIN t
  PROVE  x \in Address /\ t[x] \in Node /\ Leads(t, x)
  BY DEF IsTree, Leads

\* All that leads to what is in t is there; arrays need not be complete.
Trodden(t) == \A x \in DOMAIN t : x \in Address /\ Leads(t, x)

LEMMA TreeTrodden ==
  ASSUME NEW t, IsTree(t)
  PROVE  Trodden(t)
  BY TreeFields DEF Trodden

LEMMA PrefixTrodden ==
  ASSUME NEW t, Trodden(t), NEW x \in DOMAIN t, NEW i \in 0 .. Len(x)
  PROVE  SubSeq(x, 1, i) \in DOMAIN t
<1>1. x \in Address /\ Len(x) \in Nat /\ Leads(t, x)
  BY AddressLength DEF Trodden
<1>2. CASE i = Len(x)
  BY <1>1, <1>2, WholePrefix
<1>3. CASE i # Len(x)
  <2>1. i \in 0 .. Len(x) - 1
    BY <1>1, <1>3
  <2> QED
    BY <1>1, <2>1 DEF Leads
<1> QED
  BY <1>2, <1>3

\* A prefix of an address of the tree is one.
LEMMA PrefixInTree ==
  ASSUME NEW t, IsTree(t), NEW x \in DOMAIN t, NEW i \in 0 .. Len(x)
  PROVE  SubSeq(x, 1, i) \in DOMAIN t
  BY TreeTrodden, PrefixTrodden

LEMMA HoldsStill ==
  ASSUME NEW n \in Node, NEW m \in Node, n.kind = m.kind, n.size <= m.size,
         NEW k \in Keys \cup Nat, MayHold(n, k)
  PROVE  MayHold(m, k)
<1>1. CASE k \in Keys
  BY <1>1 DEF MayHold
<1>2. CASE k \notin Keys
  BY <1>2, NodeFields DEF MayHold
<1> QED
  BY <1>1, <1>2

LEMMA LeadsStill ==
  ASSUME NEW t, NEW u, NEW x \in Address, Leads(t, x), Grows(t, u),
         \A y \in DOMAIN t : t[y] \in Node /\ u[y] \in Node
  PROVE  Leads(u, x)
<1> SUFFICES ASSUME NEW i \in 0 .. Len(x) - 1
             PROVE  SubSeq(x, 1, i) \in DOMAIN u /\ MayHold(u[SubSeq(x, 1, i)], x[i + 1])
  BY DEF Leads
<1> DEFINE y == SubSeq(x, 1, i)
<1>1. y \in DOMAIN t /\ MayHold(t[y], x[i + 1])
  BY DEF Leads
<1>2. x[i + 1] \in Keys \cup Nat
  BY AddressLength
<1> HIDE DEF y
<1>3. y \in DOMAIN u /\ t[y] \in Node /\ u[y] \in Node /\ t[y].kind = u[y].kind
      /\ t[y].size <= u[y].size
  BY <1>1 DEF Grows
<1>4. MayHold(u[y], x[i + 1])
  BY <1>1, <1>2, <1>3, HoldsStill
<1> QED
  BY <1>3, <1>4 DEF y

\* What leads to a child.
LEMMA LeadsToChild ==
  ASSUME NEW t, NEW x \in Address, NEW k \in Keys \cup Nat,
         Leads(t, x), x \in DOMAIN t, MayHold(t[x], k)
  PROVE  Leads(t, Append(x, k))
<1> DEFINE z == Append(x, k)
<1>1. Len(x) \in Nat /\ Len(z) = Len(x) + 1 /\ z[Len(x) + 1] = k
      /\ \A i \in 1 .. Len(x) : z[i] = x[i]
  BY AddressLength, Extended
<1>2. \A i \in 0 .. Len(x) : SubSeq(z, 1, i) = SubSeq(x, 1, i)
  BY PrefixOfExtended
<1> HIDE DEF z
<1>3. ASSUME NEW i \in 0 .. Len(z) - 1
      PROVE  SubSeq(z, 1, i) \in DOMAIN t /\ MayHold(t[SubSeq(z, 1, i)], z[i + 1])
  <2>1. CASE i < Len(x)
    <3>1. i \in 0 .. Len(x) - 1 /\ i \in 0 .. Len(x) /\ i + 1 \in 1 .. Len(x)
      BY <1>1, <2>1
    <3>2. SubSeq(z, 1, i) = SubSeq(x, 1, i) /\ z[i + 1] = x[i + 1]
      BY <1>1, <1>2, <3>1
    <3> QED
      BY <3>1, <3>2 DEF Leads
  <2>2. CASE i = Len(x)
    <3>1. SubSeq(z, 1, i) = x
      BY <1>1, <1>2, <2>2, WholePrefix
    <3> QED
      BY <1>1, <2>2, <3>1
  <2> QED
    BY <1>1, <2>1, <2>2
<1> QED
  BY <1>3 DEF Leads, z

\* A tree that has grown is one if what leads to the new nodes is there.
LEMMA Regrown ==
  ASSUME NEW t, NEW u, NEW q, NEW p, IsTreeBut(t, q), Grows(t, u),
         \A x \in DOMAIN u : x \in Address /\ u[x] \in Node,
         \A x \in DOMAIN u \ DOMAIN t : Leads(u, x),
         \A x \in DOMAIN u :
           u[x].kind = "array" => \A i \in 1 .. u[x].size : Append(x, i) \in DOMAIN u \cup {p}
  PROVE  IsTreeBut(u, p)
<1>1. <<>> \in DOMAIN u
  BY DEF IsTreeBut, Grows
<1>2. ASSUME NEW x \in DOMAIN t PROVE Leads(u, x)
  <2>1. x \in Address /\ Leads(t, x) /\ \A y \in DOMAIN t : t[y] \in Node /\ u[y] \in Node
    BY DEF IsTreeBut, Grows
  <2> QED
    BY <2>1, LeadsStill
<1>3. \A x \in DOMAIN u : Leads(u, x)
  BY <1>2
<1> QED
  BY <1>1, <1>3 DEF IsTreeBut

\* Nothing is below an address that is not in the tree.
LEMMA NothingBelow ==
  ASSUME NEW t, NEW q, IsTreeBut(t, q), NEW x \in Address, x \notin DOMAIN t, NEW y \in Address
  PROVE  x \o y \notin DOMAIN t
<1> SUFFICES ASSUME x \o y \in DOMAIN t PROVE FALSE
  OBVIOUS
<1>1. Len(x) \in Nat /\ Len(y) \in Nat /\ Len(x \o y) = Len(x) + Len(y)
  BY AddressLength, Joined
<1>2. SubSeq(x \o y, 1, Len(x)) = x
  <2>1. Len(x) \in 0 .. Len(x) + Len(y)
    BY <1>1
  <2> QED
    BY <1>1, <2>1, PrefixOfJoined, WholePrefix
<1>3. CASE Len(y) = 0
  <2>1. x \o y = x
    BY <1>1, <1>2, <1>3, Joined, WholePrefix
  <2> QED
    BY <2>1
<1>4. CASE Len(y) # 0
  <2>1. Len(x) \in 0 .. Len(x \o y) - 1
    BY <1>1, <1>4
  <2>2. Leads(t, x \o y)
    BY DEF IsTreeBut
  <2>3. SubSeq(x \o y, 1, Len(x)) \in DOMAIN t
    BY <2>1, <2>2 DEF Leads
  <2> QED
    BY <1>2, <2>3
<1> QED
  BY <1>3, <1>4

\* The nodes of a grafted tree.
LEMMA Grafted ==
  ASSUME NEW t, NEW q, IsTreeBut(t, q), NEW p \in Address, p \notin DOMAIN t,
         NEW c, \A y \in DOMAIN c : y \in Address
  PROVE  IsGraft(Graft(t, p, c), t, p, c)
<1> DEFINE below == {p \o y : y \in DOMAIN c}
           g == Graft(t, p, c)
<1>1. g = [y \in DOMAIN t \cup below |->
             IF y \in below THEN c[SubSeq(y, Len(p) + 1, Len(y))] ELSE t[y]]
  BY DEF Graft
<1>2. \A x \in DOMAIN t : x \notin below
  BY NothingBelow
<1>3. \A y \in DOMAIN c : SubSeq(p \o y, Len(p) + 1, Len(p \o y)) = y /\ p \o y \in below
  BY RestOfJoined
<1> HIDE DEF below, g
<1>4. \A x \in DOMAIN t : g[x] = t[x]
  BY <1>1, <1>2
<1>5. \A y \in DOMAIN c : g[p \o y] = c[y]
  BY <1>1, <1>3
<1>6. DOMAIN g = DOMAIN t \cup below
  BY <1>1
<1>7. \A z : z \in DOMAIN g <=> z \in DOMAIN t \/ \E y \in DOMAIN c : z = p \o y
  BY <1>6 DEF below
<1> QED
  BY <1>4, <1>5, <1>7 DEF IsGraft, g

LEMMA JoinedRoot ==
  ASSUME NEW p \in Address
  PROVE  p \o <<>> = p /\ <<>> \in Address
  BY ConcatEmptySeq DEF Address

\* What leads to a node of the content leads to it where that is grafted.
LEMMA LeadsToGrafted ==
  ASSUME NEW g, NEW c, NEW p \in Address, NEW y \in Address, Leads(g, p), Leads(c, y),
         \A z \in DOMAIN c : p \o z \in DOMAIN g /\ g[p \o z] = c[z]
  PROVE  Leads(g, p \o y)
<1> DEFINE w == p \o y
<1>1. /\ Len(p) \in Nat /\ Len(y) \in Nat /\ Len(w) = Len(p) + Len(y)
      /\ \A i \in 1 .. Len(p) + Len(y) : w[i] = IF i <= Len(p) THEN p[i] ELSE y[i - Len(p)]
  BY AddressLength, Joined
<1>2. \A i \in 0 .. Len(p) + Len(y) :
        SubSeq(w, 1, i) = IF i <= Len(p) THEN SubSeq(p, 1, i) ELSE p \o SubSeq(y, 1, i - Len(p))
  BY PrefixOfJoined
<1> HIDE DEF w
<1>3. ASSUME NEW i \in 0 .. Len(w) - 1
      PROVE  SubSeq(w, 1, i) \in DOMAIN g /\ MayHold(g[SubSeq(w, 1, i)], w[i + 1])
  <2>1. CASE i < Len(p)
    <3>1. /\ i \in 0 .. Len(p) - 1 /\ i \in 0 .. Len(p) + Len(y) /\ i <= Len(p)
          /\ i + 1 \in 1 .. Len(p) + Len(y) /\ i + 1 <= Len(p)
      BY <1>1, <2>1
    <3>2. SubSeq(w, 1, i) = SubSeq(p, 1, i) /\ w[i + 1] = p[i + 1]
      BY <1>1, <1>2, <3>1
    <3> QED
      BY <3>1, <3>2 DEF Leads
  <2>2. CASE ~ (i < Len(p))
    <3> DEFINE n == i - Len(p)
               z == SubSeq(y, 1, n)
    <3>1. /\ n \in 0 .. Len(y) - 1 /\ i \in 0 .. Len(p) + Len(y)
          /\ i + 1 \in 1 .. Len(p) + Len(y) /\ ~ (i + 1 <= Len(p)) /\ (i + 1) - Len(p) = n + 1
      BY <1>1, <2>2
    <3>2. z \in DOMAIN c /\ MayHold(c[z], y[n + 1])
      BY <3>1 DEF Leads
    <3>3. w[i + 1] = y[n + 1]
      BY <1>1, <3>1
    <3>4. SubSeq(w, 1, i) = p \o z
      <4>1. CASE i = Len(p)
        <5>1. n = 0 /\ i <= Len(p)
          BY <1>1, <4>1
        <5>2. z = <<>>
          BY <5>1, SubSeqEmpty
        <5>3. SubSeq(w, 1, i) = p
          BY <1>2, <3>1, <4>1, <5>1, WholePrefix
        <5> QED
          BY <5>2, <5>3, JoinedRoot
      <4>2. CASE i # Len(p)
        <5>1. ~ (i <= Len(p))
          BY <1>1, <2>2, <4>2
        <5> QED
          BY <1>2, <3>1, <5>1
      <4> QED
        BY <4>1, <4>2
    <3> HIDE DEF n, z
    <3>5. p \o z \in DOMAIN g /\ g[p \o z] = c[z]
      BY <3>2
    <3> QED
      BY <3>2, <3>3, <3>4, <3>5
  <2> QED
    BY <2>1, <2>2
<1> QED
  BY <1>3 DEF Leads, w

\* A content is grafted where a node may hold it and nothing is.
LEMMA GraftedTree ==
  ASSUME NEW t, NEW x \in DOMAIN t, NEW k \in Keys \cup Nat,
         IsTreeBut(t, Append(x, k)), MayHold(t[x], k), Append(x, k) \notin DOMAIN t,
         NEW c, IsTree(c)
  PROVE  IsTree(Graft(t, Append(x, k), c)) /\ Grows(t, Graft(t, Append(x, k), c))
<1> DEFINE p == Append(x, k)
           g == Graft(t, p, c)
<1>1. x \in Address /\ Leads(t, x) /\ \A y \in DOMAIN t : y \in Address /\ t[y] \in Node
  BY DEF IsTreeBut
<1>2. p \in Address
  BY <1>1, Extended
<1>3. \A y \in DOMAIN c : y \in Address /\ c[y] \in Node /\ Leads(c, y)
  BY DEF IsTree, Leads
<1>4. Leads(t, p)
  BY <1>1, LeadsToChild
<1>5. IsTreeBut(t, p) /\ p \notin DOMAIN t
  OBVIOUS
<1> HIDE DEF p
<1>6. /\ \A z : z \in DOMAIN g <=> z \in DOMAIN t \/ \E y \in DOMAIN c : z = p \o y
      /\ \A y \in DOMAIN t : g[y] = t[y]
      /\ \A y \in DOMAIN c : g[p \o y] = c[y]
  <2>1. \A y \in DOMAIN c : y \in Address
    BY <1>3
  <2>2. IsGraft(g, t, p, c)
    BY <1>2, <1>5, <2>1, Grafted
  <2> HIDE DEF g
  <2> QED
    BY <2>2 DEF IsGraft
<1> HIDE DEF g
<1>7. Grows(t, g)
  BY <1>1, <1>6, NodeFields DEF Grows
<1>8. \A y \in DOMAIN c : p \o y \in DOMAIN g /\ p \o y \in Address
  BY <1>2, <1>3, <1>6, Joined
<1>9. \A y \in DOMAIN g : y \in Address /\ g[y] \in Node
  <2>1. \A y \in DOMAIN t : y \in Address /\ g[y] \in Node
    BY <1>1, <1>6
  <2>2. \A y \in DOMAIN c : p \o y \in Address /\ g[p \o y] \in Node
    BY <1>3, <1>6, <1>8
  <2> QED
    BY <1>6, <2>1, <2>2
<1>10. ASSUME NEW z \in DOMAIN g \ DOMAIN t PROVE Leads(g, z)
  <2>1. PICK y \in DOMAIN c : z = p \o y
    BY <1>6
  <2>2. Leads(g, p)
    BY <1>1, <1>2, <1>4, <1>6, <1>7, <1>9, LeadsStill
  <2> QED
    BY <1>2, <1>3, <1>6, <1>8, <2>1, <2>2, LeadsToGrafted
<1>11. p \in DOMAIN g
  BY <1>2, <1>6, JoinedRoot DEF IsTree
<1>12. ASSUME NEW z \in DOMAIN g, g[z].kind = "array", NEW i \in 1 .. g[z].size
       PROVE  Append(z, i) \in DOMAIN g \cup {p}
  <2>1. CASE z \in DOMAIN t
    BY <1>5, <1>6, <1>12, <2>1 DEF IsTreeBut
  <2>2. CASE z \notin DOMAIN t
    <3>1. PICK y \in DOMAIN c : z = p \o y
      BY <1>6, <2>2
    <3>2. c[y].kind = "array" /\ i \in 1 .. c[y].size
      BY <1>6, <1>12, <3>1
    <3>3. Append(y, i) \in DOMAIN c
      BY <3>2 DEF IsTree
    <3>4. c[y].size \in Nat
      BY <1>3, NodeFields
    <3>5. i \in Keys \cup Nat
      BY <3>2, <3>4
    <3>6. Append(p \o y, i) = p \o Append(y, i)
      BY <1>2, <1>3, <3>5, ExtendedJoined
    <3> QED
      BY <1>6, <3>1, <3>3, <3>6
  <2> QED
    BY <2>1, <2>2
<1>13. IsTreeBut(g, p)
  BY <1>5, <1>7, <1>9, <1>10, <1>12, Regrown
<1>14. IsTree(g)
  BY <1>11, <1>13, TreeNodes
<1> QED
  BY <1>7, <1>14 DEF g, p

\* A node without elements is put where a node may hold it and nothing is.
LEMMA PutTree ==
  ASSUME NEW t, NEW x \in DOMAIN t, NEW k \in Keys \cup Nat,
         IsTreeBut(t, Append(x, k)), MayHold(t[x], k), Append(x, k) \notin DOMAIN t,
         NEW n \in Node, n.kind = "array" => n.size = 0
  PROVE  /\ IsTree(Put(t, Append(x, k), n)) /\ Grows(t, Put(t, Append(x, k), n))
<1> DEFINE p == Append(x, k)
           u == Put(t, p, n)
<1>1. x \in Address /\ Leads(t, x) /\ \A y \in DOMAIN t : y \in Address /\ t[y] \in Node
  BY DEF IsTreeBut
<1>2. p \in Address /\ Leads(t, p)
  BY <1>1, Extended, LeadsToChild
<1>3. IsTreeBut(t, p) /\ p \notin DOMAIN t
  OBVIOUS
<1> HIDE DEF p
<1>4. DOMAIN u = DOMAIN t \cup {p} /\ u[p] = n /\ \A y \in DOMAIN t : u[y] = t[y]
  BY <1>3 DEF Put
<1> HIDE DEF u
<1>5. Grows(t, u)
  BY <1>1, <1>4, NodeFields DEF Grows
<1>6. \A y \in DOMAIN u : y \in Address /\ u[y] \in Node
  BY <1>1, <1>2, <1>4
<1>7. Leads(u, p)
  BY <1>1, <1>2, <1>4, <1>5, <1>6, LeadsStill
<1>8. ASSUME NEW y \in DOMAIN u, u[y].kind = "array", NEW i \in 1 .. u[y].size
      PROVE  Append(y, i) \in DOMAIN u \cup {p}
  <2>1. CASE y = p
    BY <1>4, <1>8, <2>1
  <2>2. CASE y # p
    BY <1>3, <1>4, <1>8, <2>2 DEF IsTreeBut
  <2> QED
    BY <2>1, <2>2
<1>9. IsTreeBut(u, p)
  BY <1>3, <1>4, <1>5, <1>6, <1>7, <1>8, Regrown
<1>10. IsTree(u)
  BY <1>4, <1>9, TreeNodes
<1> QED
  BY <1>5, <1>10 DEF u, p
-----------------------------------------------------------------------------
(* The keys of an address.                                                 *)

\* Every set of natural numbers that is not empty has a least one.
LEMMA Least ==
  ASSUME NEW S, S \subseteq Nat, S # {}
  PROVE  \E i \in S : \A j \in S : i <= j
<1> DEFINE Less == {p \in Nat \X Nat : p[1] < p[2]}
<1>1. IsWellFoundedOn(Less, Nat)
  BY NatLessThanWellFounded DEF OpToRel
<1>2. \A i, j \in Nat : <<j, i>> \in Less <=> j < i
  OBVIOUS
<1> HIDE DEF Less
<1>3. PICK i \in S : \A j \in S : ~ (<<j, i>> \in Less)
  BY <1>1, WFMin
<1>4. i \in Nat /\ \A j \in S : j \in Nat /\ ~ (j < i)
  BY <1>2, <1>3
<1>5. \A j \in S : i <= j
  BY <1>4
<1> QED
  BY <1>5

Count(x, i) == Cardinality(KeysTo(x, i))

LEMMA CountType ==
  ASSUME NEW x, NEW i \in Nat
  PROVE  /\ IsFiniteSet(KeysTo(x, i)) /\ Count(x, i) \in Nat
         /\ KeysTo(x, i) \subseteq 1 .. i
<1>1. IsFiniteSet(1 .. i)
  BY FS_Interval
<1>2. KeysTo(x, i) \subseteq 1 .. i
  BY DEF KeysTo
<1>3. IsFiniteSet(KeysTo(x, i))
  BY <1>1, <1>2, FS_Subset
<1> QED
  BY <1>2, <1>3, FS_CardinalityType DEF Count

LEMMA CountNext ==
  ASSUME NEW x, NEW i \in Nat \ {0}
  PROVE  Count(x, i) = IF x[i] \in Keys THEN Count(x, i - 1) + 1 ELSE Count(x, i - 1)
<1>1. i - 1 \in Nat /\ i \in 1 .. i /\ i \notin 1 .. i - 1 /\ 1 .. i = 1 .. i - 1 \cup {i}
  OBVIOUS
<1>2. IsFiniteSet(KeysTo(x, i - 1)) /\ i \notin KeysTo(x, i - 1)
  BY <1>1, CountType DEF KeysTo
<1>3. CASE x[i] \in Keys
  <2>1. KeysTo(x, i) = KeysTo(x, i - 1) \cup {i}
    BY <1>1, <1>3 DEF KeysTo
  <2>2. Cardinality(KeysTo(x, i - 1) \cup {i}) = Cardinality(KeysTo(x, i - 1)) + 1
    BY <1>2, FS_AddElement
  <2> QED
    BY <1>3, <2>1, <2>2 DEF Count
<1>4. CASE x[i] \notin Keys
  <2>1. KeysTo(x, i) = KeysTo(x, i - 1)
    BY <1>1, <1>4 DEF KeysTo
  <2> QED
    BY <1>4, <2>1 DEF Count
<1> QED
  BY <1>3, <1>4

LEMMA CountGrows ==
  ASSUME NEW x, NEW i \in Nat, NEW j \in Nat, i <= j
  PROVE  Count(x, i) <= Count(x, j)
<1>1. KeysTo(x, i) \subseteq KeysTo(x, j)
  BY DEF KeysTo
<1>2. IsFiniteSet(KeysTo(x, j))
  BY CountType
<1> QED
  BY <1>1, <1>2, FS_Subset DEF Count

LEMMA CountSame ==
  ASSUME NEW x, NEW y, NEW i \in Nat, \A j \in 1 .. i : x[j] = y[j]
  PROVE  Count(x, i) = Count(y, i)
<1>1. KeysTo(x, i) = KeysTo(y, i)
  BY DEF KeysTo
<1> QED
  BY <1>1 DEF Count

\* The key at position i is the name that the number of keys up to there says.
LEMMA NameOf ==
  ASSUME NEW x \in Address, NEW i \in 1 .. Len(x), x[i] \in Keys
  PROVE  /\ Count(x, i) \in 1 .. Count(x, Len(x)) /\ Count(x, i) = Count(x, i - 1) + 1
         /\ Names(x)[Count(x, i)] = x[i]
<1>1. Len(x) \in Nat /\ i \in Nat \ {0} /\ i - 1 \in Nat /\ i <= Len(x)
  BY AddressLength
<1>2. Count(x, i) = Count(x, i - 1) + 1 /\ Count(x, i - 1) \in Nat /\ Count(x, Len(x)) \in Nat
  BY <1>1, CountNext, CountType
<1>3. Count(x, i) \in 1 .. Count(x, Len(x))
  BY <1>1, <1>2, CountGrows
<1>4. i \in KeysTo(x, Len(x))
  BY <1>1 DEF KeysTo
<1>5. ASSUME NEW j \in KeysTo(x, Len(x)), Count(x, j) = Count(x, i) PROVE j = i
  <2>1. j \in Nat \ {0} /\ j - 1 \in Nat /\ x[j] \in Keys
    BY <1>1 DEF KeysTo
  <2>2. Count(x, j) = Count(x, j - 1) + 1 /\ Count(x, j - 1) \in Nat
    BY <2>1, CountNext, CountType
  <2>3. CASE j < i
    <3>1. j <= i - 1
      BY <1>1, <2>1, <2>3
    <3>2. Count(x, j) <= Count(x, i - 1)
      BY <1>1, <2>1, <3>1, CountGrows
    <3> QED
      BY <1>2, <1>5, <3>2
  <2>4. CASE i < j
    <3>1. i <= j - 1
      BY <1>1, <2>1, <2>4
    <3>2. Count(x, i) <= Count(x, j - 1)
      BY <1>1, <2>1, <3>1, CountGrows
    <3> QED
      BY <1>2, <1>5, <2>2, <3>2
  <2> QED
    BY <1>1, <2>1, <2>3, <2>4
<1>6. (CHOOSE j \in KeysTo(x, Len(x)) : Count(x, j) = Count(x, i)) = i
  BY <1>4, <1>5
<1>7. Names(x)[Count(x, i)] = x[CHOOSE j \in KeysTo(x, Len(x)) : Count(x, j) = Count(x, i)]
  BY <1>3 DEF Names, Count
<1> QED
  BY <1>2, <1>3, <1>6, <1>7

\* Every name is that of a key.
LEMMA KeyOf ==
  ASSUME NEW x \in Address, NEW k \in 1 .. Count(x, Len(x))
  PROVE  \E i \in 1 .. Len(x) : x[i] \in Keys /\ Count(x, i) = k
<1> DEFINE S == {i \in Nat : k <= Count(x, i)}
<1>1. Len(x) \in Nat /\ Count(x, Len(x)) \in Nat /\ k \in Nat \ {0}
  BY AddressLength, CountType
<1>2. Len(x) \in S /\ S \subseteq Nat
  BY <1>1
<1>3. PICK i \in S : \A j \in S : i <= j
  BY <1>2, Least
<1>4. i \in Nat /\ k <= Count(x, i) /\ i <= Len(x) /\ Count(x, i) \in Nat
  BY <1>2, <1>3, CountType
<1>5. Count(x, 0) = 0
  <2>1. KeysTo(x, 0) = {}
    BY DEF KeysTo
  <2> QED
    BY <2>1, FS_EmptySet DEF Count
<1>6. i # 0
  BY <1>1, <1>4, <1>5
<1>7. i - 1 \in Nat /\ i - 1 \notin S /\ Count(x, i - 1) \in Nat
  <2>1. i - 1 \in Nat /\ ~ (i <= i - 1)
    BY <1>4, <1>6
  <2> QED
    BY <1>3, <2>1, CountType
<1>8. Count(x, i - 1) < k
  BY <1>1, <1>7
<1>9. Count(x, i) = IF x[i] \in Keys THEN Count(x, i - 1) + 1 ELSE Count(x, i - 1)
  BY <1>4, <1>6, CountNext
<1>10. x[i] \in Keys /\ Count(x, i) = k
  BY <1>1, <1>4, <1>7, <1>8, <1>9
<1> QED
  BY <1>1, <1>4, <1>6, <1>10

LEMMA NamesType ==
  ASSUME NEW x \in Address
  PROVE  Names(x) \in Seq(Keys) /\ Len(Names(x)) = Count(x, Len(x))
<1> DEFINE n == Count(x, Len(x))
           Key(k) == x[CHOOSE i \in KeysTo(x, Len(x)) : Cardinality(KeysTo(x, i)) = k]
<1>1. n \in Nat
  BY AddressLength, CountType
<1>2. Names(x) = [k \in 1 .. n |-> Key(k)]
  BY DEF Names, Count
<1>3. ASSUME NEW k \in 1 .. n PROVE Names(x)[k] \in Keys
  <2>1. PICK i \in 1 .. Len(x) : x[i] \in Keys /\ Count(x, i) = k
    BY KeyOf
  <2> QED
    BY <2>1, NameOf
<1> HIDE DEF n, Key
<1>4. \A k \in 1 .. n : Key(k) \in Keys
  BY <1>2, <1>3
<1>5. Names(x) \in [1 .. n -> Keys]
  BY <1>2, <1>4
<1>6. Names(x) \in Seq(Keys) /\ Len(Names(x)) = n
  BY <1>1, <1>5
<1> QED
  BY <1>6 DEF n

LEMMA NoNames == Names(<<>>) = <<>>
<1>1. <<>> \in Address /\ Len(<<>>) = 0
  BY DEF Address
<1>2. KeysTo(<<>>, 0) = {}
  BY DEF KeysTo
<1>3. Count(<<>>, 0) = 0
  BY <1>2, FS_EmptySet DEF Count
<1> QED
  BY <1>1, <1>3, NamesType

LEMMA NamesExtended ==
  ASSUME NEW x \in Address, NEW k \in Keys \cup Nat
  PROVE  Names(Append(x, k)) = IF k \in Keys THEN Append(Names(x), k) ELSE Names(x)
<1> DEFINE y == Append(x, k)
           n == Len(x)
<1>1. /\ y \in Address /\ n \in Nat /\ Len(y) = n + 1 /\ y[n + 1] = k
      /\ \A i \in 1 .. n : y[i] = x[i]
  BY AddressLength, Extended
<1> HIDE DEF y
<1>2. \A i \in 0 .. n : Count(y, i) = Count(x, i)
  BY <1>1, CountSame
<1>3. /\ Names(x) \in Seq(Keys) /\ Len(Names(x)) = Count(x, n)
      /\ Names(y) \in Seq(Keys) /\ Len(Names(y)) = Count(y, n + 1)
      /\ Count(x, n) \in Nat
  BY <1>1, NamesType, CountType
<1>4. Count(y, n + 1) = IF k \in Keys THEN Count(x, n) + 1 ELSE Count(x, n)
  BY <1>1, <1>2, CountNext
<1>5. ASSUME NEW c \in 1 .. Count(x, n) PROVE Names(y)[c] = Names(x)[c]
  <2>1. PICK i \in 1 .. n : x[i] \in Keys /\ Count(x, i) = c
    BY KeyOf
  <2>2. i \in 1 .. Len(y) /\ i \in 0 .. n /\ y[i] = x[i]
    BY <1>1
  <2>3. Count(y, i) = c
    BY <1>2, <2>1, <2>2
  <2>4. Names(x)[c] = x[i]
    BY <2>1, NameOf
  <2>5. Names(y)[c] = y[i]
    BY <1>1, <2>1, <2>2, <2>3, NameOf
  <2> QED
    BY <2>2, <2>4, <2>5
<1>6. CASE k \in Keys
  <2>1. Names(y)[Count(x, n) + 1] = k
    <3>1. n + 1 \in 1 .. Len(y) /\ y[n + 1] \in Keys
      BY <1>1, <1>6
    <3>2. Names(y)[Count(y, n + 1)] = y[n + 1]
      BY <1>1, <3>1, NameOf
    <3> QED
      BY <1>1, <1>4, <1>6, <3>2
  <2> DEFINE s == Names(x)
             r == Names(y)
  <2>2. /\ s \in Seq(Keys) /\ r \in Seq(Keys) /\ Len(r) = Len(s) + 1
        /\ r[Len(s) + 1] = k /\ \A c \in 1 .. Len(s) : r[c] = s[c]
    BY <1>3, <1>4, <1>5, <1>6, <2>1
  <2> HIDE DEF s, r
  <2>3. r = Append(s, k)
    BY <1>6, <2>2
  <2> QED
    BY <1>6, <2>3 DEF s, r, y
<1>7. CASE k \notin Keys
  <2> DEFINE s == Names(x)
             r == Names(y)
  <2>2. /\ s \in Seq(Keys) /\ r \in Seq(Keys) /\ Len(r) = Len(s)
        /\ \A c \in 1 .. Len(s) : r[c] = s[c]
    BY <1>3, <1>4, <1>5, <1>7
  <2> HIDE DEF s, r
  <2>3. r = s
    BY <2>2
  <2> QED
    BY <1>7, <2>3 DEF s, r, y
<1> QED
  BY <1>6, <1>7
-----------------------------------------------------------------------------
(* The one way along a path.                                               *)

\* A table that may be added to.
IsOpen(t, x) == x \in DOMAIN t /\ t[x].kind = "table" /\ ~ t[x].inline

\* The names of x are the first keys of p.
Begins(s, p) == Len(s) <= Len(p) /\ \A i \in 1 .. Len(s) : s[i] = p[i]

\* x is an open table on the way of p from the root.
OnTheWay(t, x, p) == IsOpen(t, x) /\ Latest(t, x) /\ Begins(Names(x), p)

\* A path begins with another when that is a prefix of it.
LEMMA SamePrefix ==
  ASSUME NEW s \in Seq(Keys), NEW p \in Seq(Keys)
  PROVE  Len(s) <= Len(p) /\ SubSeq(s, 1, Len(s)) = SubSeq(p, 1, Len(s)) <=> Begins(s, p)
<1>1. Len(s) \in Nat /\ Len(p) \in Nat /\ s \in Address /\ p \in Address
  BY DEF Address
<1> DEFINE q == SubSeq(p, 1, Len(s))
<1>2. SubSeq(s, 1, Len(s)) = s
  BY <1>1, WholePrefix
<1>3. ASSUME Len(s) <= Len(p) PROVE s = q <=> \A i \in 1 .. Len(s) : s[i] = p[i]
  <2>1. Len(s) \in 0 .. Len(p)
    BY <1>1, <1>3
  <2>2. q \in Address /\ Len(q) = Len(s) /\ \A i \in 1 .. Len(s) : q[i] = p[i]
    BY <1>1, <2>1, Prefix
  <2> HIDE DEF q
  <2> QED
    BY <1>1, <2>2, Same
<1> QED
  BY <1>2, <1>3 DEF Begins

\* What follows a table on a way is the next key of the path, what follows an array the
\* number of its last element.
LEMMA NextOnWay ==
  ASSUME NEW t, Trodden(t), NEW x, NEW p, OnTheWay(t, x, p), NEW i \in 1 .. Len(x)
  PROVE  LET y == SubSeq(x, 1, i - 1)
             n == Count(x, i - 1) + 1
         IN /\ y \in DOMAIN t
            /\ t[y].kind = "table" => x[i] \in Keys /\ n <= Len(p) /\ x[i] = p[n]
            /\ t[y].kind # "table" => x[i] = t[y].size
<1> DEFINE y == SubSeq(x, 1, i - 1)
           n == Count(x, i - 1) + 1
<1>1. x \in Address /\ Len(x) \in Nat /\ Leads(t, x) /\ x \in DOMAIN t
  BY AddressLength DEF OnTheWay, IsOpen, Trodden
<1>2. i - 1 \in 0 .. Len(x) - 1 /\ i - 1 + 1 = i
  BY <1>1
<1>3. y \in DOMAIN t /\ MayHold(t[y], x[i])
  BY <1>1, <1>2 DEF Leads
<1>4. x[i] \in Keys \cup Nat /\ (x[i] \in Nat => x[i] = t[y].size)
  BY <1>1, AddressLength DEF OnTheWay, Latest
<1> HIDE DEF y
<1>5. ASSUME t[y].kind = "table" PROVE x[i] \in Keys /\ n <= Len(p) /\ x[i] = p[n]
  <2>1. x[i] \in Keys
    BY <1>3, <1>5 DEF MayHold
  <2>2. Count(x, i) \in 1 .. Count(x, Len(x)) /\ Count(x, i) = n /\ Names(x)[Count(x, i)] = x[i]
    BY <1>1, <2>1, NameOf
  <2>3. Len(Names(x)) = Count(x, Len(x)) /\ Len(Names(x)) <= Len(p)
    BY <1>1, NamesType DEF OnTheWay, Begins
  <2>4. Names(x)[n] = p[n]
    BY <2>2, <2>3 DEF OnTheWay, Begins
  <2> QED
    BY <2>1, <2>2, <2>3, <2>4
<1>6. ASSUME t[y].kind # "table" PROVE x[i] = t[y].size
  <2>1. x[i] \notin Keys
    BY <1>3, <1>6 DEF MayHold
  <2> QED
    BY <1>4, <2>1
<1> QED
  BY <1>3, <1>5, <1>6 DEF y

LEMMA SameWay ==
  ASSUME NEW t, Trodden(t), NEW p \in Seq(Keys), NEW x, NEW y, OnTheWay(t, x, p), OnTheWay(t, y, p),
         Len(x) <= Len(y)
  PROVE  SubSeq(y, 1, Len(x)) = x
<1> DEFINE Differ == {i \in Nat : i \in 1 .. Len(x) /\ x[i] # y[i]}
<1>1. x \in Address /\ y \in Address /\ Len(x) \in Nat /\ Len(y) \in Nat
  BY AddressLength DEF OnTheWay, IsOpen, Trodden
<1>2. Differ = {}
  <2> SUFFICES ASSUME Differ # {} PROVE FALSE
    OBVIOUS
  <2>1. PICK i \in Differ : \A j \in Differ : i <= j
    <3>1. Differ \subseteq Nat
      OBVIOUS
    <3> QED
      BY <3>1, Least
  <2>2. i \in 1 .. Len(x) /\ i \in 1 .. Len(y) /\ x[i] # y[i] /\ i - 1 \in Nat
        /\ i - 1 \in 0 .. Len(x) /\ i - 1 \in 0 .. Len(y)
    BY <1>1
  <2>3. ASSUME NEW j \in 1 .. i - 1 PROVE x[j] = y[j]
    <3>1. j \in Nat /\ j \in 1 .. Len(x) /\ ~ (i <= j)
      BY <1>1, <2>2
    <3> QED
      BY <2>1, <3>1
  <2>4. Count(x, i - 1) = Count(y, i - 1)
    BY <2>2, <2>3, CountSame
  <2> DEFINE a == SubSeq(x, 1, i - 1)
             b == SubSeq(y, 1, i - 1)
  <2>5. a = b
    <3>1. /\ a \in Address /\ Len(a) = i - 1 /\ \A j \in 1 .. i - 1 : a[j] = x[j]
          /\ b \in Address /\ Len(b) = i - 1 /\ \A j \in 1 .. i - 1 : b[j] = y[j]
      BY <1>1, <2>2, Prefix
    <3> HIDE DEF a, b
    <3> QED
      BY <2>3, <3>1, Same
  <2>6. /\ t[a].kind = "table" => x[i] = p[Count(x, i - 1) + 1]
        /\ t[a].kind # "table" => x[i] = t[a].size
    BY <2>2, NextOnWay
  <2>7. /\ t[b].kind = "table" => y[i] = p[Count(y, i - 1) + 1]
        /\ t[b].kind # "table" => y[i] = t[b].size
    BY <2>2, NextOnWay
  <2> QED
    BY <2>2, <2>4, <2>5, <2>6, <2>7
<1>3. \A i \in 1 .. Len(x) : x[i] = y[i]
  BY <1>1, <1>2
<1>4. Len(x) \in 0 .. Len(y)
  BY <1>1
<1>5. /\ SubSeq(y, 1, Len(x)) \in Address /\ Len(SubSeq(y, 1, Len(x))) = Len(x)
      /\ \A i \in 1 .. Len(x) : SubSeq(y, 1, Len(x))[i] = y[i]
  BY <1>1, <1>4, Prefix
<1> QED
  BY <1>1, <1>3, <1>5, Same

LEMMA GoesOn ==
  ASSUME NEW t, Trodden(t), NEW p \in Seq(Keys), NEW x, NEW y, OnTheWay(t, x, p), OnTheWay(t, y, p),
         Len(x) < Len(y)
  PROVE  LET n == Len(Names(x))
         IN /\ n < Len(Names(y)) /\ n < Len(p) /\ p[n + 1] \in Keys
            /\ Append(x, p[n + 1]) = SubSeq(y, 1, Len(x) + 1)
<1> DEFINE n == Len(Names(x))
           i == Len(x) + 1
<1>1. /\ x \in Address /\ y \in Address /\ Len(x) \in Nat /\ Len(y) \in Nat
      /\ y \in DOMAIN t /\ t[x].kind = "table"
  BY AddressLength DEF OnTheWay, IsOpen, Trodden
<1>2. i \in 1 .. Len(y) /\ i - 1 = Len(x) /\ i \in 0 .. Len(y) /\ Len(x) \in 0 .. Len(y)
  BY <1>1
<1>3. SubSeq(y, 1, Len(x)) = x
  BY <1>1, SameWay
<1>4. \A j \in 1 .. Len(x) : x[j] = y[j]
  BY <1>1, <1>2, <1>3, Prefix
<1>5. n = Count(x, Len(x)) /\ n \in Nat /\ Count(y, Len(x)) = n
  <2>1. Count(x, Len(x)) = Count(y, Len(x))
    BY <1>1, <1>4, CountSame
  <2> QED
    BY <1>1, <2>1, NamesType, CountType
<1> HIDE DEF n, i
<1>6. y[i] \in Keys /\ n + 1 <= Len(p) /\ y[i] = p[n + 1]
  <2>1. LET a == SubSeq(y, 1, i - 1)
        IN t[a].kind = "table" =>
             y[i] \in Keys /\ Count(y, i - 1) + 1 <= Len(p) /\ y[i] = p[Count(y, i - 1) + 1]
    BY <1>2, NextOnWay
  <2> QED
    BY <1>1, <1>2, <1>3, <1>5, <2>1
<1>7. n < Len(Names(y))
  <2>1. Count(y, i) \in 1 .. Count(y, Len(y)) /\ Count(y, i) = Count(y, i - 1) + 1
    BY <1>1, <1>2, <1>6, NameOf
  <2>2. Len(Names(y)) = Count(y, Len(y)) /\ Count(y, Len(y)) \in Nat
    BY <1>1, NamesType, CountType
  <2> QED
    BY <1>2, <1>5, <2>1, <2>2
<1>8. SubSeq(y, 1, i) = Append(x, y[i])
  <2> DEFINE a == SubSeq(y, 1, i)
             b == Append(x, y[i])
  <2>1. /\ a \in Address /\ Len(a) = i /\ \A j \in 1 .. i : a[j] = y[j]
    BY <1>1, <1>2, Prefix
  <2>2. /\ b \in Address /\ Len(b) = i /\ \A j \in 1 .. Len(x) : b[j] = x[j]
        /\ b[i] = y[i]
    BY <1>1, <1>6, Extended DEF i
  <2> HIDE DEF a, b
  <2>3. \A j \in 1 .. i : j \in 1 .. Len(x) \/ j = i
    BY <1>1 DEF i
  <2>4. a = b
    BY <1>4, <2>1, <2>2, <2>3, Same
  <2> QED
    BY <2>4 DEF a, b
<1>9. Append(x, p[n + 1]) = SubSeq(y, 1, Len(x) + 1)
  BY <1>6, <1>8 DEF i
<1>10. n < Len(p) /\ p[n + 1] \in Keys
  BY <1>5, <1>6
<1> QED
  BY <1>7, <1>9, <1>10 DEF n

\* The way that cannot go on to y is the longest, and the only one of its length.
LEMMA OneEnd ==
  ASSUME NEW t, Trodden(t), NEW p \in Seq(Keys), NEW x, NEW y, OnTheWay(t, x, p), OnTheWay(t, y, p),
         Len(Names(x)) < Len(p) /\ Len(x) < Len(y) =>
           Append(x, p[Len(Names(x)) + 1]) # SubSeq(y, 1, Len(x) + 1)
  PROVE  /\ Len(Names(y)) <= Len(Names(x))
         /\ Len(Names(x)) <= Len(Names(y)) => y = x
<1>1. /\ x \in Address /\ y \in Address /\ Len(x) \in Nat /\ Len(y) \in Nat
  BY AddressLength DEF OnTheWay, IsOpen, Trodden
<1>2. Len(Names(x)) \in Nat /\ Len(Names(y)) \in Nat
  BY <1>1, NamesType
<1>3. ~ (Len(x) < Len(y))
  BY GoesOn
<1>4. CASE Len(y) < Len(x)
  <2>1. Len(Names(y)) < Len(Names(x))
    BY <1>4, GoesOn
  <2> QED
    BY <1>2, <2>1
<1>5. CASE Len(y) = Len(x)
  <2>1. SubSeq(y, 1, Len(x)) = x
    BY <1>1, <1>5, SameWay
  <2>2. y = x
    BY <1>1, <1>5, <2>1, WholePrefix
  <2> QED
    BY <1>2, <2>2
<1> QED
  BY <1>1, <1>3, <1>4, <1>5
=============================================================================
