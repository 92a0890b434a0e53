---------------------------- MODULE CodecProofs -----------------------------
(***************************************************************************)
(* What the writers make the parsers take: every line that is written of a *)
(* tree, each into the table it belongs to, for any keys, nodes and order  *)
(* of keys; every integer that the type of the member has, for any width   *)
(* of integers; and what the readers make of any text, and of those that   *)
(* were written as JSON or as TOML, for any types and values.              *)
(***************************************************************************)
EXTENDS RoundTripProps, TomlNodesProofs

\* The way to address x passes y.
Passes(x, y) == \E i \in 0 .. Len(x) : SubSeq(x, 1, i) = y

Line(nodes) == [call : {"assign", "open", "append"}, key : Keys, node : nodes, number : Nat,
                section : Seq(Keys), at : Address]

\* A line is of the node that it is said to be of.
Fitting(l) ==
  /\ Names(l.at) = l.section
  /\ l.call = "open" => IsSection(l.node)
  /\ l.call = "append" => TableArray(l.node) /\ l.number \in 1 .. Len(l.node[2])

\* In tree t with current table c, line l can be read: its table is there, on the way
\* of its path, and what it makes is not, but for the earlier elements of its array.
Ready(t, c, l) ==
  /\ IsOpen(t, l.at) /\ Latest(t, l.at)
  /\ IF l.call = "append" /\ l.number # 1
     THEN /\ Slot(l) \in DOMAIN t /\ t[Slot(l)].arrayTable /\ t[Slot(l)].kind = "array"
          /\ t[Slot(l)].size = l.number - 1
     ELSE Slot(l) \notin DOMAIN t
  /\ l.call = "assign" => l.at = c

\* Line l leaves alone what m needs: it makes another thing, off the way to m, and
\* changes the current table only when no assignment follows.
Before(l, m) ==
  /\ Slot(l) # Slot(m) /\ ~ Passes(m.at, Slot(l))
  /\ m.call = "assign" => l.call = "assign"

InTurn(s) == \A i, j \in 1 .. Len(s) : i < j => Before(s[i], s[j])

LinesOf(s) == {s[i] : i \in 1 .. Len(s)}

-----------------------------------------------------------------------------
(* The lines of a table.                                                   *)

LEMMA NotBelow ==
  ASSUME NEW x \in Address, NEW y \in Address, Len(x) < Len(y)
  PROVE  ~ Passes(x, y)
<1> SUFFICES ASSUME NEW i \in 0 .. Len(x), SubSeq(x, 1, i) = y PROVE FALSE
  BY DEF Passes
<1>1. Len(SubSeq(x, 1, i)) = i
  BY Prefix
<1> QED
  BY <1>1, AddressLength

LEMMA SlotOff ==
  ASSUME NEW x \in Address, NEW k \in Keys \cup Nat
  PROVE  ~ Passes(x, Append(x, k))
<1> DEFINE y == Append(x, k)
<1>1. y \in Address /\ Len(y) = Len(x) + 1 /\ Len(x) \in Nat
  BY Extended, AddressLength
<1> HIDE DEF y
<1>2. ~ Passes(x, y)
  BY <1>1, NotBelow
<1> QED
  BY <1>2 DEF y

LEMMA Below ==
  ASSUME NEW x \in Address, NEW k \in Keys \cup Nat
  PROVE  Append(x, k) # x
<1>1. Len(Append(x, k)) = Len(x) + 1 /\ Len(x) \in Nat
  BY Extended, AddressLength
<1> QED
  BY <1>1

LEMMA SlotFields ==
  ASSUME NEW x \in Address, NEW k \in Keys \cup Nat, NEW y \in Address, NEW j \in Keys \cup Nat
  PROVE  Append(x, k) = Append(y, j) <=> x = y /\ k = j
<1>1. Append(x, k) = Append(y, j) => Len(x) = Len(y)
  BY Extended, AddressLength
<1>2. SubSeq(Append(x, k), 1, Len(x)) = x /\ SubSeq(Append(y, j), 1, Len(y)) = y
  BY ParentOfExtended
<1>3. Append(x, k)[Len(x) + 1] = k /\ Append(y, j)[Len(y) + 1] = j
  BY Extended
<1> QED
  BY <1>1, <1>2, <1>3

LEMMA InTurnJoined ==
  ASSUME NEW S, NEW s \in Seq(S), NEW r \in Seq(S), InTurn(s), InTurn(r),
         \A l \in LinesOf(s), m \in LinesOf(r) : Before(l, m)
  PROVE  /\ s \o r \in Seq(S) /\ InTurn(s \o r)
         /\ LinesOf(s \o r) = LinesOf(s) \cup LinesOf(r)
<1> DEFINE q == s \o r
           n == Len(s)
           m == Len(r)
<1>1. /\ q \in Seq(S) /\ Len(q) = n + m /\ n \in Nat /\ m \in Nat
      /\ \A i \in 1 .. n : q[i] = s[i]
      /\ \A i \in 1 .. m : q[n + i] = r[i]
  BY ConcatProperties
<1> HIDE DEF q
<1>2. ASSUME NEW i \in 1 .. Len(q)
      PROVE  \/ i \in 1 .. n /\ q[i] = s[i]
             \/ i > n /\ i - n \in 1 .. m /\ q[i] = r[i - n]
  <2>1. CASE i <= n
    BY <1>1, <2>1
  <2>2. CASE i > n
    <3>1. i - n \in 1 .. m /\ n + (i - n) = i
      BY <1>1, <2>2
    <3>2. q[n + (i - n)] = r[i - n]
      BY <1>1, <3>1
    <3> QED
      BY <2>2, <3>1, <3>2
  <2> QED
    BY <1>1, <2>1, <2>2
<1>3. ASSUME NEW i \in 1 .. Len(q), NEW j \in 1 .. Len(q), i < j PROVE Before(q[i], q[j])
  <2>1. CASE j <= n
    <3>1. i \in 1 .. n /\ j \in 1 .. n
      BY <1>1, <1>3, <2>1
    <3> QED
      BY <1>1, <1>3, <3>1 DEF InTurn
  <2>2. CASE i <= n /\ j > n
    <3>1. i \in 1 .. n /\ q[i] = s[i] /\ j - n \in 1 .. m /\ q[j] = r[j - n]
      BY <1>1, <1>2, <2>2
    <3>2. s[i] \in LinesOf(s) /\ r[j - n] \in LinesOf(r)
      BY <3>1 DEF LinesOf
    <3> QED
      BY <3>1, <3>2
  <2>3. CASE i > n
    <3>1. j > n
      BY <1>1, <1>3, <2>3
    <3>2. /\ i - n \in 1 .. m /\ q[i] = r[i - n] /\ j - n \in 1 .. m /\ q[j] = r[j - n]
          /\ i - n < j - n
      BY <1>1, <1>2, <1>3, <2>3, <3>1
    <3> QED
      BY <3>2 DEF InTurn
  <2> QED
    BY <1>1, <2>1, <2>2, <2>3
<1>4. LinesOf(q) = LinesOf(s) \cup LinesOf(r)
  <2>1. LinesOf(q) \subseteq LinesOf(s) \cup LinesOf(r)
    BY <1>2 DEF LinesOf
  <2>2. \A i \in 1 .. n : i \in 1 .. Len(q) /\ q[i] = s[i]
    BY <1>1
  <2>3. \A i \in 1 .. m : n + i \in 1 .. Len(q) /\ q[n + i] = r[i]
    BY <1>1
  <2>4. LinesOf(s) \subseteq LinesOf(q)
    BY <2>2 DEF LinesOf
  <2>5. LinesOf(r) \subseteq LinesOf(q)
    BY <2>3 DEF LinesOf
  <2> QED
    BY <2>1, <2>4, <2>5
<1> QED
  BY <1>1, <1>3, <1>4 DEF InTurn, q

\* The lines of one loop.
LoopLine(l, call, keys, table, section, at) ==
  /\ l.call = call /\ l.key \in keys /\ l.node = table[l.key] /\ l.number = 1
  /\ l.section = section /\ l.at = at

\* There is a line of each key.
Covers(s, keys) == \A k \in keys : \E l \in LinesOf(s) : l.key = k

LEMMA LoopFits ==
  ASSUME NEW nodes, NEW keys \in SUBSET Keys, IsFiniteSet(keys), NEW table,
         \A k \in keys : table[k] \in nodes,
         NEW section \in Seq(Keys), NEW at \in Address,
         NEW call \in {"assign", "open", "append"}
  PROVE  LET s == Loop(call, keys, table, section, at)
         IN /\ s \in Seq(Line(nodes)) /\ InTurn(s)
            /\ \A l \in LinesOf(s) : LoopLine(l, call, keys, table, section, at)
            /\ Covers(s, keys)
<1> DEFINE s == Loop(call, keys, table, section, at)
           order == InOrder(keys)
           n == Len(order)
           Of(i) == [call |-> call, key |-> order[i], node |-> table[order[i]], number |-> 1,
                     section |-> section, at |-> at]
<1>1. order \in Seq(keys) /\ IsInjective(order)
  BY TextAssumption
<1>2. n \in Nat /\ DOMAIN order = 1 .. n /\ \A i \in 1 .. n : order[i] \in keys
  BY <1>1
<1>3. s = [i \in 1 .. n |-> Of(i)]
  BY DEF Loop
<1> HIDE DEF order, n, s
<1>4. \A i \in 1 .. n : Of(i) \in Line(nodes) /\ LoopLine(Of(i), call, keys, table, section, at)
  BY <1>2 DEF Line, LoopLine
<1> DEFINE f == [i \in 1 .. n |-> Of(i)]
<1>5. f \in Seq(Line(nodes)) /\ Len(f) = n /\ \A i \in 1 .. n : f[i] = Of(i)
  <2> HIDE DEF Of
  <2>1. \A i \in 1 .. n : f[i] = Of(i) /\ f[i] \in Line(nodes)
    BY <1>4
  <2>2. f \in [1 .. n -> Line(nodes)]
    BY <2>1
  <2> QED
    BY <1>2, <2>1, <2>2, IsASeq
<1> HIDE DEF f
<1>6. s = f
  BY <1>3 DEF f
<1>7. ASSUME NEW i \in 1 .. n, NEW j \in 1 .. n, i < j PROVE Before(Of(i), Of(j))
  <2>1. order[i] # order[j] /\ order[i] \in Keys /\ order[j] \in Keys
    BY <1>1, <1>2, <1>7 DEF IsInjective
  <2>2. Append(at, order[i]) # Append(at, order[j])
    BY <2>1, SlotFields
  <2>3. ~ Passes(at, Append(at, order[i]))
    BY <2>1, SlotOff
  <2> QED
    BY <2>2, <2>3 DEF Before, Slot
<1>8. \A k \in keys : \E i \in 1 .. n : Of(i).key = k
  <2>1. \A k \in keys : \E i \in 1 .. n : order[i] = k
    BY TextAssumption DEF n, order
  <2> QED
    BY <2>1
<1> HIDE DEF Of
<1>9. InTurn(s)
  BY <1>5, <1>6, <1>7 DEF InTurn
<1>10. \A l \in LinesOf(s) : LoopLine(l, call, keys, table, section, at)
  BY <1>4, <1>5, <1>6 DEF LinesOf
<1>11. Covers(s, keys)
  BY <1>5, <1>6, <1>8 DEF LinesOf, Covers
<1> QED
  BY <1>5, <1>6, <1>9, <1>10, <1>11 DEF s

\* What follows a line of a table in the same table: another key, and no assignment
\* after a header.
LEMMA BesideEachOther ==
  ASSUME NEW l, NEW m, NEW at \in Address, l.at = at, m.at = at,
         l.key \in Keys, m.key \in Keys, l.key # m.key,
         m.call = "assign" => l.call = "assign"
  PROVE  Before(l, m)
<1>1. Append(at, l.key) # Append(at, m.key)
  BY SlotFields
<1>2. ~ Passes(at, Append(at, l.key))
  BY SlotOff
<1> QED
  BY <1>1, <1>2 DEF Before, Slot

\* The members of a table are among the nodes, and so are the elements of its arrays.
Complete(nodes, table) ==
  /\ IsFiniteSet(DOMAIN table) /\ DOMAIN table \subseteq Keys
  /\ \A k \in DOMAIN table :
       table[k] \in nodes /\ (TableArray(table[k]) => table[k][2] \in Seq(nodes))

\* A line that begins what it writes of a member of a table.
OfTable(l, table, at) ==
  /\ l.at = at /\ l.number = 1 /\ l.key \in DOMAIN table /\ l.node = table[l.key]
  /\ l.call = "assign" => IsInline(l.node)

LEMMA LinesFit ==
  ASSUME NEW nodes, NEW table, Complete(nodes, table),
         NEW section \in Seq(Keys), NEW at \in Address, Names(at) = section
  PROVE  LET s == Lines(table, section, at)
         IN /\ s \in Seq(Line(nodes)) /\ InTurn(s)
            /\ \A l \in LinesOf(s) : Fitting(l) /\ OfTable(l, table, at)
            /\ Covers(s, DOMAIN table)
<1> DEFINE K1 == {k \in DOMAIN table : IsInline(table[k])}
           K2 == {k \in DOMAIN table : IsSection(table[k])}
           K3 == {k \in DOMAIN table : TableArray(table[k])}
           s1 == Assignments(table, section, at)
           s2 == Sections(table, section, at)
           s3 == ElementSections(table, section, at)
<1>1. /\ K1 \in SUBSET Keys /\ IsFiniteSet(K1) /\ \A k \in K1 : table[k] \in nodes
      /\ K2 \in SUBSET Keys /\ IsFiniteSet(K2) /\ \A k \in K2 : table[k] \in nodes
      /\ K3 \in SUBSET Keys /\ IsFiniteSet(K3) /\ \A k \in K3 : table[k] \in nodes
  BY FS_Subset DEF Complete
<1>2. K1 \cap K2 = {} /\ K1 \cap K3 = {} /\ K2 \cap K3 = {}
  BY DEF IsInline, IsSection, TableArray
<1>3. /\ \A k \in K1 : IsInline(table[k])
      /\ \A k \in K2 : IsSection(table[k])
      /\ DOMAIN table = K1 \cup K2 \cup K3
      /\ \A k \in K3 : TableArray(table[k]) /\ 1 \in 1 .. Len(table[k][2])
  <2>1. ASSUME NEW k \in K3 PROVE TableArray(table[k]) /\ 1 \in 1 .. Len(table[k][2])
    <3>1. TableArray(table[k]) /\ table[k][2] \in Seq(nodes) /\ table[k][2] # <<>>
      BY DEF TableArray, Complete
    <3>2. Len(table[k][2]) \in Nat \ {0}
      BY <3>1, EmptySeq
    <3> QED
      BY <3>1, <3>2
  <2>2. DOMAIN table = K1 \cup K2 \cup K3
    BY DEF IsInline
  <2> QED
    BY <2>1, <2>2
<1>4. /\ s1 = Loop("assign", K1, table, section, at)
      /\ s2 = Loop("open", K2, table, section, at)
      /\ s3 = Loop("append", K3, table, section, at)
  BY DEF Assignments, Sections, ElementSections
<1>5. Lines(table, section, at) = (s1 \o s2) \o s3
  BY DEF Lines
<1> HIDE DEF K1, K2, K3, s1, s2, s3
<1>6. /\ s1 \in Seq(Line(nodes)) /\ InTurn(s1)
      /\ \A l \in LinesOf(s1) : LoopLine(l, "assign", K1, table, section, at)
      /\ Covers(s1, K1)
  BY <1>1, <1>4, LoopFits
<1>7. /\ s2 \in Seq(Line(nodes)) /\ InTurn(s2)
      /\ \A l \in LinesOf(s2) : LoopLine(l, "open", K2, table, section, at)
      /\ Covers(s2, K2)
  BY <1>1, <1>4, LoopFits
<1>8. /\ s3 \in Seq(Line(nodes)) /\ InTurn(s3)
      /\ \A l \in LinesOf(s3) : LoopLine(l, "append", K3, table, section, at)
      /\ Covers(s3, K3)
  BY <1>1, <1>4, LoopFits
<1>9. \A l \in LinesOf(s1), m \in LinesOf(s2) : Before(l, m)
  BY <1>1, <1>2, <1>6, <1>7, BesideEachOther DEF LoopLine
<1>10. /\ s1 \o s2 \in Seq(Line(nodes)) /\ InTurn(s1 \o s2)
       /\ LinesOf(s1 \o s2) = LinesOf(s1) \cup LinesOf(s2)
  BY <1>6, <1>7, <1>9, InTurnJoined
<1>11. ASSUME NEW l \in LinesOf(s1) \cup LinesOf(s2), NEW m \in LinesOf(s3) PROVE Before(l, m)
  BY <1>1, <1>2, <1>6, <1>7, <1>8, BesideEachOther DEF LoopLine
<1> DEFINE s12 == s1 \o s2
           q == s12 \o s3
<1> HIDE DEF s12
<1>12. /\ q \in Seq(Line(nodes)) /\ InTurn(q)
       /\ LinesOf(q) = LinesOf(s1) \cup LinesOf(s2) \cup LinesOf(s3)
  <2>1. s12 \in Seq(Line(nodes)) /\ InTurn(s12) /\ LinesOf(s12) = LinesOf(s1) \cup LinesOf(s2)
    BY <1>10 DEF s12
  <2>2. \A l \in LinesOf(s12), m \in LinesOf(s3) : Before(l, m)
    BY <1>11, <2>1
  <2> QED
    BY <1>8, <2>1, <2>2, InTurnJoined
<1>13. ASSUME NEW l \in LinesOf(s1) \cup LinesOf(s2) \cup LinesOf(s3)
       PROVE  Fitting(l) /\ OfTable(l, table, at)
  BY <1>3, <1>6, <1>7, <1>8 DEF LoopLine, Fitting, OfTable
<1>14. Covers(q, DOMAIN table)
  BY <1>3, <1>6, <1>7, <1>8, <1>12 DEF Covers
<1> QED
  BY <1>5, <1>12, <1>13, <1>14 DEF s12

-----------------------------------------------------------------------------
(* What a line leaves of the tree, and what it adds.                       *)

\* u has what t has, and at S or right below it what is new; of t, only the node at S
\* may be another, and it may hold what it did.
Grew(t, u, S) ==
  /\ DOMAIN t \subseteq DOMAIN u /\ \A y \in DOMAIN t \ {S} : u[y] = t[y]
  /\ S \in DOMAIN u
  /\ S \in DOMAIN t => \A j : MayHold(t[S], j) => MayHold(u[S], j)
  /\ \A y \in DOMAIN u \ DOMAIN t : y = S \/ \E n \in Nat : y = Append(S, n) /\ MayHold(u[S], n)

LEMMA TroddenStays ==
  ASSUME NEW t, NEW u, NEW x \in DOMAIN t, NEW k \in Keys, Trodden(t), IsOpen(t, x),
         Grew(t, u, Append(x, k))
  PROVE  Trodden(u)
<1> DEFINE S == Append(x, k)
<1>1. x \in Address /\ Leads(t, x) /\ S \in Address
  BY Extended DEF Trodden
<1>2. S # x
  BY <1>1, Below
<1>3. Grew(t, u, S)
  OBVIOUS
<1> HIDE DEF S
<1>4. ASSUME NEW y \in DOMAIN t PROVE y \in Address /\ Leads(u, y)
  <2>1. y \in Address /\ Leads(t, y)
    BY DEF Trodden
  <2> SUFFICES ASSUME NEW i \in 0 .. Len(y) - 1
               PROVE  SubSeq(y, 1, i) \in DOMAIN u /\ MayHold(u[SubSeq(y, 1, i)], y[i + 1])
    BY <2>1 DEF Leads
  <2> DEFINE z == SubSeq(y, 1, i)
             j == y[i + 1]
  <2>2. z \in DOMAIN t /\ MayHold(t[z], j)
    BY <2>1 DEF Leads
  <2> HIDE DEF z, j
  <2>3. z \in DOMAIN u /\ MayHold(u[z], j)
    BY <1>3, <2>2 DEF Grew
  <2> QED
    BY <2>3 DEF z, j
<1>5. Leads(u, S)
  <2>1. x \in DOMAIN u /\ Leads(u, x) /\ u[x] = t[x]
    BY <1>2, <1>3, <1>4 DEF Grew
  <2>2. MayHold(u[x], k)
    BY <2>1 DEF IsOpen, MayHold
  <2> QED
    BY <1>1, <2>1, <2>2, LeadsToChild DEF S
<1>6. ASSUME NEW n \in Nat, MayHold(u[S], n) PROVE Append(S, n) \in Address /\ Leads(u, Append(S, n))
  BY <1>1, <1>3, <1>5, <1>6, LeadsToChild, Extended DEF Grew
<1> SUFFICES ASSUME NEW y \in DOMAIN u PROVE y \in Address /\ Leads(u, y)
  BY DEF Trodden
<1>7. CASE y \in DOMAIN t
  BY <1>4, <1>7
<1>8. CASE y = S
  BY <1>1, <1>5, <1>8
<1>9. CASE y \notin DOMAIN t /\ y # S
  <2>1. PICK n \in Nat : y = Append(S, n) /\ MayHold(u[S], n)
    BY <1>3, <1>9 DEF Grew
  <2> QED
    BY <1>6, <2>1
<1> QED
  BY <1>7, <1>8, <1>9

\* What leads to x is what it was.
LEMMA WayStays ==
  ASSUME NEW t, NEW u, NEW S, Grew(t, u, S), Trodden(t), NEW x \in DOMAIN t, ~ Passes(x, S)
  PROVE  /\ x \in DOMAIN u /\ u[x] = t[x] /\ (IsOpen(t, x) => IsOpen(u, x))
         /\ Latest(t, x) => Latest(u, x)
<1>1. x \in Address /\ Len(x) \in Nat
  BY AddressLength DEF Trodden
<1>2. ASSUME NEW i \in 0 .. Len(x) PROVE u[SubSeq(x, 1, i)] = t[SubSeq(x, 1, i)]
  <2>1. SubSeq(x, 1, i) # S
    BY DEF Passes
  <2>2. SubSeq(x, 1, i) \in DOMAIN t
    BY PrefixTrodden
  <2> QED
    BY <2>1, <2>2 DEF Grew
<1>3. x # S
  <2>1. Len(x) \in 0 .. Len(x) /\ SubSeq(x, 1, Len(x)) = x
    BY <1>1, WholePrefix
  <2> QED
    BY <2>1 DEF Passes
<1>4. x \in DOMAIN u /\ u[x] = t[x]
  BY <1>3 DEF Grew
<1>5. ASSUME Latest(t, x), NEW i \in 1 .. Len(x), x[i] \in Nat
      PROVE  x[i] = u[SubSeq(x, 1, i - 1)].size
  <2>1. i - 1 \in 0 .. Len(x)
    BY <1>1
  <2>2. x[i] = t[SubSeq(x, 1, i - 1)].size
    BY <1>5 DEF Latest
  <2> QED
    BY <1>2, <2>1, <2>2
<1> QED
  BY <1>4, <1>5 DEF IsOpen, Latest

LEMMA LatestOn ==
  ASSUME NEW t, NEW x \in Address, Latest(t, x), NEW j \in Keys \cup Nat,
         j \in Nat => j = t[x].size
  PROVE  Latest(t, Append(x, j))
<1> DEFINE y == Append(x, j)
<1>1. /\ Len(x) \in Nat /\ Len(y) = Len(x) + 1 /\ y[Len(x) + 1] = j
      /\ \A i \in 1 .. Len(x) : y[i] = x[i]
      /\ \A i \in 0 .. Len(x) : SubSeq(y, 1, i) = SubSeq(x, 1, i)
  BY AddressLength, Extended, PrefixOfExtended
<1>2. SubSeq(x, 1, Len(x)) = x
  BY WholePrefix
<1> HIDE DEF y
<1>3. ASSUME NEW i \in 1 .. Len(y), y[i] \in Nat PROVE y[i] = t[SubSeq(y, 1, i - 1)].size
  <2>1. CASE i \in 1 .. Len(x)
    <3>1. y[i] = x[i] /\ i - 1 \in 0 .. Len(x)
      BY <1>1, <2>1
    <3>2. x[i] = t[SubSeq(x, 1, i - 1)].size
      BY <1>3, <2>1, <3>1 DEF Latest
    <3>3. SubSeq(y, 1, i - 1) = SubSeq(x, 1, i - 1)
      BY <1>1, <3>1
    <3> QED
      BY <3>1, <3>2, <3>3
  <2>2. CASE i = Len(x) + 1
    <3>1. i - 1 = Len(x) /\ Len(x) \in 0 .. Len(x)
      BY <1>1, <2>2
    <3>2. SubSeq(y, 1, i - 1) = x
      BY <1>1, <1>2, <3>1
    <3> QED
      BY <1>1, <1>3, <2>2, <3>2
  <2> QED
    BY <1>1, <2>1, <2>2
<1> QED
  BY <1>3 DEF Latest, y

\* Lines that are still to come find what they need.
LEMMA ReadyStays ==
  ASSUME NEW t, NEW u, NEW nodes, NEW h \in Line(nodes), NEW m \in Line(nodes), Trodden(t),
         Grew(t, u, Slot(h)), Before(h, m), NEW c, NEW d, Ready(t, c, m), m.call = "assign" => c = d
  PROVE  Ready(u, d, m)
<1> DEFINE S == Slot(h)
           r == Slot(m)
<1>1. /\ h.at \in Address /\ h.key \in Keys /\ m.at \in Address /\ m.key \in Keys
      /\ S = Append(h.at, h.key) /\ r = Append(m.at, m.key)
  BY DEF Line, Slot
<1>2. m.at \in DOMAIN t /\ ~ Passes(m.at, S) /\ r # S /\ Grew(t, u, S)
  BY DEF Ready, IsOpen, Before
<1>3. S \in Address
  BY <1>1, Extended
<1>4. ASSUME NEW n \in Nat PROVE r # Append(S, n)
  <2>1. n # m.key
    BY <1>1, TextAssumption
  <2> QED
    BY <1>1, <1>3, <2>1, SlotFields
<1> HIDE DEF S, r
<1>5. r \in DOMAIN u <=> r \in DOMAIN t
  BY <1>2, <1>4 DEF Grew
<1>6. r \in DOMAIN t => u[r] = t[r]
  BY <1>2 DEF Grew
<1>7. IsOpen(u, m.at) /\ Latest(u, m.at)
  BY <1>2, WayStays DEF Ready
<1> QED
  BY <1>5, <1>6, <1>7 DEF Ready, r

\* Lines of the table that is new at a.
\* x is S or right below it.
NewAt(S, x) == x = S \/ \E n \in Nat : x = Append(S, n)

LEMMA NewAddress ==
  ASSUME NEW S \in Address, NEW x, NewAt(S, x)
  PROVE  x \in Address /\ Len(S) \in Nat /\ (x = S \/ Len(x) = Len(S) + 1)
<1>1. \A n \in Nat : Append(S, n) \in Address /\ Len(Append(S, n)) = Len(S) + 1
  BY Extended
<1> QED
  BY <1>1, AddressLength DEF NewAt

\* A key below a new table leads to nothing.
LEMMA NothingThere ==
  ASSUME NEW t, NEW u, NEW S \in Address, Grew(t, u, S), Trodden(t),
         NEW a \in DOMAIN u \ DOMAIN t, NewAt(S, a), NEW k \in Keys
  PROVE  Append(a, k) \notin DOMAIN u
<1> DEFINE r == Append(a, k)
           m == Len(S)
           n == Len(a)
<1>1. a \in Address /\ m \in Nat /\ n \in Nat /\ (a = S \/ n = m + 1)
  BY NewAddress, AddressLength
<1>2. r \in Address /\ Len(r) = n + 1 /\ SubSeq(r, 1, n) = a
  BY <1>1, Extended, ParentOfExtended
<1>3. ASSUME NEW j \in Nat PROVE r # Append(S, j)
  <2>1. j # k
    BY TextAssumption
  <2> QED
    BY <1>1, <2>1, SlotFields
<1>4. m = n \/ n = m + 1
  BY <1>1
<1> HIDE DEF r, m, n
<1>5. r \notin DOMAIN t
  <2> SUFFICES ASSUME r \in DOMAIN t PROVE FALSE
    OBVIOUS
  <2>1. n \in 0 .. Len(r)
    BY <1>1, <1>2
  <2>2. SubSeq(r, 1, n) \in DOMAIN t
    BY <2>1, PrefixTrodden
  <2> QED
    BY <1>2, <2>2
<1>6. r # S
  <2>1. Len(r) # m
    BY <1>1, <1>2, <1>4
  <2> QED
    BY <2>1 DEF m
<1>7. r \notin DOMAIN u
  BY <1>3, <1>5, <1>6 DEF Grew
<1> QED
  BY <1>7 DEF r

\* Lines of the table that is new at a.
LEMMA NewReady ==
  ASSUME NEW t, NEW u, NEW S \in Address, Grew(t, u, S), Trodden(t),
         NEW a \in DOMAIN u \ DOMAIN t, NewAt(S, a), IsOpen(u, a), Latest(u, a),
         NEW l, l.at = a, l.key \in Keys, l.number = 1
  PROVE  Ready(u, a, l)
<1>1. Append(a, l.key) \notin DOMAIN u
  BY NothingThere
<1> QED
  BY <1>1 DEF Ready, Slot

-----------------------------------------------------------------------------
(* What the parser makes of a line.                                        *)

LEMMA SameAsReaders ==
  /\ \A x : Reader!Names(x) = Names(x)
  /\ \A t, x : Reader!Latest(t, x) <=> Latest(t, x)
  /\ \A d : Reader!Table(d) = Table(d)
<1>1. \A x : Reader!Names(x) = Names(x)
  BY Zenon DEF Reader!Names, Names, Reader!KeysTo, KeysTo, Reader!Cardinality, Cardinality
<1>2. \A t, x : Reader!Latest(t, x) <=> Latest(t, x)
  BY DEF Reader!Latest, Latest
<1>3. \A d : Reader!Table(d) = Table(d)
  BY DEF Reader!Table, Table
<1> QED
  BY <1>1, <1>2, <1>3

\* The way along a path ends where it cannot go on.
LEMMA FurthestAt ==
  ASSUME Trodden(tree), NEW p \in Seq(Keys), NEW x, OnTheWay(tree, x, p),
         Len(Names(x)) < Len(p) => Append(x, p[Len(Names(x)) + 1]) \notin DOMAIN tree
  PROVE  Reader!Furthest(p) = x
<1> DEFINE way == {y \in DOMAIN tree : /\ Reader!Open(y) /\ Reader!Latest(tree, y)
                                       /\ Reader!IsPrefix(Reader!Names(y), p)}
           Longer(y, z) == Len(Reader!Names(y)) <= Len(Reader!Names(z))
<1>1. \A y \in DOMAIN tree : y \in Address /\ Names(y) \in Seq(Keys)
  BY NamesType DEF Trodden
<1>2. ASSUME NEW y PROVE y \in way <=> OnTheWay(tree, y, p)
  <2>1. CASE y \in DOMAIN tree
    <3>1. Reader!IsPrefix(Reader!Names(y), p) <=> Begins(Names(y), p)
      BY <1>1, <2>1, SameAsReaders, SamePrefix DEF Reader!IsPrefix
    <3> QED
      BY <2>1, <3>1, SameAsReaders DEF OnTheWay, IsOpen, Reader!Open
  <2>2. CASE y \notin DOMAIN tree
    BY <2>2 DEF OnTheWay, IsOpen
  <2> QED
    BY <2>1, <2>2
<1>3. \A y, z : Longer(y, z) <=> Len(Names(y)) <= Len(Names(z))
  BY SameAsReaders
<1>4. Reader!Furthest(p) = CHOOSE z \in way : \A y \in way : Longer(y, z)
  BY DEF Reader!Furthest
<1> HIDE DEF way, Longer
<1>5. x \in way
  BY <1>2
<1>6. ASSUME NEW y \in way PROVE Longer(y, x) /\ (Longer(x, y) => y = x)
  <2>1. OnTheWay(tree, y, p)
    BY <1>2
  <2>2. Len(Names(x)) < Len(p) /\ Len(x) < Len(y) =>
          Append(x, p[Len(Names(x)) + 1]) # SubSeq(y, 1, Len(x) + 1)
    <3> SUFFICES ASSUME Len(Names(x)) < Len(p), Len(x) < Len(y)
                 PROVE  SubSeq(y, 1, Len(x) + 1) \in DOMAIN tree
      OBVIOUS
    <3>1. x \in DOMAIN tree /\ y \in DOMAIN tree
      BY <2>1 DEF OnTheWay, IsOpen
    <3>2. Len(x) + 1 \in 0 .. Len(y)
      BY <1>1, <3>1, AddressLength
    <3> QED
      BY <3>1, <3>2, PrefixTrodden
  <2> QED
    BY <1>3, <2>1, <2>2, OneEnd
<1>7. \A z \in way : (\A y \in way : Longer(y, z)) <=> z = x
  BY <1>5, <1>6
<1> QED
  BY <1>4, <1>5, <1>7

LEMMA AlongOne ==
  ASSUME NEW x \in Address, NEW k \in Keys
  PROVE  /\ Reader!Along(x, <<>>) = {} /\ x \o <<>> = x
         /\ Reader!Along(x, <<k>>) = {Append(x, k)} /\ x \o <<k>> = Append(x, k)
<1>1. /\ x \o <<k>> = Append(x, k) /\ x \o <<>> = x
  BY AppendIsConcat, ConcatEmptySeq DEF Address
<1>2. 1 .. Len(<<>>) = {}
  OBVIOUS
<1>3. Reader!Along(x, <<>>) = {}
  BY <1>2 DEF Reader!Along
<1>4. Len(<<k>>) = 1 /\ 1 .. 1 = {1} /\ SubSeq(<<k>>, 1, 1) = <<k>>
  <2>1. <<k>> \in Seq(Keys) /\ Len(<<k>>) = 1
    OBVIOUS
  <2>2. SubSeq(<<k>>, 1, Len(<<k>>)) = <<k>>
    BY <2>1, SubSeqFull
  <2> QED
    BY <2>1, <2>2
<1>5. Reader!Along(x, <<k>>) = {x \o <<k>>}
  BY <1>4 DEF Reader!Along
<1> QED
  BY <1>1, <1>3, <1>5

\* Where the parser comes with the path of a line, and without its last key.
LEMMA HeaderPath ==
  ASSUME NEW nodes, NEW l \in Line(nodes), Fitting(l)
  PROVE  /\ Header(l) \in Seq(Keys) /\ Front(Header(l)) = l.section
         /\ Reader!Front(Header(l)) = l.section
         /\ Header(l)[Len(Header(l))] = l.key /\ Len(Header(l)) = Len(l.section) + 1
         /\ Header(l)[Len(l.section) + 1] = l.key
         /\ Reader!Left(l.at, Header(l)) = <<l.key>> /\ Reader!Left(l.at, l.section) = <<>>
         /\ Begins(Names(l.at), Header(l)) /\ Begins(Names(l.at), l.section)
<1> DEFINE s == l.section
           p == Header(l)
           k == l.key
<1>1. s \in Seq(Keys) /\ k \in Keys /\ Names(l.at) = s /\ s \in Address /\ Len(s) \in Nat
  BY DEF Line, Fitting, Address
<1>2. p = Append(s, k)
  BY DEF Header
<1> HIDE DEF s, p, k
<1>3. /\ p \in Seq(Keys) /\ Len(p) = Len(s) + 1 /\ p[Len(s) + 1] = k
      /\ \A i \in 1 .. Len(s) : p[i] = s[i]
  BY <1>1, <1>2, AppendProperties
<1>4. SubSeq(p, 1, Len(s)) = s
  BY <1>1, <1>2, ParentOfExtended
<1>5. Len(p) - 1 = Len(s)
  BY <1>1, <1>3
<1>6. Front(p) = s /\ Reader!Front(p) = s
  BY <1>4, <1>5 DEF Front, Reader!Front
<1>7. SubSeq(p, Len(s) + 1, Len(p)) = <<k>>
  <2> DEFINE r == SubSeq(p, Len(s) + 1, Len(s) + 1)
             n == Len(s) + 1
  <2>1. n \in Int /\ n - n + 1 = 1 /\ n + 1 - 1 = n /\ p[n] \in Keys /\ n .. n = {n}
    BY <1>1, <1>3
  <2>2. r \in Seq(Keys) /\ Len(r) = 1 /\ r[1] = k
    <3> HIDE DEF n
    <3> DEFINE q == SubSeq(p, n, n)
    <3>1. q \in Seq(Keys) /\ Len(q) = 1 /\ \A i \in 1 .. 1 : q[i] = p[n + i - 1]
      BY <2>1, SubSeqProperties
    <3>2. 1 \in 1 .. 1
      OBVIOUS
    <3>3. q[1] = p[n]
      BY <2>1, <3>1, <3>2
    <3> QED
      BY <1>3, <3>1, <3>3 DEF n
  <2> HIDE DEF r, n
  <2>3. r = <<k>>
    BY <1>1, <2>2
  <2> QED
    BY <1>3, <2>3 DEF r
<1>8. SubSeq(s, Len(s) + 1, Len(s)) = <<>>
  BY <1>1
<1>9. Reader!Left(l.at, p) = <<k>> /\ Reader!Left(l.at, s) = <<>>
  BY <1>1, <1>7, <1>8, SameAsReaders DEF Reader!Left
<1>10. Begins(s, p) /\ Begins(s, s)
  BY <1>1, <1>3 DEF Begins
<1> QED
  BY <1>1, <1>3, <1>6, <1>9, <1>10 DEF s, p, k

\* Line l is the next, and can be read.
Reads(nodes, l) == l \in Line(nodes) /\ Trodden(tree) /\ Fitting(l) /\ Ready(tree, current, l)

LEMMA SlotAddress ==
  ASSUME NEW nodes, NEW l \in Line(nodes)
  PROVE  /\ l.at \in Address /\ l.key \in Keys /\ l.section \in Seq(Keys) /\ l.number \in Nat
         /\ Slot(l) = Append(l.at, l.key) /\ Slot(l) \in Address
         /\ Append(Slot(l), l.number) \in Address
<1>1. l.at \in Address /\ l.key \in Keys /\ l.section \in Seq(Keys) /\ l.number \in Nat
  BY DEF Line
<1>2. Slot(l) = Append(l.at, l.key)
  BY DEF Slot
<1> QED
  BY <1>1, <1>2, Extended

LEMMA TakesAssignment ==
  ASSUME NEW nodes, NEW l, Reads(nodes, l), l.call = "assign"
  PROVE  /\ Reader!MayAssign(<<l.key>>) /\ current \o <<l.key>> = Slot(l)
         /\ Reader!Along(current, Reader!Front(<<l.key>>)) = {} /\ Slot(l) \notin DOMAIN tree
<1>1. current = l.at /\ l.key \in Keys /\ current \in Address /\ Slot(l) \notin DOMAIN tree
      /\ Slot(l) = Append(current, l.key)
  BY SlotAddress DEF Reads, Ready
<1>2. current \o <<l.key>> = Slot(l)
  BY <1>1, AlongOne
<1>3. Reader!Front(<<l.key>>) = <<>>
  BY DEF Reader!Front
<1>4. Reader!Along(current, Reader!Front(<<l.key>>)) = {}
  BY <1>1, <1>3, AlongOne
<1> QED
  BY <1>1, <1>2, <1>4 DEF Reader!MayAssign

LEMMA TakesHeader ==
  ASSUME NEW nodes, NEW l, Reads(nodes, l), l.call = "open"
  PROVE  /\ Reader!Furthest(Header(l)) = l.at /\ Reader!MayOpen(l.at, Header(l))
         /\ Slot(l) \notin DOMAIN tree
<1>1. /\ l \in Line(nodes) /\ Fitting(l) /\ Trodden(tree) /\ Slot(l) \notin DOMAIN tree
      /\ IsOpen(tree, l.at) /\ Latest(tree, l.at) /\ Slot(l) = Append(l.at, l.key)
      /\ Names(l.at) = l.section
  BY SlotAddress DEF Reads, Ready, Fitting
<1>2. /\ Header(l) \in Seq(Keys) /\ Header(l)[Len(l.section) + 1] = l.key
      /\ Reader!Left(l.at, Header(l)) = <<l.key>> /\ Begins(Names(l.at), Header(l))
  BY <1>1, HeaderPath
<1>3. OnTheWay(tree, l.at, Header(l))
  BY <1>1, <1>2 DEF OnTheWay
<1>4. Reader!Furthest(Header(l)) = l.at
  BY <1>1, <1>2, <1>3, FurthestAt
<1>5. <<l.key>> # <<>> /\ Head(<<l.key>>) = l.key
  OBVIOUS
<1>6. Reader!MayOpen(l.at, Header(l))
  BY <1>1, <1>2, <1>5 DEF Reader!MayOpen, Reader!Free
<1> QED
  BY <1>1, <1>4, <1>6

LEMMA TakesElement ==
  ASSUME NEW nodes, NEW l, Reads(nodes, l), l.call = "append"
  PROVE  /\ Reader!Furthest(l.section) = l.at /\ Reader!MayAppend(l.at, Header(l))
         /\ Front(Header(l)) = l.section /\ Reader!Front(Header(l)) = l.section
         /\ Reader!ArrayOf(l.at, Header(l)) = Slot(l) /\ Reader!Left(l.at, l.section) = <<>>
<1>1. /\ l \in Line(nodes) /\ Fitting(l) /\ Trodden(tree)
      /\ IsOpen(tree, l.at) /\ Latest(tree, l.at) /\ Slot(l) = Append(l.at, l.key)
      /\ Names(l.at) = l.section /\ l.section \in Seq(Keys) /\ l.at \in Address
      /\ Slot(l) \in DOMAIN tree => tree[Slot(l)].arrayTable
  BY SlotAddress DEF Reads, Ready, Fitting
<1>2. /\ Front(Header(l)) = l.section /\ Reader!Front(Header(l)) = l.section
      /\ Header(l)[Len(Header(l))] = l.key
      /\ Reader!Left(l.at, l.section) = <<>> /\ Begins(Names(l.at), l.section)
  BY <1>1, HeaderPath
<1>3. OnTheWay(tree, l.at, l.section)
  BY <1>1, <1>2 DEF OnTheWay
<1>4. ~ (Len(l.section) < Len(l.section))
  BY <1>1
<1>5. Reader!Furthest(l.section) = l.at
  BY <1>1, <1>3, <1>4, FurthestAt
<1>6. l.at \o <<>> = l.at
  BY <1>1, SlotAddress, AlongOne
<1>7. Reader!ArrayOf(l.at, Header(l)) = Slot(l)
  BY <1>1, <1>2, <1>6 DEF Reader!ArrayOf
<1>8. Reader!MayAppend(l.at, Header(l))
  BY <1>1, <1>2, <1>7 DEF Reader!MayAppend, Reader!Free
<1> QED
  BY <1>2, <1>5, <1>7, <1>8

-----------------------------------------------------------------------------
(* What reading a line does.                                               *)

LEMMA NewTables ==
  /\ \A d : Table(d).kind = "table" /\ ~ Table(d).inline /\ "value" \notin DOMAIN Table(d)
  /\ \A i : /\ ArrayTable(i).kind = "array" /\ ArrayTable(i).arrayTable /\ ArrayTable(i).size = i
            /\ "value" \notin DOMAIN ArrayTable(i)
  BY DEF Table, ArrayTable

LEMMA AssignmentRead ==
  ASSUME NEW nodes, NEW l, Reads(nodes, l), l.call = "assign", NEW n,
         Reader!Assign(<<l.key>>, Content(n))
  PROVE  /\ Grew(tree, tree', Slot(l)) /\ current' = current
         /\ DOMAIN tree' = DOMAIN tree \cup {Slot(l)} /\ tree'[Slot(l)] = Content(n)[<<>>]
<1> DEFINE S == Slot(l)
           C == Content(n)
           D == {current \o <<l.key>> \o y : y \in DOMAIN C}
           added == [x \in D |-> C[SubSeq(x, Len(current \o <<l.key>>) + 1, Len(x))]]
<1>1. current' = current
  BY DEF Reader!Assign
<1>2. DOMAIN C = {<<>>}
  BY DEF Content
<1>3. S \in Address /\ S \o <<>> = S
  BY SlotAddress, AlongOne DEF Reads
<1>4. DOMAIN added = {S}
  BY <1>2, <1>3, TakesAssignment
<1>5. tree' = Reader!Merge(Reader!Merge(Reader!Tables({}, "dotted_key"), tree), added)
  BY TakesAssignment DEF Reader!Assign
<1> HIDE DEF S, C, D, added
<1>6. /\ DOMAIN tree' = DOMAIN tree \cup {S} /\ tree'[S] = added[S]
      /\ \A x \in DOMAIN tree \ {S} : tree'[x] = tree[x]
  BY <1>4, <1>5 DEF Reader!Merge, Reader!Tables
<1>7. S \notin DOMAIN tree
  BY TakesAssignment DEF S
<1>8. added[S] = C[<<>>]
  <2>1. current \o <<l.key>> = S /\ Len(S) \in Nat
    BY <1>3, TakesAssignment, AddressLength DEF S
  <2>2. SubSeq(S, Len(S) + 1, Len(S)) = <<>>
    BY <2>1
  <2>3. S \in D
    BY <1>4 DEF added
  <2> QED
    BY <2>1, <2>2, <2>3 DEF added
<1> QED
  BY <1>1, <1>6, <1>7, <1>8 DEF Grew, S, C

LEMMA HeaderRead ==
  ASSUME NEW nodes, NEW l, Reads(nodes, l), l.call = "open", Reader!OpenTable(Header(l))
  PROVE  /\ Grew(tree, tree', Slot(l)) /\ current' = Slot(l)
         /\ DOMAIN tree' = DOMAIN tree \cup {Slot(l)}
         /\ tree'[Slot(l)] = Table("explicit_table")
<1> DEFINE S == Slot(l)
           p == Header(l)
<1>1. /\ Reader!Furthest(p) = l.at /\ S \notin DOMAIN tree
      /\ Reader!Left(l.at, p) = <<l.key>> /\ l.at \in Address /\ l.key \in Keys
      /\ S = Append(l.at, l.key)
  BY TakesHeader, HeaderPath, SlotAddress DEF Reads
<1>2. l.at \o <<l.key>> = S /\ Reader!Along(l.at, <<l.key>>) = {S}
  BY <1>1, AlongOne
<1> HIDE DEF p, S
<1>3. current' = S
  BY <1>1, <1>2 DEF Reader!OpenTable, p
<1>4. tree' = Reader!Merge(Reader!Merge(tree, Reader!Tables({S}, "implicit")),
                           Reader!Tables({S}, "explicit_table"))
  BY <1>1, <1>2 DEF Reader!OpenTable, Reader!Opened, p
<1>5. /\ DOMAIN tree' = DOMAIN tree \cup {S} /\ tree'[S] = Reader!Table("explicit_table")
      /\ \A x \in DOMAIN tree \ {S} : tree'[x] = tree[x]
  BY <1>4 DEF Reader!Merge, Reader!Tables
<1> QED
  BY <1>1, <1>3, <1>5, SameAsReaders DEF Grew, S

LEMMA ElementRead ==
  ASSUME NEW nodes, NEW l, Reads(nodes, l), l.call = "append", Reader!OpenArrayTable(Header(l))
  PROVE  LET S == Slot(l)
             a == Append(S, l.number)
         IN /\ Grew(tree, tree', S) /\ current' = a /\ a \in DOMAIN tree' \ DOMAIN tree
            /\ DOMAIN tree' = DOMAIN tree \cup {S, a}
            /\ tree'[a] = Table("array_element") /\ tree'[S] = ArrayTable(l.number)
<1> DEFINE S == Slot(l)
           a == Append(S, l.number)
           p == Header(l)
           A == [kind |-> "array", inline |-> FALSE, arrayTable |-> TRUE,
                 definition |-> "implicit", size |-> l.number]
           both == [y \in {S, a} |-> IF y = a THEN Reader!Table("array_element") ELSE A]
<1>1. /\ Reader!Furthest(l.section) = l.at /\ Reader!Front(p) = l.section
      /\ Reader!ArrayOf(l.at, p) = S /\ Reader!Left(l.at, l.section) = <<>>
  BY TakesElement
<1>2. /\ S \in Address /\ a \in Address /\ Len(a) = Len(S) + 1 /\ Len(S) \in Nat
      /\ a[Len(S) + 1] = l.number /\ SubSeq(a, 1, Len(S)) = S
  BY SlotAddress, AddressLength, Extended, ParentOfExtended DEF Reads
<1>3. a # S
  BY <1>2, Below, SlotAddress DEF Reads
<1>4. Ready(tree, current, l) /\ S = Slot(l)
  BY DEF Reads
<1>5. /\ l.number \in Nat \ {0} /\ l.number \notin Keys
      /\ S \in DOMAIN tree => tree[S].kind = "array" /\ tree[S].size = l.number - 1
      /\ S \notin DOMAIN tree => l.number = 1
  <2>1. l.number \in Nat /\ l.number \in 1 .. Len(l.node[2])
    BY SlotAddress DEF Reads, Fitting
  <2>2. l.number # 0 /\ l.number \notin Keys
    BY <2>1, TextAssumption
  <2> HIDE DEF S
  <2>3. IF l.number # 1
        THEN S \in DOMAIN tree /\ tree[S].kind = "array" /\ tree[S].size = l.number - 1
        ELSE S \notin DOMAIN tree
    BY <1>4 DEF Ready
  <2> QED
    BY <2>1, <2>2, <2>3
<1>6. Reader!Appended(S) = A
  <2> HIDE DEF S
  <2>1. S \in DOMAIN tree => tree[S].size + 1 = l.number
    BY <1>5
  <2> QED
    BY <1>5, <2>1 DEF Reader!Appended
<1>7. Reader!Along(l.at, <<>>) = {}
  BY SlotAddress, AlongOne DEF Reads
<1>8. a \notin DOMAIN tree
  <2> SUFFICES ASSUME a \in DOMAIN tree PROVE FALSE
    OBVIOUS
  <2>1. Leads(tree, a) /\ Len(S) \in 0 .. Len(a) - 1
    BY <1>2 DEF Reads, Trodden
  <2>2. S \in DOMAIN tree /\ MayHold(tree[S], l.number)
    BY <1>2, <2>1 DEF Leads
  <2> QED
    BY <1>5, <2>2 DEF MayHold
<1>9. A.size = l.number /\ A.kind = "array" /\ A.arrayTable
  OBVIOUS
<1> HIDE DEF S, a, p, A
<1>10. current' = a
  BY <1>1, <1>6, <1>9 DEF Reader!OpenArrayTable, p, a
<1>11. tree' = Reader!Merge(Reader!Merge(tree, Reader!Tables({}, "implicit")), both)
  BY <1>1, <1>6, <1>7, <1>9 DEF Reader!OpenArrayTable, Reader!Opened, p, a
<1>12. DOMAIN both = {S, a} /\ both[S] = A /\ both[a] = Reader!Table("array_element")
  BY <1>3
<1> HIDE DEF both
<1>13. /\ DOMAIN tree' = DOMAIN tree \cup {S, a}
       /\ tree'[S] = A /\ tree'[a] = Reader!Table("array_element")
       /\ \A x \in DOMAIN tree \ {S} : tree'[x] = tree[x]
  BY <1>8, <1>11, <1>12 DEF Reader!Merge, Reader!Tables
<1>14. MayHold(A, l.number)
  BY <1>5, <1>9 DEF MayHold
<1>15. S \in DOMAIN tree => \A j : MayHold(tree[S], j) => MayHold(A, j)
  BY <1>5, <1>9 DEF MayHold
<1>16. Grew(tree, tree', S)
  BY <1>5, <1>13, <1>14, <1>15 DEF Grew, a
<1>17. A = ArrayTable(l.number)
  BY DEF A, ArrayTable
<1> QED
  BY <1>8, <1>10, <1>13, <1>16, <1>17, SameAsReaders DEF S, a

-----------------------------------------------------------------------------
(* All that is still to be written can be read.                            *)

\* With tree t and current table c, lines s can be read one after the other.
Readable(nodes, t, c, s) ==
  /\ s \in Seq(Line(nodes)) /\ Trodden(t) /\ InTurn(s)
  /\ \A l \in LinesOf(s) : Fitting(l) /\ Ready(t, c, l)

IInv(nodes) == Readable(nodes, tree, current, todo)

\* The next line and those after it.
LEMMA NextLine ==
  ASSUME NEW nodes, NEW t, NEW c, NEW s, Readable(nodes, t, c, s), s # <<>>
  PROVE  /\ Head(s) \in Line(nodes) /\ Fitting(Head(s)) /\ Ready(t, c, Head(s)) /\ Trodden(t)
         /\ Tail(s) \in Seq(Line(nodes)) /\ InTurn(Tail(s))
         /\ \A m \in LinesOf(Tail(s)) :
              m \in Line(nodes) /\ Fitting(m) /\ Ready(t, c, m) /\ Before(Head(s), m)
<1> DEFINE r == Tail(s)
           n == Len(s)
<1>1. /\ s \in Seq(Line(nodes)) /\ n \in Nat \ {0} /\ Head(s) = s[1] /\ Trodden(t) /\ InTurn(s)
      /\ \A l \in LinesOf(s) : Fitting(l) /\ Ready(t, c, l)
  BY EmptySeq DEF Readable
<1>2. /\ r \in Seq(Line(nodes)) /\ Len(r) = n - 1 /\ \A i \in 1 .. Len(r) : r[i] = s[i + 1]
  BY <1>1, HeadTailProperties
<1> HIDE DEF r, n
<1>3. \A i \in 1 .. n : s[i] \in Line(nodes) /\ s[i] \in LinesOf(s)
  BY <1>1 DEF n, LinesOf
<1>4. 1 \in 1 .. n /\ \A i \in 1 .. Len(r) : i + 1 \in 1 .. n /\ 1 < i + 1
  BY <1>1, <1>2
<1>5. ASSUME NEW i \in 1 .. Len(r)
      PROVE  r[i] \in Line(nodes) /\ Fitting(r[i]) /\ Ready(t, c, r[i]) /\ Before(s[1], r[i])
  <2>1. r[i] = s[i + 1] /\ i + 1 \in 1 .. n /\ 1 < i + 1
    BY <1>2, <1>4
  <2>2. Before(s[1], s[i + 1])
    BY <1>1, <1>4, <2>1 DEF InTurn, n
  <2> QED
    BY <1>1, <1>3, <2>1, <2>2
<1>6. ASSUME NEW i \in 1 .. Len(r), NEW j \in 1 .. Len(r), i < j PROVE Before(r[i], r[j])
  <2>1. /\ r[i] = s[i + 1] /\ i + 1 \in 1 .. n /\ r[j] = s[j + 1] /\ j + 1 \in 1 .. n
        /\ i + 1 < j + 1
    BY <1>2, <1>4, <1>6
  <2> QED
    BY <1>1, <2>1 DEF InTurn, n
<1>7. InTurn(r)
  BY <1>6 DEF InTurn
<1>8. \A m \in LinesOf(r) :
        m \in Line(nodes) /\ Fitting(m) /\ Ready(t, c, m) /\ Before(s[1], m)
  BY <1>5 DEF LinesOf
<1> QED
  BY <1>1, <1>2, <1>3, <1>4, <1>7, <1>8 DEF r

\* The next line is read: what is written in its place can be read before the rest.
LEMMA Onward ==
  ASSUME NEW nodes, NEW t, NEW c, NEW s, Readable(nodes, t, c, s), s # <<>>,
         NEW u, NEW d, Grew(t, u, Slot(Head(s))), Head(s).call = "assign" => c = d,
         NEW r \in Seq(Line(nodes)), InTurn(r),
         \A l \in LinesOf(r) : Fitting(l) /\ Ready(u, d, l),
         \A l \in LinesOf(r), m \in LinesOf(Tail(s)) : Before(l, m)
  PROVE  Readable(nodes, u, d, r \o Tail(s))
<1> DEFINE h == Head(s)
           rest == Tail(s)
<1>1. /\ h \in Line(nodes) /\ Fitting(h) /\ Ready(t, c, h) /\ Trodden(t)
      /\ rest \in Seq(Line(nodes)) /\ InTurn(rest)
      /\ \A m \in LinesOf(rest) :
           m \in Line(nodes) /\ Fitting(m) /\ Ready(t, c, m) /\ Before(h, m)
  BY NextLine
<1> HIDE DEF h, rest
<1>2. Grew(t, u, Slot(h)) /\ (h.call = "assign" => c = d)
  BY DEF h
<1>3. Trodden(u)
  <2>1. h.at \in DOMAIN t /\ IsOpen(t, h.at) /\ h.key \in Keys /\ Slot(h) = Append(h.at, h.key)
    BY <1>1, SlotAddress DEF Ready, IsOpen
  <2> QED
    BY <1>1, <1>2, <2>1, TroddenStays
<1>4. ASSUME NEW m \in LinesOf(rest) PROVE Fitting(m) /\ Ready(u, d, m)
  <2>1. m.call = "assign" => c = d
    BY <1>1, <1>2 DEF Before
  <2> QED
    BY <1>1, <1>2, <2>1, ReadyStays
<1>5. \A l \in LinesOf(r), m \in LinesOf(rest) : Before(l, m)
  BY DEF rest
<1>6. /\ r \o rest \in Seq(Line(nodes)) /\ InTurn(r \o rest)
      /\ LinesOf(r \o rest) = LinesOf(r) \cup LinesOf(rest)
  BY <1>1, <1>5, InTurnJoined
<1>7. Readable(nodes, u, d, r \o rest)
  BY <1>3, <1>4, <1>6 DEF Readable
<1> QED
  BY <1>7 DEF rest

\* Lines of a table that was not there come before what was to be read.
LEMMA NewBefore ==
  ASSUME NEW t, Trodden(t), NEW a \in Address, a \notin DOMAIN t, NEW l, l.at = a, l.key \in Keys,
         NEW m, m.at \in DOMAIN t, m.key \in Keys, m.call # "assign"
  PROVE  Before(l, m)
<1> DEFINE S == Append(a, l.key)
<1>1. m.at \in Address /\ Append(m.at, m.key) # S
  BY SlotFields DEF Trodden
<1>2. S \in Address /\ Len(S) = Len(a) + 1 /\ SubSeq(S, 1, Len(a)) = a
  BY Extended, ParentOfExtended
<1>3. S = Slot(l)
  BY DEF Slot
<1> HIDE DEF S
<1>4. ASSUME Passes(m.at, S) PROVE FALSE
  <2>1. PICK i \in 0 .. Len(m.at) : SubSeq(m.at, 1, i) = S
    BY <1>4 DEF Passes
  <2>2. S \in DOMAIN t
    BY <2>1, PrefixTrodden
  <2>3. Len(a) \in 0 .. Len(S)
    BY <1>2, AddressLength
  <2> QED
    BY <1>2, <2>2, <2>3, PrefixTrodden
<1> QED
  BY <1>1, <1>3, <1>4 DEF Before, Slot

\* The lines of a section.
LEMMA SectionLines ==
  ASSUME NEW nodes, Closed(nodes), NEW n \in nodes, IsSection(n),
         NEW section \in Seq(Keys), NEW at \in Address, Names(at) = section
  PROVE  LET s == Lines(n[2], section, at)
         IN /\ s \in Seq(Line(nodes)) /\ InTurn(s)
            /\ \A l \in LinesOf(s) : Fitting(l) /\ l.at = at /\ l.number = 1 /\ l.key \in Keys
            /\ \A l \in LinesOf(s) : OfTable(l, n[2], at)
            /\ Covers(s, DOMAIN n[2])
<1> DEFINE table == n[2]
           s == Lines(table, section, at)
<1>1. Complete(nodes, table)
  BY DEF Closed, Complete
<1>2. s = Lines(table, section, at)
  OBVIOUS
<1> HIDE DEF table, s
<1>3. /\ s \in Seq(Line(nodes)) /\ InTurn(s)
      /\ \A l \in LinesOf(s) : Fitting(l) /\ OfTable(l, table, at)
      /\ Covers(s, DOMAIN table)
  BY <1>1, <1>2, LinesFit
<1>4. \A i \in 1 .. Len(s) : s[i] \in Line(nodes)
  BY <1>3
<1>5. \A l \in LinesOf(s) : l.key \in Keys
  BY <1>4 DEF LinesOf, Line
<1> QED
  BY <1>3, <1>5 DEF table, s, OfTable

\* What is read of the lines of a table that has just been made.
LEMMA NewLines ==
  ASSUME NEW nodes, Closed(nodes), NEW n \in nodes, IsSection(n),
         NEW t, NEW u, NEW S \in Address, Grew(t, u, S), Trodden(t),
         NEW a \in DOMAIN u \ DOMAIN t, NewAt(S, a), IsOpen(u, a), Latest(u, a),
         NEW section \in Seq(Keys), Names(a) = section
  PROVE  LET s == Lines(n[2], section, a)
         IN /\ s \in Seq(Line(nodes)) /\ InTurn(s)
            /\ \A l \in LinesOf(s) : Fitting(l) /\ Ready(u, a, l)
            /\ \A m : m.at \in DOMAIN t /\ m.key \in Keys /\ m.call # "assign" =>
                 \A l \in LinesOf(s) : Before(l, m)
<1> DEFINE s == Lines(n[2], section, a)
<1>1. a \in Address
  BY NewAddress
<1>2. /\ s \in Seq(Line(nodes)) /\ InTurn(s)
      /\ \A l \in LinesOf(s) : Fitting(l) /\ l.at = a /\ l.number = 1 /\ l.key \in Keys
  BY <1>1, SectionLines
<1> HIDE DEF s
<1>3. ASSUME NEW l \in LinesOf(s) PROVE Ready(u, a, l)
  BY <1>2, NewReady
<1>4. ASSUME NEW m, m.at \in DOMAIN t, m.key \in Keys, m.call # "assign", NEW l \in LinesOf(s)
      PROVE  Before(l, m)
  BY <1>1, <1>2, <1>4, NewBefore
<1> QED
  BY <1>2, <1>3, <1>4 DEF s

\* The address of a table that a header names, and of an element of an array.
LEMMA SlotNames ==
  ASSUME NEW nodes, NEW l \in Line(nodes), Fitting(l)
  PROVE  Names(Slot(l)) = Header(l) /\ Names(Append(Slot(l), l.number)) = Header(l)
<1>1. /\ l.at \in Address /\ l.key \in Keys /\ l.number \in Nat /\ Slot(l) = Append(l.at, l.key)
      /\ Slot(l) \in Address /\ l.number \notin Keys /\ Names(l.at) = l.section
  BY SlotAddress, TextAssumption DEF Fitting
<1>2. Names(Slot(l)) = Append(l.section, l.key)
  BY <1>1, NamesExtended
<1>3. Names(Append(Slot(l), l.number)) = Names(Slot(l))
  BY <1>1, NamesExtended
<1> QED
  BY <1>2, <1>3 DEF Header

\* The way to what a header opens takes the last elements.
LEMMA SlotLatest ==
  ASSUME NEW nodes, NEW l \in Line(nodes), NEW t, NEW u, NEW c, Trodden(t), Ready(t, c, l),
         Grew(t, u, Slot(l))
  PROVE  /\ IsOpen(u, l.at) /\ Latest(u, l.at) /\ Latest(u, Slot(l))
         /\ u[Slot(l)].size = l.number => Latest(u, Append(Slot(l), l.number))
<1>1. /\ l.at \in Address /\ l.key \in Keys /\ l.number \in Nat /\ Slot(l) = Append(l.at, l.key)
      /\ Slot(l) \in Address /\ l.key \notin Nat
  BY SlotAddress, TextAssumption
<1>2. l.at \in DOMAIN t /\ IsOpen(t, l.at) /\ Latest(t, l.at)
  BY DEF Ready, IsOpen
<1>3. ~ Passes(l.at, Slot(l))
  BY <1>1, SlotOff
<1>4. IsOpen(u, l.at) /\ Latest(u, l.at)
  BY <1>2, <1>3, WayStays
<1>5. Latest(u, Slot(l))
  BY <1>1, <1>4, LatestOn
<1>6. u[Slot(l)].size = l.number => Latest(u, Append(Slot(l), l.number))
  BY <1>1, <1>5, LatestOn
<1> QED
  BY <1>4, <1>5, <1>6

LEMMA NextReads ==
  ASSUME NEW nodes, IInv(nodes), todo # <<>>
  PROVE  /\ Reads(nodes, Head(todo)) /\ Readable(nodes, tree, current, todo)
         /\ Tail(todo) \in Seq(Line(nodes))
         /\ \A m \in LinesOf(Tail(todo)) :
              /\ m.at \in DOMAIN tree /\ m.key \in Keys /\ Before(Head(todo), m)
              /\ Head(todo).call # "assign" => m.call # "assign"
<1>1. Readable(nodes, tree, current, todo)
  BY DEF IInv
<1>2. /\ Head(todo) \in Line(nodes) /\ Fitting(Head(todo)) /\ Ready(tree, current, Head(todo))
      /\ Trodden(tree) /\ Tail(todo) \in Seq(Line(nodes))
      /\ \A m \in LinesOf(Tail(todo)) :
           m \in Line(nodes) /\ Ready(tree, current, m) /\ Before(Head(todo), m)
  BY <1>1, NextLine
<1>3. ASSUME NEW m \in LinesOf(Tail(todo))
      PROVE  /\ m.at \in DOMAIN tree /\ m.key \in Keys /\ Before(Head(todo), m)
             /\ Head(todo).call # "assign" => m.call # "assign"
  <2>1. m \in Line(nodes) /\ Ready(tree, current, m) /\ Before(Head(todo), m)
    BY <1>2
  <2> QED
    BY <2>1, SlotAddress DEF Ready, IsOpen, Before
<1> QED
  BY <1>1, <1>2, <1>3 DEF Reads

LEMMA NoLines ==
  ASSUME NEW nodes
  PROVE  <<>> \in Seq(Line(nodes)) /\ InTurn(<<>>) /\ LinesOf(<<>>) = {}
<1>1. <<>> \in Seq(Line(nodes)) /\ 1 .. Len(<<>>) = {}
  OBVIOUS
<1> QED
  BY <1>1 DEF InTurn, LinesOf

LEMMA KeptByAssignment ==
  ASSUME NEW nodes, IInv(nodes), NEW n, WriteAssignment(n)
  PROVE  IInv(nodes)'
<1> DEFINE h == Head(todo)
           rest == Tail(todo)
<1>1. /\ todo # <<>> /\ h.call = "assign" /\ Reader!Assign(<<h.key>>, Content(n))
      /\ todo' = rest
  BY DEF WriteAssignment, IsNext
<1>2. /\ Reads(nodes, h) /\ Readable(nodes, tree, current, todo) /\ rest \in Seq(Line(nodes))
  BY <1>1, NextReads
<1>3. Grew(tree, tree', Slot(h)) /\ current' = current
  BY <1>1, <1>2, AssignmentRead
<1>4. Readable(nodes, tree', current', <<>> \o rest)
  BY <1>1, <1>2, <1>3, NoLines, Onward
<1>5. <<>> \o rest = rest
  BY <1>2, ConcatEmptySeq
<1> QED
  BY <1>1, <1>4, <1>5 DEF IInv

LEMMA KeptByHeader ==
  ASSUME NEW nodes, Closed(nodes), IInv(nodes), WriteHeader
  PROVE  IInv(nodes)'
<1> DEFINE h == Head(todo)
           rest == Tail(todo)
           S == Slot(h)
           new == Lines(h.node[2], Header(h), S)
<1>1. /\ todo # <<>> /\ h.call = "open" /\ Reader!OpenTable(Header(h))
      /\ todo' = new \o rest
  BY DEF WriteHeader, IsNext
<1>2. /\ Reads(nodes, h) /\ Readable(nodes, tree, current, todo)
      /\ \A m \in LinesOf(rest) : m.at \in DOMAIN tree /\ m.key \in Keys /\ m.call # "assign"
  BY <1>1, NextReads
<1>3. /\ h \in Line(nodes) /\ Fitting(h) /\ Trodden(tree) /\ Ready(tree, current, h)
      /\ h.node \in nodes /\ IsSection(h.node) /\ S \in Address /\ Header(h) \in Seq(Keys)
      /\ Names(S) = Header(h) /\ S \notin DOMAIN tree
  <2>1. h \in Line(nodes) /\ Fitting(h) /\ Trodden(tree) /\ Ready(tree, current, h)
    BY <1>2 DEF Reads
  <2>2. h.node \in nodes /\ IsSection(h.node)
    BY <1>1, <2>1 DEF Line, Fitting
  <2>3. S \notin DOMAIN tree
    BY <1>1, <1>2, TakesHeader
  <2> QED
    BY <2>1, <2>2, <2>3, SlotAddress, HeaderPath, SlotNames
<1>4. Grew(tree, tree', S) /\ current' = S /\ tree'[S].kind = "table" /\ ~ tree'[S].inline
  <2>1. Grew(tree, tree', S) /\ current' = S /\ tree'[S] = Table("explicit_table")
    BY <1>1, <1>2, HeaderRead
  <2> QED
    BY <2>1, NewTables
<1>5. Latest(tree', S)
  BY <1>3, <1>4, SlotLatest
<1> HIDE DEF h, rest, S
<1>6. S \in DOMAIN tree' \ DOMAIN tree /\ IsOpen(tree', S) /\ NewAt(S, S)
  BY <1>3, <1>4 DEF Grew, IsOpen, NewAt
<1>7. /\ new \in Seq(Line(nodes)) /\ InTurn(new)
      /\ \A l \in LinesOf(new) : Fitting(l) /\ Ready(tree', S, l)
      /\ \A m : m.at \in DOMAIN tree /\ m.key \in Keys /\ m.call # "assign" =>
           \A l \in LinesOf(new) : Before(l, m)
  BY <1>3, <1>4, <1>5, <1>6, NewLines
<1> HIDE DEF new
<1>8. \A l \in LinesOf(new), m \in LinesOf(rest) : Before(l, m)
  BY <1>2, <1>7
<1>9. Readable(nodes, tree', current', new \o rest)
  BY <1>1, <1>2, <1>4, <1>7, <1>8, Onward DEF h, rest, S
<1> QED
  BY <1>1, <1>9 DEF IInv

\* The line of the next element finds what the line of this one leaves.
LEMMA NextElementFits ==
  ASSUME NEW nodes, NEW l \in Line(nodes), Fitting(l), l.call = "append",
         NEW t, NEW u, NEW c, NEW d, Trodden(t), Ready(t, c, l), Grew(t, u, Slot(l)),
         u[Slot(l)].kind = "array", u[Slot(l)].arrayTable, u[Slot(l)].size = l.number
  PROVE  LET s == NextElements(l)
         IN /\ s \in Seq(Line(nodes)) /\ InTurn(s)
            /\ \A m \in LinesOf(s) :
                 /\ Fitting(m) /\ Ready(u, d, m)
                 /\ Slot(m) = Slot(l) /\ m.at = l.at /\ m.key = l.key /\ m.call = "append"
<1> DEFINE next == [l EXCEPT !.number = @ + 1]
<1>1. CASE ~ (l.number < Len(l.node[2]))
  <2>1. NextElements(l) = <<>>
    BY <1>1 DEF NextElements
  <2> QED
    BY <2>1, NoLines
<1>2. CASE l.number < Len(l.node[2])
  <2>1. NextElements(l) = <<next>>
    BY <1>2 DEF NextElements
  <2>2. /\ next \in Line(nodes) /\ next.at = l.at /\ next.key = l.key /\ next.call = "append"
        /\ next.number = l.number + 1 /\ next.node = l.node /\ next.section = l.section
        /\ l.number \in Nat
    BY DEF Line
  <2> HIDE DEF next
  <2>3. Slot(next) = Slot(l)
    BY <2>2 DEF Slot
  <2>4. l.number \in 1 .. Len(l.node[2])
    BY DEF Fitting
  <2>5. Fitting(next)
    <3>1. TableArray(l.node) /\ Names(l.at) = l.section
      BY DEF Fitting
    <3>2. Len(l.node[2]) \in Int => l.number + 1 \in 1 .. Len(l.node[2])
      BY <1>2, <2>2, <2>4
    <3>3. Len(l.node[2]) \in Int
      BY <1>2, <2>2, <2>4
    <3> QED
      BY <2>2, <3>1, <3>2, <3>3 DEF Fitting
  <2>6. Ready(u, d, next)
    <3>1. IsOpen(u, l.at) /\ Latest(u, l.at) /\ Slot(l) \in DOMAIN u
      BY SlotLatest DEF Grew
    <3>2. next.number # 1 /\ u[Slot(l)].size = next.number - 1
      BY <2>2, <2>4
    <3> QED
      BY <2>2, <2>3, <3>1, <3>2 DEF Ready
  <2>7. <<next>> \in Seq(Line(nodes)) /\ Len(<<next>>) = 1 /\ <<next>>[1] = next
    BY <2>2
  <2>8. InTurn(<<next>>) /\ LinesOf(<<next>>) = {next}
    BY <2>7 DEF InTurn, LinesOf
  <2> QED
    BY <2>1, <2>2, <2>3, <2>5, <2>6, <2>7, <2>8
<1> QED
  BY <1>1, <1>2

LEMMA KeptByElement ==
  ASSUME NEW nodes, Closed(nodes), IInv(nodes), WriteElementHeader
  PROVE  IInv(nodes)'
<1> DEFINE h == Head(todo)
           rest == Tail(todo)
           S == Slot(h)
           a == Append(S, h.number)
           element == h.node[2][h.number]
           new == Lines(element[2], Header(h), a)
           next == NextElements(h)
<1>1. /\ todo # <<>> /\ h.call = "append" /\ Reader!OpenArrayTable(Header(h))
      /\ todo' = (new \o next) \o rest
  BY DEF WriteElementHeader, IsNext
<1>2. /\ Reads(nodes, h) /\ Readable(nodes, tree, current, todo)
      /\ \A m \in LinesOf(rest) :
           m.at \in DOMAIN tree /\ m.key \in Keys /\ m.call # "assign" /\ Before(h, m)
  BY <1>1, NextReads
<1>3. /\ h \in Line(nodes) /\ Fitting(h) /\ Trodden(tree) /\ Ready(tree, current, h)
      /\ element \in nodes /\ IsSection(element) /\ S \in Address /\ Header(h) \in Seq(Keys)
      /\ Names(a) = Header(h) /\ h.at \in DOMAIN tree /\ h.key \in Keys /\ h.number \in Nat
  <2>1. h \in Line(nodes) /\ Fitting(h) /\ Trodden(tree) /\ Ready(tree, current, h)
    BY <1>2 DEF Reads
  <2>2. h.node \in nodes /\ TableArray(h.node) /\ h.number \in 1 .. Len(h.node[2])
    BY <1>1, <2>1 DEF Line, Fitting
  <2>3. h.node[2] \in Seq(nodes)
    BY <2>2 DEF Closed
  <2>4. element \in nodes /\ IsSection(element)
    BY <2>2, <2>3 DEF TableArray
  <2> QED
    BY <2>1, <2>4, SlotAddress, HeaderPath, SlotNames DEF Ready, IsOpen
<1>4. /\ Grew(tree, tree', S) /\ current' = a /\ a \in DOMAIN tree' \ DOMAIN tree
      /\ tree'[a].kind = "table" /\ ~ tree'[a].inline
      /\ tree'[S].kind = "array" /\ tree'[S].arrayTable /\ tree'[S].size = h.number
  <2>1. /\ Grew(tree, tree', S) /\ current' = a /\ a \in DOMAIN tree' \ DOMAIN tree
        /\ tree'[a] = Table("array_element") /\ tree'[S] = ArrayTable(h.number)
    BY <1>1, <1>2, ElementRead
  <2> QED
    BY <2>1, NewTables
<1>5. Latest(tree', a)
  BY <1>3, <1>4, SlotLatest
<1>6. /\ next \in Seq(Line(nodes)) /\ InTurn(next)
      /\ \A m \in LinesOf(next) :
           /\ Fitting(m) /\ Ready(tree', a, m)
           /\ Slot(m) = S /\ m.at = h.at /\ m.key = h.key /\ m.call = "append"
  <2> HIDE DEF h, a
  <2>1. next = NextElements(h)
    OBVIOUS
  <2> HIDE DEF next
  <2> QED
    BY <1>1, <1>3, <1>4, <2>1, NextElementFits
<1>7. NewAt(S, a)
  BY <1>3 DEF NewAt
<1> HIDE DEF h, rest, S, a, element, next
<1>8. IsOpen(tree', a)
  BY <1>4 DEF IsOpen
<1>9. /\ new \in Seq(Line(nodes)) /\ InTurn(new)
      /\ \A l \in LinesOf(new) : Fitting(l) /\ Ready(tree', a, l)
      /\ \A m : m.at \in DOMAIN tree /\ m.key \in Keys /\ m.call # "assign" =>
           \A l \in LinesOf(new) : Before(l, m)
  BY <1>3, <1>4, <1>5, <1>7, <1>8, NewLines
<1> HIDE DEF new
<1>10. \A l \in LinesOf(new), m \in LinesOf(next) : Before(l, m)
  BY <1>3, <1>6, <1>9
<1>11. /\ new \o next \in Seq(Line(nodes)) /\ InTurn(new \o next)
       /\ LinesOf(new \o next) = LinesOf(new) \cup LinesOf(next)
  BY <1>6, <1>9, <1>10, InTurnJoined
<1> DEFINE both == new \o next
<1>12. ASSUME NEW l \in LinesOf(both) PROVE Fitting(l) /\ Ready(tree', a, l)
  BY <1>6, <1>9, <1>11
<1>13. ASSUME NEW l \in LinesOf(both), NEW m \in LinesOf(rest) PROVE Before(l, m)
  <2>1. CASE l \in LinesOf(new)
    BY <1>2, <1>9, <2>1
  <2>2. CASE l \in LinesOf(next)
    <3>1. Slot(l) = S /\ Slot(h) = S /\ l.call = "append" /\ h.call = "append"
      BY <1>1, <1>6, <2>2 DEF S
    <3> QED
      BY <1>2, <3>1 DEF Before
  <2> QED
    BY <1>11, <2>1, <2>2
<1>14. both \in Seq(Line(nodes)) /\ InTurn(both)
  BY <1>11
<1> HIDE DEF both
<1>15. Readable(nodes, tree', current', both \o rest)
  BY <1>1, <1>2, <1>4, <1>12, <1>13, <1>14, Onward DEF h, rest, S
<1> QED
  BY <1>1, <1>15 DEF IInv, both

-----------------------------------------------------------------------------
(* The invariant.                                                          *)

LEMMA TreeOfNothing ==
  ASSUME Reader!Init
  PROVE  /\ DOMAIN tree = {<<>>} /\ tree[<<>>].kind = "table" /\ ~ tree[<<>>].inline
         /\ current = <<>> /\ Trodden(tree) /\ IsOpen(tree, <<>>) /\ Latest(tree, <<>>)
<1>1. tree = [x \in {<<>>} |-> Reader!Table("implicit")] /\ current = <<>>
  BY DEF Reader!Init, Reader!Tables
<1>2. DOMAIN tree = {<<>>} /\ tree[<<>>].kind = "table" /\ ~ tree[<<>>].inline
  BY <1>1 DEF Reader!Table
<1>3. <<>> \in Address /\ Len(<<>>) = 0
  BY DEF Address
<1>4. Trodden(tree) /\ Latest(tree, <<>>)
  BY <1>2, <1>3 DEF Trodden, Leads, Latest
<1> QED
  BY <1>1, <1>2, <1>4 DEF IsOpen

LEMMA InitReadable ==
  ASSUME NEW nodes, InitText
  PROVE  IInv(nodes)
  BY TreeOfNothing, NoLines DEF InitText, IInv, Readable

LEMMA KeptByBegin ==
  ASSUME NEW nodes, Closed(nodes), NEW n \in nodes, IsSection(n), Begin(n)
  PROVE  IInv(nodes)'
<1> DEFINE s == Lines(n[2], <<>>, <<>>)
<1>1. Reader!Init /\ todo' = s /\ tree' = tree /\ current' = current
  BY DEF Begin, InitText
<1>2. /\ DOMAIN tree = {<<>>} /\ current = <<>>
      /\ Trodden(tree) /\ IsOpen(tree, <<>>) /\ Latest(tree, <<>>)
  BY <1>1, TreeOfNothing
<1>3. <<>> \in Address /\ <<>> \in Seq(Keys)
  BY DEF Address
<1>4. /\ s \in Seq(Line(nodes)) /\ InTurn(s)
      /\ \A l \in LinesOf(s) : Fitting(l) /\ l.at = <<>> /\ l.number = 1 /\ l.key \in Keys
  BY <1>3, NoNames, SectionLines
<1> HIDE DEF s
<1>5. ASSUME NEW l \in LinesOf(s) PROVE Ready(tree, current, l)
  <2>1. Slot(l) \notin DOMAIN tree
    BY <1>2, <1>3, <1>4, Below DEF Slot
  <2> QED
    BY <1>2, <1>4, <2>1 DEF Ready
<1> QED
  BY <1>1, <1>2, <1>4, <1>5 DEF IInv, Readable

LEMMA AllReadable ==
  ASSUME NEW nodes, Closed(nodes)
  PROVE  TextSpec(nodes) => []IInv(nodes)
<1>1. InitText => IInv(nodes)
  BY InitReadable
<1>2. ASSUME IInv(nodes),
             [\E n \in nodes : (IsSection(n) /\ Begin(n)) \/ WriteText(n)]_textVars
      PROVE  IInv(nodes)'
  <2>1. CASE UNCHANGED textVars
    BY <1>2, <2>1 DEF textVars, IInv
  <2>2. ASSUME NEW n \in nodes, IsSection(n), Begin(n) PROVE IInv(nodes)'
    BY <2>2, KeptByBegin
  <2>3. ASSUME NEW n \in nodes, WriteText(n) PROVE IInv(nodes)'
    BY <1>2, <2>3, KeptByAssignment, KeptByHeader, KeptByElement DEF WriteText
  <2> QED
    BY <1>2, <2>1, <2>2, <2>3
<1> QED
  BY <1>1, <1>2, PTL DEF TextSpec

\* So the next line can be read.
LEMMA NextTaken ==
  ASSUME NEW nodes, IInv(nodes)
  PROVE  LinesAccepted /\ TableOfLine
<1>1. LinesAccepted
  <2> SUFFICES ASSUME todo # <<>> PROVE Accepted
    BY DEF LinesAccepted
  <2> DEFINE l == Head(todo)
  <2>1. Reads(nodes, l)
    BY NextReads
  <2> HIDE DEF l
  <2>2. l.call \in {"assign", "open", "append"}
    BY <2>1 DEF Reads, Line
  <2>3. CASE l.call = "assign"
    BY <2>1, <2>3, TakesAssignment DEF Accepted, l
  <2>4. CASE l.call = "open"
    BY <2>1, <2>4, TakesHeader DEF Accepted, l
  <2>5. CASE l.call = "append"
    BY <2>1, <2>5, TakesElement DEF Accepted, l
  <2> QED
    BY <2>2, <2>3, <2>4, <2>5
<1>2. TableOfLine
  BY NextReads DEF TableOfLine, Reads, Ready
<1> QED
  BY <1>1, <1>2

\* The parser takes every line that is written of a tree of nodes: no header or assignment
\* conflicts with those before it, whatever the tables, arrays of tables, empty arrays and
\* inline tables that are nested in each other (toml.hpp:2635-2686).
THEOREM TakingLines ==
  ASSUME NEW nodes, Closed(nodes)
  PROVE  TextSpec(nodes) => []LinesAccepted
<1>1. IInv(nodes) => LinesAccepted
  BY NextTaken
<1> QED
  BY <1>1, AllReadable, PTL

\* An assignment is read into the table it was written for (toml.hpp:2635-2686).
THEOREM LinesInPlace ==
  ASSUME NEW nodes, Closed(nodes)
  PROVE  TextSpec(nodes) => []TableOfLine
<1>1. IInv(nodes) => TableOfLine
  BY NextTaken
<1> QED
  BY <1>1, AllReadable, PTL

-----------------------------------------------------------------------------
(* Integers.                                                               *)

\* What should come of integer n in a format that has those from least to greatest.
Exactly(t, n, least, greatest) ==
  IF n \in (t[2] .. t[3]) \cap (least .. greatest) THEN <<"int", n>> ELSE Refused

LEMMA CastFits ==
  ASSUME NEW a \in Int, NEW b \in Int, NEW n \in a .. b, NEW t, t[2] = a, t[3] = b
  PROVE  Cast(t, n) = n
<1>1. n - a \in Nat /\ b - a + 1 \in Nat /\ n - a < b - a + 1
  OBVIOUS
<1>2. \A i, j \in Nat : i < j => i % j = i
  OBVIOUS
<1>3. (n - a) % (b - a + 1) = n - a
  BY <1>1, <1>2
<1> QED
  BY <1>3 DEF Cast

LEMMA TypeEnds ==
  ASSUME NEW t \in IntegerTypes
  PROVE  \E m \in 0 .. Int64Max :
           \/ t[2] = - m - 1 /\ t[3] = m /\ (Narrow(t) <=> m < Int64Max)
           \/ t[2] = 0 /\ t[3] = 2 * m + 1 /\ (Narrow(t) <=> m < Int64Max)
<1>1. CASE \E m \in 0 .. Int64Max : t = <<"int", - m - 1, m>>
  BY <1>1, Int64Assumption DEF Narrow
<1>2. CASE \E m \in 0 .. Int64Max : t = <<"int", 0, 2 * m + 1>>
  <2>1. PICK m \in 0 .. Int64Max : t = <<"int", 0, 2 * m + 1>>
    BY <1>2
  <2>2. t[2] = 0 /\ t[3] = 2 * m + 1
    BY <2>1
  <2>3. Narrow(t) <=> m < Int64Max
    BY <2>2, Int64Assumption DEF Narrow, UInt64Max
  <2> QED
    BY <2>2, <2>3
<1> QED
  BY <1>1, <1>2 DEF IntegerTypes

\* An integer in a JSON document is read as itself if the type of the member has it, and
\* refused if not: the checks that are left out for the types of 64 bits are none that
\* they need, and no cast changes a number (json.hpp:1587-1632).
THEOREM JsonIntegers ==
  ASSUME NEW t \in IntegerTypes, NEW n \in Int
  PROVE  JsonInteger(t, n) = Exactly(t, n, - Int64Max - 1, UInt64Max)
<1>1. PICK m \in 0 .. Int64Max :
        \/ t[2] = - m - 1 /\ t[3] = m /\ (Narrow(t) <=> m < Int64Max)
        \/ t[2] = 0 /\ t[3] = 2 * m + 1 /\ (Narrow(t) <=> m < Int64Max)
  BY TypeEnds
<1>2. t[2] \in Int /\ t[3] \in Int /\ m \in Int /\ Int64Max \in Nat
  BY <1>1, Int64Assumption
<1>3. n \in t[2] .. t[3] => Cast(t, n) = n
  BY <1>2, CastFits
<1>4. n \in (t[2] .. t[3]) \cap (- Int64Max - 1 .. UInt64Max) <=>
        ~ (\/ n \notin - Int64Max - 1 .. UInt64Max
           \/ Negative(t, n)
           \/ (Narrow(t) \/ (t[2] < 0 /\ n > Int64Max)) /\ n \notin t[2] .. t[3])
  BY <1>1, <1>2 DEF Negative, UInt64Max
<1> QED
  BY <1>3, <1>4 DEF JsonInteger, Exactly

\* An integer in a TOML document is read as itself if the type has it and it fits
\* int64_t, the least one too, whose magnitude does not fit (toml.hpp:1732-1747,
\* 2752-2777).
THEOREM TomlIntegers ==
  ASSUME NEW t \in IntegerTypes, NEW n \in Int
  PROVE  LET v == ParseInteger(n)
         IN (IF v = Refused THEN v ELSE TomlInteger(t, v[2])) =
              Exactly(t, n, - Int64Max - 1, Int64Max)
<1>1. PICK m \in 0 .. Int64Max :
        \/ t[2] = - m - 1 /\ t[3] = m /\ (Narrow(t) <=> m < Int64Max)
        \/ t[2] = 0 /\ t[3] = 2 * m + 1 /\ (Narrow(t) <=> m < Int64Max)
  BY TypeEnds
<1>2. t[2] \in Int /\ t[3] \in Int /\ m \in Int /\ Int64Max \in Nat
  BY <1>1, Int64Assumption
<1>3. n \in t[2] .. t[3] => Cast(t, n) = n
  BY <1>2, CastFits
<1>4. ParseInteger(n) = IF n \in - Int64Max - 1 .. Int64Max THEN <<"int", n>> ELSE Refused
  BY <1>2 DEF ParseInteger, MagnitudeLimit
<1>5. n \in - Int64Max - 1 .. Int64Max =>
        (n \in t[2] .. t[3] <=> ~ (Negative(t, n) \/ (Narrow(t) /\ n \notin t[2] .. t[3])))
  BY <1>1, <1>2 DEF Negative
<1>6. <<"int", n>> # Refused /\ <<"int", n>>[2] = n
  BY DEF Refused
<1> QED
  BY <1>3, <1>4, <1>5, <1>6 DEF TomlInteger, Exactly

-----------------------------------------------------------------------------
(* Types, and what is made of their parts.                                 *)

\* The recursive calls come to what the operators that make them come to: Codecs.tla
\* gives the constants such values, by recursion on the nesting of types and of nodes.
ReadsParts(t) ==
  \A n : /\ JsonDecoded(t, n) = JsonDecode(t, n)
         /\ RawDecoded(t, n) = DecodeRaw(t, n)
         /\ TomlDecoded(t, n) = TomlDecode(t, n)

WritesParts(t) ==
  \A v : /\ RawEncoded(t, v) = EncodeRaw(t, v)
         /\ TomlEncoded(t, v) = TomlEncode(t, v)
         /\ HasType(t, v) => TomlParsed(TomlEncode(t, v)) = Parsed(TomlEncode(t, v))
         /\ \A asNull : JsonEncoded(t, v, asNull) = JsonEncode(t, v, asNull)

ChecksParts(t) ==
  /\ Unwrapped(t) = OptionalValue(t)
  /\ \A v, options : ValidPart(t, v, options) <=> ValidFieldValue(t, v, options)

JudgesParts(t) ==
  /\ \A v : (HasTypePart(t, v) <=> HasType(t, v)) /\ (FitsPart(t, v) <=> Fits(t, v))
  /\ \A v, options : KeepsPart(t, options, v) <=> Keeps(t, options, v)
  /\ \A v : (UnwritablePart(t, v) <=> Unwritable(t, v)) /\ (AbsentPart(t, v) <=> Absent(t, v))
  /\ \A asNull : JsonKeepsPart(t, asNull) <=> JsonKeeps(t, asNull)
  /\ TomlKeepsPart(t) <=> TomlKeeps(t)

\* The levels and values in the text n.
Measured(n) == LevelsPart(n) = Levels(n) /\ SizePart(n) = Size(n)

MeasuresParts(t) ==
  /\ UncountedPart(t) <=> Uncounted(t)
  /\ \A v : HasType(t, v) => /\ Measured(EncodeRaw(t, v).node)
                             /\ \A asNull : Measured(JsonEncode(t, v, asNull).node)

Recursion ==
  /\ \A t \in AllTypes :
       ReadsParts(t) /\ WritesParts(t) /\ ChecksParts(t) /\ JudgesParts(t) /\ MeasuresParts(t)
  /\ \A n \in Jsons : NodeEncoded(n) = EncodeJson(n) /\ Measured(EncodeJson(n).node)

LEMMA LeastOf ==
  ASSUME NEW S \in SUBSET Nat, S # {}
  PROVE  Min(S) \in S /\ \A m \in S : Min(S) <= m
<1> DEFINE Less == {ss \in Nat \X Nat : ss[1] < ss[2]}
<1>1. IsWellFoundedOn(Less, Nat)
  BY NatLessThanWellFounded DEF OpToRel
<1>2. \A x, y \in Nat : <<y, x>> \in Less <=> y < x
  OBVIOUS
<1> HIDE DEF Less
<1>3. PICK n \in S : \A m \in S : ~ (<<m, n>> \in Less)
  BY <1>1, WFMin
<1>4. \A m \in S : m \in Nat /\ n \in Nat /\ ~ (m < n)
  BY <1>2, <1>3
<1>5. \A m \in S : n <= m
  BY <1>4
<1> QED
  BY <1>5 DEF Min

\* A set of types of which each has a part in the set is empty.
LEMMA NoLeastType ==
  ASSUME NEW B \in SUBSET AllTypes, \A t \in B : \E u \in Inside(t) : u \in B
  PROVE  B = {}
<1> SUFFICES ASSUME B # {} PROVE FALSE
  OBVIOUS
<1> DEFINE N == {TypeNesting(t) : t \in B}
<1>1. \A t \in B : TypeNesting(t) \in Nat /\ \A u \in Inside(t) : TypeNesting(u) < TypeNesting(t)
  BY TypesAssumption DEF AreTypes
<1>2. N \in SUBSET Nat /\ N # {}
  BY <1>1
<1>3. PICK t \in B : TypeNesting(t) = Min(N)
  BY <1>2, LeastOf
<1>4. PICK u \in Inside(t) : u \in B
  OBVIOUS
<1>5. Min(N) <= TypeNesting(u)
  <2>1. \A m \in N : Min(N) <= m
    BY <1>2, LeastOf
  <2>2. TypeNesting(u) \in N
    BY <1>4
  <2> QED
    BY <2>1, <2>2
<1>6. TypeNesting(u) < Min(N) /\ TypeNesting(u) \in Nat /\ Min(N) \in Nat
  BY <1>1, <1>3, <1>4
<1> QED
  BY <1>5, <1>6

LEMMA TypeInside ==
  ASSUME NEW t \in AllTypes
  PROVE  IsType(t) /\ \A u \in Inside(t) : u \in AllTypes
  BY TypesAssumption DEF AreTypes

LEMMA FieldsInside ==
  ASSUME NEW t \in AllTypes, t[1] = "struct", NEW k \in FieldNames(t)
  PROVE  FieldOf(t, k).type \in AllTypes /\ IsField(FieldOf(t, k)) /\ FieldOf(t, k).type \in Inside(t)
<1>1. \E i \in 1 .. Len(t[2]) : t[2][i].name = k
  BY DEF FieldNames
<1>2. PICK i \in 1 .. Len(t[2]) : FieldOf(t, k) = t[2][i]
  BY <1>1 DEF FieldOf
<1>3. FieldOf(t, k).type \in Inside(t) /\ IsField(FieldOf(t, k))
  BY <1>2, TypeInside DEF Inside, IsType
<1> QED
  BY <1>3, TypeInside

-----------------------------------------------------------------------------
(* Whatever is read is of the type that was asked for.                     *)

\* What is read for a type is of it.
ReadsFitting(t) ==
  \A n : /\ JsonDecoded(t, n) # Refused => FitsPart(t, JsonDecoded(t, n))
         /\ RawDecoded(t, n) # Refused => FitsPart(t, RawDecoded(t, n))
         /\ TomlDecoded(t, n) # Refused => FitsPart(t, TomlDecoded(t, n))

PartsFitting(t) == \A u \in Inside(t) : ReadsFitting(u)

LEMMA AllOfParts ==
  ASSUME NEW tag, NEW parts, All(tag, parts) # Refused
  PROVE  /\ All(tag, parts) = <<tag, parts>>
         /\ \A i \in DOMAIN parts : parts[i] # Refused
  BY DEF All

LEMMA OptionalFits ==
  ASSUME NEW t \in AllTypes, t[1] = "optional", PartsFitting(t), NEW n
  PROVE  /\ JsonDecode(t, n) # Refused => Fits(t, JsonDecode(t, n))
         /\ DecodeRaw(t, n) # Refused => Fits(t, DecodeRaw(t, n))
         /\ TomlDecode(t, n) # Refused => Fits(t, TomlDecode(t, n))
<1>1. ReadsFitting(t[2])
  BY DEF PartsFitting, Inside
<1>2. \A v : FitsPart(t[2], v) => Fits(t, <<"some", v>>)
  BY DEF Fits
<1>3. Fits(t, None)
  BY DEF Fits
<1>4. JsonDecode(t, n) \in {Refused, None} \/
        (JsonDecode(t, n) = <<"some", JsonDecoded(t[2], n)>> /\ JsonDecoded(t[2], n) # Refused)
  BY DEF JsonDecode
<1>5. DecodeRaw(t, n) = Refused \/
        (DecodeRaw(t, n) = <<"some", RawDecoded(t[2], n)>> /\ RawDecoded(t[2], n) # Refused)
  BY DEF DecodeRaw
<1>6. TomlDecode(t, n) = Refused \/
        (TomlDecode(t, n) = <<"some", TomlDecoded(t[2], n)>> /\ TomlDecoded(t[2], n) # Refused)
  BY DEF TomlDecode
<1> QED
  BY <1>1, <1>2, <1>3, <1>4, <1>5, <1>6 DEF ReadsFitting

LEMMA ContainerFits ==
  ASSUME NEW t \in AllTypes, t[1] \in {"vector", "array", "map"}, PartsFitting(t), NEW n
  PROVE  /\ JsonDecode(t, n) # Refused => Fits(t, JsonDecode(t, n))
         /\ DecodeRaw(t, n) # Refused => Fits(t, DecodeRaw(t, n))
         /\ TomlDecode(t, n) # Refused => Fits(t, TomlDecode(t, n))
<1> DEFINE tag == IF t[1] = "map" THEN "object" ELSE "array"
           F == {[i \in DOMAIN n[2] |-> JsonDecoded(t[2], n[2][i])],
                 [i \in DOMAIN n[2] |-> RawDecoded(t[2], n[2][i])],
                 [i \in DOMAIN n[2] |-> TomlDecoded(t[2], n[2][i])]}
<1>1. ReadsFitting(t[2])
  BY DEF PartsFitting, Inside
<1>2. ASSUME NEW f \in F, All(tag, f) # Refused
      PROVE  /\ All(tag, f) = <<tag, f>> /\ DOMAIN f = DOMAIN n[2]
             /\ \A i \in DOMAIN f : FitsPart(t[2], f[i])
  <2>1. All(tag, f) = <<tag, f>> /\ \A i \in DOMAIN f : f[i] # Refused
    BY <1>2, AllOfParts
  <2>2. /\ DOMAIN f = DOMAIN n[2]
        /\ \A i \in DOMAIN f : f[i] \in {JsonDecoded(t[2], n[2][i]), RawDecoded(t[2], n[2][i]),
                                          TomlDecoded(t[2], n[2][i])}
    OBVIOUS
  <2> QED
    BY <1>1, <2>1, <2>2 DEF ReadsFitting
<1> HIDE DEF F
<1> DEFINE Came(v) ==
             v = Refused \/ \E f \in F : v = All(tag, f) /\ (t[1] = "array" => DOMAIN n[2] = 1 .. t[3])
<1>3. ASSUME NEW v, Came(v), v # Refused PROVE Fits(t, v)
  <2>1. PICK f \in F : v = All(tag, f) /\ (t[1] = "array" => DOMAIN n[2] = 1 .. t[3])
    BY <1>3
  <2>2. v = <<tag, f>> /\ DOMAIN f = DOMAIN n[2] /\ \A i \in DOMAIN f : FitsPart(t[2], f[i])
    BY <1>2, <1>3, <2>1
  <2> QED
    BY <2>1, <2>2 DEF Fits
<1>4. Came(JsonDecode(t, n))
  BY DEF JsonDecode, DecodeContainer, RightSize, F
<1>5. Came(DecodeRaw(t, n))
  BY DEF DecodeRaw, F
<1>6. Came(TomlDecode(t, n))
  BY DEF TomlDecode, F
<1> HIDE DEF Came
<1> QED
  BY <1>3, <1>4, <1>5, <1>6

LEMMA EnumFits ==
  ASSUME Recursion, NEW t \in AllTypes, t[1] = "enum", NEW n
  PROVE  /\ JsonDecode(t, n) # Refused => Fits(t, JsonDecode(t, n))
         /\ DecodeRaw(t, n) # Refused => Fits(t, DecodeRaw(t, n))
         /\ TomlDecode(t, n) # Refused => Fits(t, TomlDecode(t, n))
<1>1. ASSUME NEW m, Numbered(t, m) # Refused PROVE Fits(t, Numbered(t, m))
  <2>1. Numbered(t, m) = <<"enum", m>>
    BY <1>1 DEF Numbered
  <2> QED
    BY <1>1, <2>1 DEF Fits
<1>2. ASSUME NEW name, Named(t, name) # Refused PROVE Fits(t, Named(t, name))
  <2>1. /\ Named(t, name) = <<"enum", (CHOOSE e \in Range(t[2]) : e[2] = name)[1]>>
        /\ ValidDescriptor(t) /\ \E e \in Range(t[2]) : e[2] = name
    BY <1>2 DEF Named
  <2>2. PICK e \in Range(t[2]) : Named(t, name) = <<"enum", e[1]>>
    BY <2>1
  <2>3. Numbered(t, e[1]) = <<"enum", e[1]>>
    BY <2>1, <2>2 DEF Numbered
  <2>4. Numbered(t, e[1]) # Refused
    BY <2>3 DEF Refused
  <2> QED
    BY <2>2, <2>4 DEF Fits
<1>3. JsonDecode(t, n) = Refused \/ \E m : JsonDecode(t, n) \in {Named(t, m), Numbered(t, m)}
  BY DEF JsonDecode, JsonDecodeEnum
<1>4. DecodeRaw(t, n) = Refused
  BY DEF DecodeRaw
<1>5. TomlDecode(t, n) = Refused \/ \E m : TomlDecode(t, n) \in {Named(t, m), Numbered(t, m)}
  BY DEF TomlDecode, TomlDecodeEnum
<1> QED
  BY <1>1, <1>2, <1>3, <1>4, <1>5

LEMMA VariantFits ==
  ASSUME NEW t \in AllTypes, t[1] = "variant", PartsFitting(t), NEW n
  PROVE  /\ JsonDecode(t, n) # Refused => Fits(t, JsonDecode(t, n))
         /\ DecodeRaw(t, n) # Refused => Fits(t, DecodeRaw(t, n))
         /\ TomlDecode(t, n) # Refused => Fits(t, TomlDecode(t, n))
<1> DEFINE fit == {i \in DOMAIN t[2] : JsonDecoded(t[2][i], n) # Refused}
<1>1. t[2] \in Seq(Range(t[2]))
  BY TypeInside DEF IsType
<1>2. fit \in SUBSET Nat
  BY <1>1
<1>3. \A i \in fit : t[2][i] \in Inside(t)
  BY DEF Inside, Range
<1>4. JsonDecode(t, n) = IF fit = {} THEN Refused
                         ELSE <<"alternative", Min(fit), JsonDecoded(t[2][Min(fit)], n)>>
  BY DEF JsonDecode, DecodeVariant
<1>5. fit # {} => Min(fit) \in fit
  BY <1>2, LeastOf
<1>6. \A i \in fit : FitsPart(t[2][i], JsonDecoded(t[2][i], n))
  BY <1>3 DEF PartsFitting, ReadsFitting
<1> HIDE DEF fit
<1>7. \A i, v : FitsPart(t[2][i], v) => Fits(t, <<"alternative", i, v>>)
  BY DEF Fits
<1>8. JsonDecode(t, n) # Refused => Fits(t, JsonDecode(t, n))
  BY <1>4, <1>5, <1>6, <1>7
<1>9. DecodeRaw(t, n) = Refused /\ TomlDecode(t, n) = Refused
  BY DEF DecodeRaw, TomlDecode
<1> QED
  BY <1>8, <1>9

LEMMA IntegerFits ==
  ASSUME NEW t \in IntegerTypes, NEW n \in Int
  PROVE  /\ JsonInteger(t, n) # Refused => Fits(t, JsonInteger(t, n))
         /\ n \in - Int64Max - 1 .. Int64Max /\ TomlInteger(t, n) # Refused => Fits(t, TomlInteger(t, n))
<1>1. \A m : m \in t[2] .. t[3] => Fits(t, <<"int", m>>)
  BY DEF Fits, IntegerTypes
<1>2. JsonInteger(t, n) \in {<<"int", n>>, Refused} /\ (JsonInteger(t, n) # Refused => n \in t[2] .. t[3])
  BY JsonIntegers DEF Exactly
<1>3. ASSUME n \in - Int64Max - 1 .. Int64Max
      PROVE  TomlInteger(t, n) \in {<<"int", n>>, Refused} /\ (TomlInteger(t, n) # Refused => n \in t[2] .. t[3])
  <2>1. ParseInteger(n) = <<"int", n>>
    BY <1>3, Int64Assumption DEF ParseInteger, MagnitudeLimit
  <2>2. TomlInteger(t, n) = Exactly(t, n, - Int64Max - 1, Int64Max)
    BY <2>1, TomlIntegers DEF Refused
  <2> QED
    BY <2>2 DEF Exactly
<1> QED
  BY <1>1, <1>2, <1>3

LEMMA ScalarFits ==
  ASSUME Recursion, NEW t \in AllTypes, NEW n, PartsFitting(t),
         t[1] \in {"bool", "int", "double", "string", "date", "raw", "json", "inline"}
  PROVE  /\ JsonDecode(t, n) # Refused => Fits(t, JsonDecode(t, n))
         /\ DecodeRaw(t, n) # Refused => Fits(t, DecodeRaw(t, n))
         /\ TomlDecode(t, n) # Refused => Fits(t, TomlDecode(t, n))
<1>1. CASE t[1] = "int"
  <2>1. t \in IntegerTypes
    BY <1>1, TypeInside DEF IsType
  <2>2. JsonDecode(t, n) = IF n[1] = "int" THEN JsonInteger(t, n[2]) ELSE Refused
    BY <1>1 DEF JsonDecode, DecodeScalar
  <2>3. TomlDecode(t, n) = IF n[1] = "int" /\ n[2] \in - Int64Max - 1 .. Int64Max
                           THEN TomlInteger(t, n[2]) ELSE Refused
    BY <1>1 DEF TomlDecode
  <2>4. DecodeRaw(t, n) = Refused
    BY <1>1 DEF DecodeRaw
  <2>5. n[2] \notin Int => JsonInteger(t, n[2]) = Refused
    BY Int64Assumption DEF JsonInteger, UInt64Max
  <2>6. n[2] \in - Int64Max - 1 .. Int64Max => n[2] \in Int
    BY Int64Assumption
  <2> QED
    BY <2>1, <2>2, <2>3, <2>4, <2>5, <2>6, IntegerFits
<1>2. CASE t[1] = "double"
  BY <1>2 DEF JsonDecode, DecodeScalar, DecodeRaw, TomlDecode, Fits
<1>3. CASE t[1] \in {"bool", "string"}
  BY <1>3 DEF JsonDecode, DecodeScalar, DecodeRaw, TomlDecode, Fits
<1>4. CASE t[1] = "date"
  BY <1>4 DEF JsonDecode, DecodeScalar, DecodeRaw, TomlDecode, Fits
<1>5. CASE t[1] \in {"raw", "json"}
  BY <1>5 DEF JsonDecode, DecodeRaw, TomlDecode, Fits
<1>6. CASE t[1] = "inline"
  <2>1. ReadsFitting(t[2])
    BY <1>6 DEF PartsFitting, Inside
  <2>2. /\ JsonDecode(t, n) = JsonDecoded(t[2], n) /\ DecodeRaw(t, n) = Refused
        /\ TomlDecode(t, n) = TomlDecoded(t[2], n) /\ \A v : Fits(t, v) <=> FitsPart(t[2], v)
    BY <1>6 DEF JsonDecode, DecodeRaw, TomlDecode, Fits
  <2> QED
    BY <2>1, <2>2 DEF ReadsFitting
<1> QED
  BY <1>1, <1>2, <1>3, <1>4, <1>5, <1>6

\* Options as a field has them.
OptionMaps == UNION {[given -> Int] : given \in SUBSET Options}

\* A value that validate_field_value() accepts keeps to the options that are valid for it.
ValidKeeps(t) ==
  \A v, options :
    \/ options = <<>>
    \/ options \in OptionMaps /\ ValidOptions(t, options) /\ Fits(t, v) /\ ValidFieldValue(t, v, options)
    => Keeps(t, options, v)

LEMMA ValidKeepsPlain ==
  ASSUME NEW t, t[1] # "optional", NEW v, NEW options \in OptionMaps,
         ValidOptions(t, options), Fits(t, v), ValidFieldValue(t, v, options)
  PROVE  Keeps(t, options, v)
<1> DEFINE Given(names) == names \cap DOMAIN options # {}
           number == t[1] \in {"int", "double"} \/ (t[1] = "enum" /\ ~ t[3])
           container == t[1] \in {"vector", "array", "map"}
<1>1. /\ Given({"minimum", "maximum"}) => number
      /\ Given({"min_length", "max_length"}) => t[1] = "string"
      /\ Given({"min_items", "max_items"}) => container
  BY DEF ValidOptions, Bounds, OptionalValue
<1>2. DOMAIN options \subseteq {"minimum", "maximum", "min_length", "max_length", "min_items", "max_items"}
  BY DEF OptionMaps, Options
<1>3. DOMAIN options = {} => options = <<>>
  BY DEF OptionMaps
<1>4. CASE number
  <2>1. DOMAIN options \subseteq {"minimum", "maximum"}
    BY <1>1, <1>2, <1>4
  <2>2. DOMAIN options # {} => v # NotANumber /\ Between(v[2], options, "minimum", "maximum")
    BY <1>4, <2>1 DEF ValidFieldValue
  <2>3. v # NotANumber => v[1] \in {"int", "double", "enum"}
    BY <1>4 DEF Fits
  <2> QED
    BY <1>3, <2>1, <2>2, <2>3 DEF Keeps, Between
<1>5. CASE t[1] = "string"
  <2>1. DOMAIN options \subseteq {"min_length", "max_length"}
    BY <1>1, <1>2, <1>5
  <2>2. v[1] = "string" /\ Between(Len(v[2]), options, "min_length", "max_length")
    BY <1>5 DEF ValidFieldValue, Fits
  <2>3. v # NotANumber
    BY <2>2 DEF NotANumber
  <2> QED
    BY <2>1, <2>2, <2>3 DEF Keeps, Between
<1>6. CASE container
  <2>1. DOMAIN options \subseteq {"min_items", "max_items"}
    BY <1>1, <1>2, <1>6
  <2>2. v[1] \in {"array", "object"} /\ Between(Cardinality(DOMAIN v[2]), options, "min_items", "max_items")
    BY <1>6 DEF ValidFieldValue, Fits
  <2>3. v # NotANumber
    BY <2>2 DEF NotANumber
  <2> QED
    BY <2>1, <2>2, <2>3 DEF Keeps, Between
<1>7. CASE ~ number /\ t[1] # "string" /\ ~ container
  BY <1>1, <1>2, <1>3, <1>7 DEF Keeps
<1> QED
  BY <1>4, <1>5, <1>6, <1>7

LEMMA AllValidKeeps ==
  ASSUME Recursion
  PROVE  \A t \in AllTypes : ValidKeeps(t)
<1> DEFINE B == {t \in AllTypes : ~ ValidKeeps(t)}
<1>1. ASSUME NEW t \in AllTypes, \A u \in Inside(t) : ValidKeeps(u) PROVE ValidKeeps(t)
  <2>1. CASE t[1] = "optional"
    <3>1. t[2] \in AllTypes /\ ValidKeeps(t[2])
      BY <1>1, <2>1, TypeInside DEF Inside
    <3>2. /\ \A options : ValidOptions(t, options) => ValidOptions(t[2], options)
          /\ \A v, options : ValidFieldValue(t, v, options) => v = None \/ ValidFieldValue(t[2], v[2], options)
          /\ \A v, options : Keeps(t, options, v) <=> v = None \/ Keeps(t[2], options, v[2])
          /\ \A v : Fits(t, v) => v = None \/ Fits(t[2], v[2])
      <4>1. ChecksParts(t[2]) /\ JudgesParts(t[2])
        BY <3>1 DEF Recursion
      <4>2. OptionalValue(t) = OptionalValue(t[2])
        BY <2>1, <4>1 DEF ChecksParts, OptionalValue
      <4>3. \A options : ValidOptions(t, options) => ValidOptions(t[2], options)
        BY <4>2 DEF ValidOptions
      <4>4. \A v, options : ValidFieldValue(t, v, options) => v = None \/ ValidFieldValue(t[2], v[2], options)
        <5>1. \A v, options : ValidFieldValue(t, v, options) => v = None \/ ValidPart(t[2], v[2], options)
          BY <2>1 DEF ValidFieldValue
        <5> QED
          BY <4>1, <5>1 DEF ChecksParts
      <4>5. \A v, options : Keeps(t, options, v) <=> v = None \/ Keeps(t[2], options, v[2])
        <5>1. \A v, options : Keeps(t, options, v) <=> v = None \/ KeepsPart(t[2], options, v[2])
          BY <2>1 DEF Keeps
        <5> QED
          BY <4>1, <5>1 DEF JudgesParts
      <4>6. \A v : Fits(t, v) => v = None \/ Fits(t[2], v[2])
        <5>1. \A v : Fits(t, v) => v = None \/ FitsPart(t[2], v[2])
          BY <2>1 DEF Fits
        <5> QED
          BY <4>1, <5>1 DEF JudgesParts
      <4> QED
        BY <4>3, <4>4, <4>5, <4>6
    <3> QED
      BY <3>1, <3>2 DEF ValidKeeps
  <2>2. CASE t[1] # "optional"
    BY <2>2, ValidKeepsPlain DEF ValidKeeps, Keeps
  <2> QED
    BY <2>1, <2>2
<1>2. B = {}
  BY <1>1, TypeInside, NoLeastType
<1> QED
  BY <1>2

LEMMA FieldKeeps ==
  ASSUME Recursion, NEW f, f.type \in AllTypes, IsField(f), NEW v, Fits(f.type, v), ValidField(f, v)
  PROVE  Keeps(f.type, f.options, v)
<1>1. ValidKeeps(f.type) /\ f.options \in OptionMaps
  BY AllValidKeeps DEF IsField, OptionMaps
<1>2. f.options = <<>> \/ (ValidOptions(f.type, f.options) /\ ValidFieldValue(f.type, v, f.options))
  BY DEF ValidField
<1> QED
  BY <1>1, <1>2 DEF ValidKeeps

\* What U output{} makes of a member fits it.
LEMMA DefaultFits ==
  ASSUME NEW t, IsType(t), t[1] \in Defaulted
  PROVE  Fits(t, Default(t))
<1>1. CASE t[1] = "int"
  <2>1. t \in IntegerTypes /\ Int64Max \in Nat
    BY <1>1, Int64Assumption DEF IsType
  <2>2. 0 \in t[2] .. t[3]
    BY <2>1 DEF IntegerTypes
  <2> QED
    BY <1>1, <2>2 DEF Fits, Default
<1>2. CASE t[1] \in {"vector", "map"}
  <2>1. DOMAIN <<>> = {}
    OBVIOUS
  <2> QED
    BY <1>2, <2>1 DEF Fits, Default
<1>3. CASE t[1] \notin {"int", "vector", "map"}
  BY <1>3 DEF Fits, Default, Defaulted
<1> QED
  BY <1>1, <1>2, <1>3

LEMMA DefaultKeeps ==
  ASSUME NEW f, IsField(f), f.policy # {}
  PROVE  Keeps(f.type, f.options, Default(f.type))
<1>1. f.type[1] = "optional" => Default(f.type) = None
  BY DEF Default
<1> QED
  BY <1>1 DEF IsField, Keeps

LEMMA MemberFits ==
  ASSUME Recursion, NEW f, f.type \in AllTypes, IsField(f), ReadsFitting(f.type), NEW n
  PROVE  LET v == DecodeMember(f, n)
             w == TomlDecoded(f.type, n)
         IN /\ v # Refused => FitsPart(f.type, v) /\ Keeps(f.type, f.options, v)
            /\ w # Refused /\ ValidField(f, w) => FitsPart(f.type, w) /\ Keeps(f.type, f.options, w)
<1>1. \A v : FitsPart(f.type, v) <=> Fits(f.type, v)
  BY DEF Recursion, JudgesParts
<1>2. ASSUME NEW v, v = DecodeMember(f, n), v # Refused
      PROVE  v = DecodeWireField(f, n) /\ ValidField(f, v)
  BY <1>2 DEF DecodeMember
<1>3. ASSUME NEW v, v = DecodeWireField(f, n), v # Refused PROVE Fits(f.type, v)
  <2>1. \/ f.type[1] = "bool" /\ v = <<"bool", n # Null>>
        \/ v = RawDecoded(f.type, n)
        \/ v = JsonDecoded(f.type, n)
    BY <1>3 DEF DecodeWireField
  <2>2. CASE f.type[1] = "bool" /\ v = <<"bool", n # Null>>
    BY <2>2 DEF Fits
  <2> QED
    BY <1>1, <1>3, <2>1, <2>2 DEF ReadsFitting
<1>4. ASSUME NEW w, w = TomlDecoded(f.type, n), w # Refused PROVE Fits(f.type, w)
  BY <1>1, <1>4 DEF ReadsFitting
<1> QED
  BY <1>1, <1>2, <1>3, <1>4, FieldKeeps

LEMMA AbsentFits ==
  ASSUME Recursion, NEW f, f.type \in AllTypes, IsField(f), f.type[1] = "optional", ValidField(f, None)
  PROVE  FitsPart(f.type, None) /\ Keeps(f.type, f.options, None)
<1>1. FitsPart(f.type, None) <=> Fits(f.type, None)
  BY DEF Recursion, JudgesParts
<1>2. Fits(f.type, None)
  BY DEF Fits
<1> QED
  BY <1>1, <1>2, FieldKeeps

LEMMA StructFits ==
  ASSUME Recursion, NEW t \in AllTypes, t[1] = "struct", PartsFitting(t), NEW n
  PROVE  /\ JsonDecode(t, n) # Refused => Fits(t, JsonDecode(t, n))
         /\ DecodeRaw(t, n) # Refused => Fits(t, DecodeRaw(t, n))
         /\ TomlDecode(t, n) # Refused => Fits(t, TomlDecode(t, n))
<1> DEFINE Of(k) == FieldOf(t, k)
           Good(k, v) == FitsPart(Of(k).type, v) /\ Keeps(Of(k).type, Of(k).options, v)
<1>1. ASSUME NEW k \in FieldNames(t)
      PROVE  Of(k).type \in AllTypes /\ IsField(Of(k)) /\ ReadsFitting(Of(k).type) /\ IsType(Of(k).type)
  BY FieldsInside, TypeInside DEF PartsFitting
<1>2. ASSUME NEW parts, DOMAIN parts = FieldNames(t), All("object", parts) # Refused,
             \A k \in FieldNames(t) : parts[k] # Refused => Good(k, parts[k])
      PROVE  Fits(t, All("object", parts))
  <2>1. All("object", parts) = <<"object", parts>> /\ \A k \in FieldNames(t) : Good(k, parts[k])
    BY <1>2, AllOfParts
  <2> QED
    BY <1>2, <2>1 DEF Fits
<1>3. JsonDecode(t, n) # Refused => Fits(t, JsonDecode(t, n))
  <2> DEFINE Part(k) == IF k \in DOMAIN n[2] THEN DecodeMember(Of(k), n[2][k])
                        ELSE IF "optional" \in Of(k).policy THEN Default(Of(k).type)
                        ELSE IF Of(k).type[1] = "optional" /\ ValidField(Of(k), None) THEN None
                        ELSE Refused
             parts == [k \in FieldNames(t) |-> Part(k)]
  <2>1. JsonDecode(t, n) \in {Refused, All("object", parts)}
    BY DEF JsonDecode, JsonDecodeFields
  <2>2. ASSUME NEW k \in FieldNames(t), Part(k) # Refused PROVE Good(k, Part(k))
    <3>1. CASE k \in DOMAIN n[2]
      <4>1. Part(k) = DecodeMember(Of(k), n[2][k])
        BY <3>1
      <4> QED
        BY <1>1, <2>2, <4>1, MemberFits
    <3>2. CASE k \notin DOMAIN n[2] /\ "optional" \in Of(k).policy
      <4>1. Part(k) = Default(Of(k).type)
        BY <3>2
      <4>2. Of(k).type[1] \in Defaulted
        BY <1>1, <3>2 DEF IsField
      <4>3. Fits(Of(k).type, Part(k)) /\ Keeps(Of(k).type, Of(k).options, Part(k))
        BY <1>1, <3>2, <4>1, <4>2, DefaultFits, DefaultKeeps
      <4> QED
        BY <1>1, <4>3 DEF Recursion, JudgesParts
    <3>3. CASE k \notin DOMAIN n[2] /\ "optional" \notin Of(k).policy
      <4>1. Part(k) = None /\ Of(k).type[1] = "optional" /\ ValidField(Of(k), None)
        BY <2>2, <3>3
      <4> QED
        BY <1>1, <4>1, AbsentFits
    <3> QED
      BY <3>1, <3>2, <3>3
  <2> HIDE DEF Part, Good
  <2> QED
    BY <1>2, <2>1, <2>2
<1>4. TomlDecode(t, n) # Refused => Fits(t, TomlDecode(t, n))
  <2> DEFINE Read(k) == IF k \in DOMAIN n[2] THEN TomlDecoded(Of(k).type, n[2][k])
                        ELSE IF Of(k).type[1] = "optional" THEN None ELSE Refused
             Part(k) == IF Read(k) # Refused /\ ValidField(Of(k), Read(k)) THEN Read(k) ELSE Refused
             parts == [k \in FieldNames(t) |-> Part(k)]
  <2>1. TomlDecode(t, n) \in {Refused, All("object", parts)}
    BY DEF TomlDecode, TomlDecodeFields
  <2>2. ASSUME NEW k \in FieldNames(t), Part(k) # Refused PROVE Good(k, Part(k))
    <3>1. Part(k) = Read(k) /\ Read(k) # Refused /\ ValidField(Of(k), Read(k))
      BY <2>2
    <3>2. CASE k \in DOMAIN n[2]
      BY <1>1, <3>1, <3>2, MemberFits
    <3>3. CASE k \notin DOMAIN n[2]
      BY <1>1, <3>1, <3>3, AbsentFits
    <3> QED
      BY <3>2, <3>3
  <2> HIDE DEF Part, Good
  <2> QED
    BY <1>2, <2>1, <2>2
<1>5. DecodeRaw(t, n) = Refused
  BY DEF DecodeRaw
<1> QED
  BY <1>3, <1>4, <1>5

LEMMA AllFitting ==
  ASSUME Recursion
  PROVE  \A t \in AllTypes : ReadsFitting(t)
<1> DEFINE B == {t \in AllTypes : ~ ReadsFitting(t)}
<1>1. ASSUME NEW t \in AllTypes, PartsFitting(t) PROVE ReadsFitting(t)
  <2>1. ReadsParts(t) /\ JudgesParts(t)
    BY DEF Recursion
  <2>2. ASSUME NEW n
        PROVE  /\ JsonDecode(t, n) # Refused => Fits(t, JsonDecode(t, n))
               /\ DecodeRaw(t, n) # Refused => Fits(t, DecodeRaw(t, n))
               /\ TomlDecode(t, n) # Refused => Fits(t, TomlDecode(t, n))
    <3>1. t[1] \in {"bool", "int", "double", "string", "optional", "vector", "map", "raw",
                    "date", "enum", "array", "inline", "variant", "struct", "json"}
      BY TypeInside DEF IsType, Defaulted
    <3>2. CASE t[1] \in {"bool", "int", "double", "string", "date", "raw", "json", "inline"}
      BY <1>1, <3>2, ScalarFits
    <3>3. CASE t[1] = "optional"
      BY <1>1, <3>3, OptionalFits
    <3>4. CASE t[1] \in {"vector", "array", "map"}
      BY <1>1, <3>4, ContainerFits
    <3>5. CASE t[1] = "enum"
      BY <3>5, EnumFits
    <3>6. CASE t[1] = "variant"
      BY <1>1, <3>6, VariantFits
    <3>7. CASE t[1] = "struct"
      BY <1>1, <3>7, StructFits
    <3> QED
      BY <3>1, <3>2, <3>3, <3>4, <3>5, <3>6, <3>7
  <2> QED
    BY <2>1, <2>2 DEF ReadsParts, JudgesParts, ReadsFitting
<1>2. B = {}
  BY <1>1, TypeInside, NoLeastType DEF PartsFitting
<1> QED
  BY <1>2

\* The stages of a round trip, and what has been read.
TypeInv ==
  /\ TypeOK /\ reader \in Readers(type)

LEMMA TypesKept ==
  ASSUME Recursion, TypeInv, [Next]_vars
  PROVE  TypeInv'
<1>1. CASE UNCHANGED vars
  BY <1>1 DEF vars, TypeInv, TypeOK
<1>2. CASE SerializeJson
  BY <1>2 DEF SerializeJson, TypeInv, TypeOK
<1>3. CASE SerializeToml
  BY <1>3 DEF SerializeToml, TypeInv, TypeOK
<1>4. CASE WriteLine
  BY <1>4 DEF WriteLine, TypeInv, TypeOK
<1>5. CASE WrittenToml
  BY <1>5 DEF WrittenToml, TypeInv, TypeOK
<1>6. CASE Deserialize
  <2>1. reader \in AllTypes
    BY TypesAssumption DEF TypeInv, TypeOK
  <2>2. \E n : result' \in {JsonDecode(reader, n), TomlDecode(reader, n)}
    BY <1>6 DEF Deserialize
  <2>3. result' # Refused => Fits(reader, result')
    BY <2>1, <2>2, AllFitting DEF ReadsFitting, Recursion, ReadsParts, JudgesParts
  <2> QED
    BY <1>6, <2>3 DEF Deserialize, TypeInv, TypeOK
<1> QED
  BY <1>1, <1>2, <1>3, <1>4, <1>5, <1>6 DEF Next

\* Whatever the codecs read, of a text that was written for the type or for another, is a
\* value of the type that was asked for, for all types, values and options
\* (json.hpp:1587-1640, 1663, toml.hpp:2757, reflect.hpp:381).
THEOREM ReadingTypes ==
  ASSUME Recursion
  PROVE  Spec => []TypeOK
<1>1. Init => TypeInv
  BY DEF Init, TypeInv, TypeOK
<1>2. TypeInv /\ [Next]_vars => TypeInv'
  BY TypesKept
<1>3. TypeInv => TypeOK
  BY DEF TypeInv
<1> QED
  BY <1>1, <1>2, <1>3, PTL DEF Spec

-----------------------------------------------------------------------------
(* What is written as JSON is read as it was.                              *)

LEMMA CompoundNode ==
  ASSUME NEW tag, NEW parts, Compound(tag, parts).node # Refused
  PROVE  /\ Compound(tag, parts).node = <<tag, [i \in DOMAIN parts |-> parts[i].node]>>
         /\ \A i \in DOMAIN parts : parts[i].node # Refused
  BY DEF Compound, Refusal

\* A document that a Json holds is written as it is.
LEMMA JsonsWritten ==
  ASSUME Recursion, NEW n \in Jsons, NodeEncoded(n).node # Refused
  PROVE  NodeEncoded(n).node = n
<1> DEFINE B == {m \in Jsons : NodeEncoded(m).node \notin {m, Refused}}
           N == {NodeNesting(m) : m \in B}
<1>1. N \in SUBSET Nat
  BY JsonsAssumption
<1>2. ASSUME NEW m \in B PROVE \E k \in B : NodeNesting(k) < NodeNesting(m)
  <2>1. NodeEncoded(m) = EncodeJson(m)
    BY DEF Recursion
  <2>2. EncodeJson(m).node \notin {m, Refused}
    BY <2>1
  <2>3. m[1] \in {"array", "object"}
    <3>1. CASE m[1] \in {"bad", "empty"}
      BY <2>2, <3>1 DEF EncodeJson, Refusal
    <3>2. CASE m[1] \notin {"array", "object", "bad", "empty"}
      BY <2>2, <3>2, JsonsAssumption DEF EncodeJson, One
    <3> QED
      BY <3>1, <3>2
  <2> DEFINE parts == [i \in DOMAIN m[2] |-> NodeEncoded(m[2][i])]
  <2>4. EncodeJson(m) = Compound(m[1], parts)
    BY <2>3 DEF EncodeJson
  <2>5. /\ EncodeJson(m).node = <<m[1], [i \in DOMAIN m[2] |-> parts[i].node]>>
        /\ \A i \in DOMAIN m[2] : parts[i].node # Refused
    BY <2>2, <2>4, CompoundNode
  <2>6. /\ m = <<m[1], m[2]>> /\ IsMap(m[2])
        /\ \A i \in DOMAIN m[2] : m[2][i] \in Jsons /\ NodeNesting(m[2][i]) < NodeNesting(m)
    BY <2>3, JsonsAssumption
  <2>7. \E i \in DOMAIN m[2] : parts[i].node # m[2][i]
    <3> SUFFICES ASSUME \A i \in DOMAIN m[2] : parts[i].node = m[2][i] PROVE FALSE
      OBVIOUS
    <3>1. [i \in DOMAIN m[2] |-> parts[i].node] = [i \in DOMAIN m[2] |-> m[2][i]]
      OBVIOUS
    <3>2. [i \in DOMAIN m[2] |-> parts[i].node] = m[2]
      BY <2>6, <3>1 DEF IsMap
    <3> QED
      BY <2>2, <2>5, <2>6, <3>2
  <2>8. PICK i \in DOMAIN m[2] : parts[i].node # m[2][i]
    BY <2>7
  <2>9. m[2][i] \in B
    BY <2>5, <2>6, <2>8
  <2> QED
    BY <2>6, <2>9
<1>3. B = {}
  <2> SUFFICES ASSUME N # {} PROVE FALSE
    OBVIOUS
  <2>1. PICK m \in B : NodeNesting(m) = Min(N)
    BY <1>1, LeastOf
  <2>2. PICK k \in B : NodeNesting(k) < NodeNesting(m)
    BY <1>2
  <2>3. NodeNesting(k) \in N /\ NodeNesting(m) \in Nat /\ NodeNesting(k) \in Nat
    BY JsonsAssumption
  <2>4. \A i \in N : Min(N) <= i
    BY <1>1, LeastOf
  <2> QED
    BY <2>1, <2>2, <2>3, <2>4
<1> QED
  BY <1>3

\* A value of a type that has no parts.
LEMMA ScalarOfType ==
  ASSUME NEW t, NEW v, HasType(t, v)
  PROVE  /\ t[1] = "bool" => v = <<"bool", v[2]>> /\ v[2] \in BOOLEAN
         /\ t[1] = "int" => v = <<"int", v[2]>> /\ v[2] \in t[2] .. t[3]
         /\ t[1] = "double" => v = NotANumber \/ (v = <<"double", v[2]>> /\ v[2] \in Int)
         /\ t[1] \in {"string", "date"} => v = <<t[1], v[2]>>
         /\ t[1] = "enum" => v = <<"enum", v[2]>> /\ v[2] \in t[4][2] .. t[4][3]
         /\ t[1] \in {"raw", "json"} => v = <<t[1], v[2]>> /\ v[2] \in Jsons
<1>1. \A tag, S : v \in {tag} \X S => v = <<tag, v[2]>> /\ v[2] \in S
  OBVIOUS
<1>2. t[1] = "bool" => v \in {"bool"} \X BOOLEAN
  BY DEF HasType
<1>3. t[1] = "int" => v \in {"int"} \X (t[2] .. t[3])
  BY Zenon DEF HasType
<1>4. t[1] = "double" => v = NotANumber \/ v \in {"double"} \X Int
  BY DEF HasType
<1>5. t[1] \in {"string", "date"} => v \in {t[1]} \X STRING
  BY DEF HasType
<1>6. t[1] = "enum" => v \in {"enum"} \X (t[4][2] .. t[4][3])
  BY DEF HasType
<1>7. t[1] \in {"raw", "json"} => v \in {t[1]} \X Jsons
  BY DEF HasType
<1> QED
  BY <1>1, <1>2, <1>3, <1>4, <1>5, <1>6, <1>7

\* A value of a type that has parts.
LEMMA PartsOfType ==
  ASSUME NEW t, NEW v, HasType(t, v)
  PROVE  /\ t[1] = "optional" => v = None \/ (v = <<"some", v[2]>> /\ HasTypePart(t[2], v[2]))
         /\ t[1] = "inline" => HasTypePart(t[2], v)
         /\ t[1] = "variant" => /\ v = <<"alternative", v[2], v[3]>> /\ v[2] \in 1 .. Len(t[2])
                                /\ HasTypePart(t[2][v[2]], v[3])
         /\ t[1] \in {"vector", "array", "map"} =>
              /\ v = <<IF t[1] = "map" THEN "object" ELSE "array", v[2]>> /\ IsMap(v[2])
              /\ t[1] = "vector" => DOMAIN v[2] = 1 .. Len(v[2])
              /\ t[1] = "array" => DOMAIN v[2] = 1 .. t[3]
              /\ t[1] = "map" => DOMAIN v[2] \subseteq Keys /\ IsFiniteSet(DOMAIN v[2])
              /\ \A i \in DOMAIN v[2] : HasTypePart(t[2], v[2][i])
         /\ t[1] = "struct" =>
              /\ v = <<"object", v[2]>> /\ IsMap(v[2]) /\ DOMAIN v[2] = FieldNames(t)
              /\ \A k \in FieldNames(t) : HasTypePart(FieldOf(t, k).type, v[2][k])
<1>1. t[1] = "optional" => v = None \/ (v = <<"some", v[2]>> /\ HasTypePart(t[2], v[2]))
  BY DEF HasType
<1>2. t[1] = "inline" => HasTypePart(t[2], v)
  BY DEF HasType
<1>3. t[1] = "variant" => /\ v = <<"alternative", v[2], v[3]>> /\ v[2] \in 1 .. Len(t[2])
                          /\ HasTypePart(t[2][v[2]], v[3])
  BY DEF HasType
<1>4. t[1] \in {"vector", "array", "map"} =>
         /\ v = <<IF t[1] = "map" THEN "object" ELSE "array", v[2]>> /\ IsMap(v[2])
         /\ t[1] = "vector" => DOMAIN v[2] = 1 .. Len(v[2])
         /\ t[1] = "array" => DOMAIN v[2] = 1 .. t[3]
         /\ t[1] = "map" => DOMAIN v[2] \subseteq Keys /\ IsFiniteSet(DOMAIN v[2])
         /\ \A i \in DOMAIN v[2] : HasTypePart(t[2], v[2][i])
  BY DEF HasType
<1>5. t[1] = "struct" =>
         /\ v = <<"object", v[2]>> /\ IsMap(v[2]) /\ DOMAIN v[2] = FieldNames(t)
         /\ \A k \in FieldNames(t) : HasTypePart(FieldOf(t, k).type, v[2][k])
  BY DEF HasType
<1> QED
  BY <1>1, <1>2, <1>3, <1>4, <1>5

\* A value is no refusal.
LEMMA ValuesAreReal ==
  ASSUME Recursion
  PROVE  \A t \in AllTypes : \A v : HasTypePart(t, v) => v[1] # "refused" /\ v # Refused
<1> DEFINE B == {t \in AllTypes : \E v : HasTypePart(t, v) /\ v[1] = "refused"}
<1>1. ASSUME NEW t \in AllTypes, t \in B PROVE \E u \in Inside(t) : u \in B
  <2>1. PICK v : HasTypePart(t, v) /\ v[1] = "refused"
    BY <1>1
  <2>2. HasType(t, v)
    BY <2>1 DEF Recursion, JudgesParts
  <2>3. t[1] = "inline"
    <3>1. t[1] \in {"bool", "int", "double", "string", "optional", "vector", "map", "raw",
                    "date", "enum", "array", "inline", "variant", "struct", "json"}
      BY TypeInside DEF IsType, Defaulted
    <3>2. CASE t[1] \in {"bool", "int", "double", "string", "date", "enum", "raw", "json"}
      <4>1. v[1] = t[1] \/ v = NotANumber
        BY <2>2, <3>2, ScalarOfType
      <4> QED
        BY <2>1, <3>2, <4>1 DEF NotANumber
    <3>3. CASE t[1] \in {"optional", "variant", "vector", "array", "map", "struct"}
      <4>1. v[1] \in {"none", "some", "alternative", "object", "array"}
        BY <2>2, <3>3, PartsOfType DEF None
      <4> QED
        BY <2>1, <4>1
    <3> QED
      BY <3>1, <3>2, <3>3
  <2>4. HasTypePart(t[2], v) /\ t[2] \in Inside(t)
    BY <2>2, <2>3 DEF HasType, Inside
  <2>5. t[2] \in AllTypes
    BY <2>4, TypeInside
  <2> QED
    BY <2>1, <2>4, <2>5
<1>2. B = {}
  BY <1>1, NoLeastType
<1> QED
  BY <1>2 DEF Refused

\* What kind of value a text is of.
NodeKind(n) ==
  CASE n[1] \in {"int", "double"} -> "number"
    [] n[1] \in {"bool", "string", "array", "object"} -> n[1]
    [] OTHER -> "any"

LEMMA TypeNames ==
  ASSUME NEW t \in AllTypes
  PROVE  t[1] \in {"bool", "int", "double", "string", "optional", "vector", "map", "raw",
                   "date", "enum", "array", "inline", "variant", "struct", "json"}
  BY TypeInside DEF IsType, Defaulted

\* What a value of a type that has no parts is written as.
LEMMA ScalarWritten ==
  ASSUME NEW t, NEW v, HasType(t, v), NEW b, JsonKeeps(t, b),
         NEW n, n = JsonEncode(t, v, b).node, n # Refused
  PROVE  /\ t[1] \in {"bool", "int", "string"} => n = v /\ n[1] = t[1]
         /\ t[1] = "double" => n = Text(v) /\ v = <<"double", v[2]>> /\ v[2] \in Int
         /\ t[1] = "date" => n = <<"string", v[2]>> /\ v[2] \in Dates
         /\ t[1] = "enum" => /\ Numbered(t, v[2]) # Refused
                             /\ n = IF t[3] THEN <<"string", EntryName(t, v[2])>> ELSE <<"int", v[2]>>
<1>1. \A m : m[1] # "double" => Text(m) = m
  BY DEF Text
<1>2. CASE t[1] \in {"bool", "int", "string"}
  <2>1. v = <<t[1], v[2]>> /\ v # NotANumber
    BY <1>2, ScalarOfType DEF NotANumber
  <2>2. JsonEncode(t, v, b) = One(v)
    BY <1>2, <2>1 DEF JsonEncode, EncodeScalar
  <2> QED
    BY <1>1, <1>2, <2>1, <2>2 DEF One
<1>3. CASE t[1] = "double"
  <2>1. v # NotANumber
    <3>1. ~ b
      BY <1>3 DEF JsonKeeps
    <3>2. v = NotANumber => JsonEncode(t, v, b) = Refusal
      BY <1>3, <3>1 DEF JsonEncode, EncodeScalar
    <3> QED
      BY <3>2 DEF Refusal
  <2>2. JsonEncode(t, v, b) = One(v)
    BY <1>3, <2>1 DEF JsonEncode, EncodeScalar
  <2> QED
    BY <1>3, <2>1, <2>2, ScalarOfType DEF One
<1>4. CASE t[1] = "date"
  <2>1. v # NotANumber
    <3>1. v = <<"date", v[2]>>
      BY <1>4, ScalarOfType
    <3> QED
      BY <3>1 DEF NotANumber
  <2>2. JsonEncode(t, v, b) = IF v[2] \in Dates THEN One(<<"string", v[2]>>) ELSE Refusal
    BY <1>4, <2>1 DEF JsonEncode, EncodeScalar
  <2>3. v[2] \in Dates /\ n = Text(<<"string", v[2]>>)
    BY <2>2 DEF Refusal, One
  <2> QED
    BY <1>1, <1>4, <2>3
<1>5. CASE t[1] = "enum"
  <2>1. JsonEncode(t, v, b) = EncodeEnum(t, v[2])
    BY <1>5 DEF JsonEncode
  <2>2. Numbered(t, v[2]) # Refused
    BY <2>1 DEF EncodeEnum, Refusal
  <2>3. JsonEncode(t, v, b) = Within(One(IF t[3] THEN <<"string", EntryName(t, v[2])>> ELSE <<"int", v[2]>>))
    BY <2>1, <2>2 DEF EncodeEnum
  <2>4. \A m : Within(One(m)).node = Text(m)
    BY DEF Within, One
  <2> QED
    BY <1>1, <1>5, <2>2, <2>3, <2>4
<1> QED
  BY <1>2, <1>3, <1>4, <1>5

LEMMA WrittenKind ==
  ASSUME NEW t \in AllTypes, NEW v, HasType(t, v), NEW b, JsonKeeps(t, b),
         NEW n, n = JsonEncode(t, v, b).node, n # Refused, KindOf(t) # "any"
  PROVE  NodeKind(n) = KindOf(t)
<1>1. t[1] \in {"bool", "int", "double", "string", "date", "enum", "vector", "array", "map", "struct"}
  BY TypeNames DEF KindOf
<1>2. CASE t[1] \in {"bool", "int", "string"}
  BY <1>2, ScalarWritten DEF NodeKind, KindOf
<1>3. CASE t[1] = "double"
  <2>1. n = Text(v) /\ v = <<"double", v[2]>>
    BY <1>3, ScalarWritten
  <2>2. n[1] \in {"int", "double"}
    BY <2>1 DEF Text
  <2> QED
    BY <1>3, <2>2 DEF NodeKind, KindOf
<1>4. CASE t[1] = "date"
  <2>1. n = <<"string", v[2]>>
    BY <1>4, ScalarWritten
  <2> QED
    BY <1>4, <2>1 DEF NodeKind, KindOf
<1>5. CASE t[1] = "enum"
  <2>1. n = IF t[3] THEN <<"string", EntryName(t, v[2])>> ELSE <<"int", v[2]>>
    BY <1>5, ScalarWritten
  <2>2. n[1] = IF t[3] THEN "string" ELSE "int"
    BY <2>1
  <2> QED
    BY <1>5, <2>2 DEF NodeKind, KindOf
<1>6. CASE t[1] \in {"vector", "array", "map", "struct"}
  <2> DEFINE tag == IF t[1] \in {"vector", "array"} THEN "array" ELSE "object"
  <2>1. \E parts : JsonEncode(t, v, b) = Compound(tag, parts)
    <3>1. CASE t[1] = "struct"
      BY <3>1 DEF JsonEncode, JsonEncodeFields
    <3>2. CASE t[1] # "struct"
      <4>1. v[1] = tag
        BY <1>6, <3>2, PartsOfType
      <4>2. JsonEncode(t, v, b) = EncodeContainer(t, v, b)
        BY <1>6, <3>2 DEF JsonEncode
      <4> QED
        BY <4>1, <4>2 DEF EncodeContainer
    <3> QED
      BY <3>1, <3>2
  <2>2. n[1] = tag
    <3>1. PICK parts : n = Compound(tag, parts).node
      BY <2>1
    <3>2. n = <<tag, [i \in DOMAIN parts |-> parts[i].node]>>
      BY <3>1, CompoundNode
    <3> QED
      BY <3>2
  <2> QED
    BY <1>6, <2>2 DEF NodeKind, KindOf
<1> QED
  BY <1>1, <1>2, <1>3, <1>4, <1>5, <1>6

LEMMA ReadKind ==
  ASSUME Recursion, NEW t \in AllTypes, NEW n, JsonDecode(t, n) # Refused, KindOf(t) # "any"
  PROVE  NodeKind(n) = KindOf(t)
<1>1. t[1] \in {"bool", "int", "double", "string", "date", "enum", "vector", "array", "map", "struct"}
  BY TypeNames DEF KindOf
<1>2. CASE t[1] \in {"bool", "int", "double", "string", "date"}
  <2>1. n[1] \in IF t[1] = "date" THEN {"string"} ELSE IF t[1] = "double" THEN {"int", "double"} ELSE {t[1]}
    BY <1>2 DEF JsonDecode, DecodeScalar
  <2> QED
    BY <1>2, <2>1 DEF NodeKind, KindOf
<1>3. CASE t[1] = "enum" /\ t[3]
  <2>1. n[1] = "string"
    BY <1>3 DEF JsonDecode, JsonDecodeEnum
  <2> QED
    BY <1>3, <2>1 DEF NodeKind, KindOf
<1>4. CASE t[1] = "enum" /\ ~ t[3]
  <2>1. t[4] \in AllTypes /\ t[4][1] = "int"
    BY <1>4, TypeInside DEF Inside, IsType, IntegerTypes
  <2>2. JsonDecode(t[4], n) # Refused
    BY <1>4, <2>1 DEF JsonDecode, JsonDecodeEnum, Recursion, ReadsParts
  <2>3. n[1] = "int"
    BY <2>1, <2>2 DEF JsonDecode, DecodeScalar
  <2> QED
    BY <1>4, <2>3 DEF NodeKind, KindOf
<1>5. CASE t[1] \in {"vector", "array", "map", "struct"}
  <2>1. n[1] = IF t[1] \in {"vector", "array"} THEN "array" ELSE "object"
    BY <1>5 DEF JsonDecode, DecodeContainer
  <2> QED
    BY <1>5, <2>1 DEF NodeKind, KindOf
<1> QED
  BY <1>1, <1>2, <1>3, <1>4, <1>5

\* Null is no text of a type that NeverNull() names.
LEMMA NotNull ==
  ASSUME Recursion, NEW t \in AllTypes, NEW v, HasType(t, v), NEW b, JsonKeeps(t, b), NeverNull(t),
         JsonEncode(t, v, b).node # Refused
  PROVE  JsonEncode(t, v, b).node # Null
<1> DEFINE NodeOf(u, w) == JsonEncode(u, w, b).node
<1>1. NodeKind(Null) = "any"
  BY DEF NodeKind, Null
<1>2. ASSUME NEW u \in AllTypes, NEW w, HasType(u, w), JsonKeeps(u, b), NodeOf(u, w) # Refused, KindOf(u) # "any"
      PROVE  NodeOf(u, w) # Null
  BY <1>1, <1>2, WrittenKind
<1>3. CASE t[1] = "inline"
  <2>1. t[2] \in AllTypes /\ KindOf(t[2]) # "any"
    BY <1>3, TypeInside DEF Inside, NeverNull
  <2>2. HasType(t[2], v) /\ JsonKeeps(t[2], b)
    <3>1. HasTypePart(t[2], v)
      BY <1>3, PartsOfType
    <3>2. JsonKeepsPart(t[2], b)
      BY <1>3 DEF JsonKeeps
    <3> QED
      BY <2>1, <3>1, <3>2 DEF Recursion, JudgesParts
  <2>3. JsonEncode(t, v, b) = Within(JsonEncode(t[2], v, b))
    BY <1>3, <2>1 DEF JsonEncode, Recursion, WritesParts
  <2>4. NodeOf(t, v) = NodeOf(t[2], v)
    BY <2>3 DEF Within
  <2> QED
    BY <1>2, <2>1, <2>2, <2>4
<1>4. CASE t[1] = "variant"
  <2> DEFINE u == t[2][v[2]]
             w == v[3]
  <2>1. v[2] \in 1 .. Len(t[2]) /\ HasTypePart(u, w)
    BY <1>4, PartsOfType
  <2>2. u \in Inside(t) /\ v[2] \in DOMAIN t[2]
    <3>1. t[2] \in Seq(Range(t[2]))
      BY <1>4, TypeInside DEF IsType
    <3>2. DOMAIN t[2] = 1 .. Len(t[2])
      BY <3>1
    <3> QED
      BY <1>4, <2>1, <3>2 DEF Inside, Range
  <2>3. u \in AllTypes
    BY <2>2, TypeInside
  <2>4. KindOf(u) # "any" /\ JsonKeepsPart(u, b)
    BY <1>4, <2>2 DEF JsonKeeps
  <2>5. HasType(u, w) /\ JsonKeeps(u, b)
    BY <2>1, <2>3, <2>4 DEF Recursion, JudgesParts
  <2>6. JsonEncode(t, v, b) = JsonEncode(u, w, b)
    BY <1>4, <2>3 DEF JsonEncode, Recursion, WritesParts
  <2> HIDE DEF u, w
  <2> QED
    BY <1>2, <2>3, <2>4, <2>5, <2>6
<1>5. CASE t[1] \notin {"inline", "variant"}
  BY <1>2, <1>5 DEF NeverNull
<1> QED
  BY <1>3, <1>4, <1>5

\* What is written of a value of t is read as it was.
ReadBack(t) ==
  \A v, b : HasTypePart(t, v) /\ JsonKeepsPart(t, b) /\ JsonEncoded(t, v, b).node # Refused =>
              JsonDecoded(t, JsonEncoded(t, v, b).node) = v

PartsBack(t) == \A u \in Inside(t) : ReadBack(u)

LEMMA ScalarBack ==
  ASSUME NEW t \in AllTypes, t[1] \in {"bool", "int", "double", "string", "date"},
         NEW v, HasType(t, v), NEW b, JsonKeeps(t, b), NEW n, n = JsonEncode(t, v, b).node, n # Refused
  PROVE  JsonDecode(t, n) = v
<1>1. CASE t[1] \in {"bool", "string"}
  <2>1. n = v /\ n[1] = t[1]
    BY <1>1, ScalarWritten
  <2> QED
    BY <1>1, <2>1 DEF JsonDecode, DecodeScalar
<1>2. CASE t[1] = "int"
  <2>1. n = v /\ n[1] = "int" /\ v = <<"int", v[2]>> /\ v[2] \in t[2] .. t[3]
    BY <1>2, ScalarWritten, ScalarOfType
  <2>2. t \in IntegerTypes /\ Int64Max \in Nat
    BY <1>2, Int64Assumption, TypeInside DEF IsType
  <2>3. v[2] \in Int /\ v[2] \in - Int64Max - 1 .. UInt64Max
    BY <2>1, <2>2 DEF IntegerTypes, UInt64Max
  <2>4. JsonInteger(t, v[2]) = <<"int", v[2]>>
    BY <2>1, <2>2, <2>3, JsonIntegers DEF Exactly
  <2> QED
    BY <1>2, <2>1, <2>4 DEF JsonDecode, DecodeScalar
<1>3. CASE t[1] = "double"
  <2>1. n = Text(v) /\ v = <<"double", v[2]>> /\ v[2] \in Int
    BY <1>3, ScalarWritten
  <2>2. CASE n = <<"int", v[2] \div 2>> /\ v[2] % 2 = 0
    <3>1. 2 * (v[2] \div 2) = v[2]
      BY <2>1, <2>2
    <3>2. JsonDecode(t, n) = <<"double", 2 * n[2]>>
      BY <1>3, <2>2 DEF JsonDecode, DecodeScalar
    <3> QED
      BY <2>1, <2>2, <3>1, <3>2
  <2>3. CASE n = v
    <3>1. n[1] = "double"
      BY <2>1, <2>3
    <3> QED
      BY <1>3, <2>3, <3>1 DEF JsonDecode, DecodeScalar
  <2> QED
    BY <2>1, <2>2, <2>3 DEF Text
<1>4. CASE t[1] = "date"
  <2>1. n = <<"string", v[2]>> /\ v[2] \in Dates /\ v = <<"date", v[2]>>
    BY <1>4, ScalarWritten, ScalarOfType
  <2> QED
    BY <1>4, <2>1 DEF JsonDecode, DecodeScalar
<1> QED
  BY <1>1, <1>2, <1>3, <1>4

\* The entries of a valid descriptor have names of their own.
LEMMA NamedBack ==
  ASSUME NEW t \in AllTypes, t[1] = "enum", NEW m, Numbered(t, m) # Refused
  PROVE  Named(t, EntryName(t, m)) = <<"enum", m>>
<1>1. ValidDescriptor(t) /\ \E e \in Range(t[2]) : e[1] = m
  BY DEF Numbered
<1>2. PICK e \in Range(t[2]) : e[1] = m /\ EntryName(t, m) = e[2]
  BY <1>1 DEF EntryName
<1>3. PICK d \in Range(t[2]) : d[2] = e[2] /\ Named(t, e[2]) = <<"enum", d[1]>>
  BY <1>1 DEF Named
<1>4. t[2] \in Seq(Range(t[2]))
  BY TypeInside DEF IsType
<1>5. PICK i \in 1 .. Len(t[2]), j \in 1 .. Len(t[2]) : t[2][i] = e /\ t[2][j] = d
  BY <1>4 DEF Range
<1>6. Len(t[2]) \in Nat
  BY <1>4
<1>7. i = j
  <2>1. CASE i < j
    <3>1. i \in 1 .. j - 1
      BY <1>6, <2>1
    <3> QED
      BY <1>1, <1>3, <1>5, <3>1 DEF ValidDescriptor
  <2>2. CASE j < i
    <3>1. j \in 1 .. i - 1
      BY <1>6, <2>2
    <3> QED
      BY <1>1, <1>3, <1>5, <3>1 DEF ValidDescriptor
  <2> QED
    BY <1>6, <2>1, <2>2
<1> QED
  BY <1>2, <1>3, <1>5, <1>7

LEMMA EnumBack ==
  ASSUME Recursion, NEW t \in AllTypes, t[1] = "enum",
         NEW v, HasType(t, v), NEW b, JsonKeeps(t, b), NEW n, n = JsonEncode(t, v, b).node, n # Refused
  PROVE  JsonDecode(t, n) = v
<1>1. /\ Numbered(t, v[2]) # Refused /\ v = <<"enum", v[2]>> /\ v[2] \in t[4][2] .. t[4][3]
      /\ n = IF t[3] THEN <<"string", EntryName(t, v[2])>> ELSE <<"int", v[2]>>
  BY ScalarWritten, ScalarOfType
<1>2. CASE t[3]
  <2>1. JsonDecode(t, n) = Named(t, EntryName(t, v[2]))
    BY <1>1, <1>2 DEF JsonDecode, JsonDecodeEnum
  <2> QED
    BY <1>1, <2>1, NamedBack
<1>3. CASE ~ t[3]
  <2>1. t[4] \in AllTypes /\ t[4] \in IntegerTypes /\ t[4][1] = "int" /\ Int64Max \in Nat
    BY TypeInside, Int64Assumption DEF Inside, IsType, IntegerTypes
  <2>2. v[2] \in Int /\ v[2] \in - Int64Max - 1 .. UInt64Max
    BY <1>1, <2>1 DEF IntegerTypes, UInt64Max
  <2>3. JsonInteger(t[4], v[2]) = <<"int", v[2]>>
    BY <1>1, <2>1, <2>2, JsonIntegers DEF Exactly
  <2>4. JsonDecode(t[4], n) = <<"int", v[2]>>
    BY <1>1, <1>3, <2>1, <2>3 DEF JsonDecode, DecodeScalar
  <2>5. JsonDecoded(t[4], n) = <<"int", v[2]>>
    BY <2>1, <2>4 DEF Recursion, ReadsParts
  <2>6. JsonDecode(t, n) = Numbered(t, v[2])
    BY <1>3, <2>5 DEF JsonDecode, JsonDecodeEnum, Refused
  <2> QED
    BY <1>1, <2>6 DEF Numbered
<1> QED
  BY <1>2, <1>3

LEMMA DocumentBack ==
  ASSUME Recursion, NEW t \in AllTypes, t[1] \in {"raw", "json"},
         NEW v, HasType(t, v), NEW b, NEW n, n = JsonEncode(t, v, b).node, n # Refused
  PROVE  JsonDecode(t, n) = v
<1>1. v = <<t[1], v[2]>> /\ v[2] \in Jsons
  BY ScalarOfType
<1>2. n = NodeEncoded(v[2]).node
  BY DEF JsonEncode
<1>3. n = v[2]
  BY <1>1, <1>2, JsonsWritten
<1> QED
  BY <1>1, <1>3 DEF JsonDecode

LEMMA OptionalBack ==
  ASSUME Recursion, NEW t \in AllTypes, t[1] = "optional", PartsBack(t),
         NEW v, HasType(t, v), NEW b, JsonKeeps(t, b), NEW n, n = JsonEncode(t, v, b).node, n # Refused
  PROVE  JsonDecode(t, n) = v
<1>1. Sound(t[2])
  <2>1. ~ Sound(t[2]) => JsonEncode(t, v, b) = Refusal
    BY DEF JsonEncode
  <2> QED
    BY <2>1 DEF Refusal
<1>2. CASE v = None
  <2>1. n = Null
    <3>1. JsonEncode(t, v, b) = One(Null)
      BY <1>1, <1>2 DEF JsonEncode
    <3> QED
      BY <3>1 DEF One, Text, Null
  <2> QED
    BY <1>1, <1>2, <2>1 DEF JsonDecode
<1>3. CASE v # None
  <2> DEFINE u == t[2]
             w == v[2]
  <2>1. u \in AllTypes /\ ReadBack(u)
    BY TypeInside DEF Inside, PartsBack
  <2>2. v = <<"some", w>> /\ HasTypePart(u, w)
    BY <1>3, PartsOfType
  <2>3. NeverNull(u) /\ JsonKeepsPart(u, b)
    BY DEF JsonKeeps
  <2>4. n = JsonEncoded(u, w, b).node
    <3>1. JsonEncode(t, v, b) = Within(JsonEncoded(u, w, b))
      BY <1>1, <1>3 DEF JsonEncode
    <3> QED
      BY <3>1 DEF Within
  <2> HIDE DEF u, w
  <2>5. n # Null
    BY <2>1, <2>2, <2>3, <2>4, NotNull DEF Recursion, JudgesParts, WritesParts
  <2>6. JsonDecoded(u, n) = w
    BY <2>1, <2>2, <2>3, <2>4 DEF ReadBack
  <2>7. w # Refused
    BY <2>1, <2>2, ValuesAreReal
  <2>8. JsonDecode(t, n) = IF JsonDecoded(u, n) = Refused THEN Refused ELSE <<"some", JsonDecoded(u, n)>>
    BY <1>1, <2>5 DEF JsonDecode, u
  <2> QED
    BY <2>2, <2>6, <2>7, <2>8
<1> QED
  BY <1>2, <1>3

LEMMA InlineBack ==
  ASSUME Recursion, NEW t \in AllTypes, t[1] = "inline", PartsBack(t),
         NEW v, HasType(t, v), NEW b, JsonKeeps(t, b), NEW n, n = JsonEncode(t, v, b).node, n # Refused
  PROVE  JsonDecode(t, n) = v
<1>1. ReadBack(t[2])
  BY DEF Inside, PartsBack
<1>2. HasTypePart(t[2], v) /\ JsonKeepsPart(t[2], b)
  BY PartsOfType DEF JsonKeeps
<1>3. n = JsonEncoded(t[2], v, b).node
  <2>1. JsonEncode(t, v, b) = Within(JsonEncoded(t[2], v, b))
    BY DEF JsonEncode
  <2> QED
    BY <2>1 DEF Within
<1>4. JsonDecode(t, n) = JsonDecoded(t[2], n)
  BY DEF JsonDecode
<1> QED
  BY <1>1, <1>2, <1>3, <1>4 DEF ReadBack

LEMMA VariantBack ==
  ASSUME Recursion, NEW t \in AllTypes, t[1] = "variant", PartsBack(t),
         NEW v, HasType(t, v), NEW b, JsonKeeps(t, b), NEW n, n = JsonEncode(t, v, b).node, n # Refused
  PROVE  JsonDecode(t, n) = v
<1> DEFINE i == v[2]
           w == v[3]
           fit == {j \in DOMAIN t[2] : JsonDecoded(t[2][j], n) # Refused}
<1>1. v = <<"alternative", i, w>> /\ i \in 1 .. Len(t[2]) /\ HasTypePart(t[2][i], w)
  BY PartsOfType
<1>2. t[2] \in Seq(Range(t[2])) /\ DOMAIN t[2] = 1 .. Len(t[2]) /\ Len(t[2]) \in Nat
  <2>1. t[2] \in Seq(Range(t[2]))
    BY TypeInside DEF IsType
  <2> QED
    BY <2>1
<1>3. \A j \in DOMAIN t[2] : t[2][j] \in AllTypes /\ t[2][j] \in Inside(t)
  BY TypeInside DEF Inside, Range
<1>4. \A j \in DOMAIN t[2] : KindOf(t[2][j]) # "any" /\ JsonKeepsPart(t[2][j], b)
  BY DEF JsonKeeps
<1>5. \A j \in DOMAIN t[2] : j # i => KindOf(t[2][j]) # KindOf(t[2][i])
  BY <1>1, <1>2 DEF JsonKeeps
<1>6. n = JsonEncoded(t[2][i], w, b).node
  BY DEF JsonEncode
<1>7. JsonDecode(t, n) = IF fit = {} THEN Refused
                         ELSE <<"alternative", Min(fit), JsonDecoded(t[2][Min(fit)], n)>>
  BY DEF JsonDecode, DecodeVariant
<1> HIDE DEF i, w
<1>8. i \in DOMAIN t[2] /\ JsonDecoded(t[2][i], n) = w /\ w # Refused
  <2>1. i \in DOMAIN t[2]
    BY <1>1, <1>2
  <2>2. ReadBack(t[2][i])
    BY <1>3, <2>1 DEF PartsBack
  <2>3. JsonDecoded(t[2][i], n) = w
    BY <1>1, <1>4, <1>6, <2>1, <2>2 DEF ReadBack
  <2>4. w # Refused
    BY <1>1, <1>3, <2>1, ValuesAreReal
  <2> QED
    BY <2>1, <2>3, <2>4
<1>9. NodeKind(n) = KindOf(t[2][i])
  <2>1. HasType(t[2][i], w) /\ JsonKeeps(t[2][i], b) /\ n = JsonEncode(t[2][i], w, b).node
    BY <1>1, <1>3, <1>4, <1>6, <1>8 DEF Recursion, JudgesParts, WritesParts
  <2> QED
    BY <1>3, <1>4, <1>8, <2>1, WrittenKind
<1>10. ASSUME NEW j \in fit PROVE j = i
  <2>1. JsonDecode(t[2][j], n) # Refused
    BY <1>3 DEF Recursion, ReadsParts
  <2>2. NodeKind(n) = KindOf(t[2][j])
    BY <1>3, <1>4, <2>1, ReadKind
  <2> QED
    BY <1>5, <1>9, <2>2
<1>11. fit = {i} /\ i \in Nat
  BY <1>2, <1>8, <1>10
<1> HIDE DEF fit
<1>12. Min(fit) = i
  BY <1>11, LeastOf
<1> QED
  BY <1>1, <1>7, <1>8, <1>11, <1>12

\* Parts that are read back make the whole that they were parts of.
LEMMA WholeBack ==
  ASSUME NEW tag, NEW whole, IsMap(whole), NEW parts, DOMAIN parts = DOMAIN whole, parts = [i \in DOMAIN whole |-> parts[i]],
         \A i \in DOMAIN whole : parts[i] = whole[i] /\ whole[i] # Refused
  PROVE  All(tag, parts) = <<tag, whole>>
<1>1. [i \in DOMAIN whole |-> parts[i]] = [i \in DOMAIN whole |-> whole[i]]
  OBVIOUS
<1>2. parts = whole
  BY <1>1 DEF IsMap
<1> QED
  BY <1>2 DEF All

LEMMA ContainerBack ==
  ASSUME Recursion, NEW t \in AllTypes, t[1] \in {"vector", "array", "map"}, PartsBack(t),
         NEW v, HasType(t, v), NEW b, JsonKeeps(t, b), NEW n, n = JsonEncode(t, v, b).node, n # Refused
  PROVE  JsonDecode(t, n) = v
<1> DEFINE u == t[2]
           w == v[2]
           tag == IF t[1] = "map" THEN "object" ELSE "array"
           written == [i \in DOMAIN w |-> JsonEncoded(u, w[i], b)]
           parts == [i \in DOMAIN n[2] |-> JsonDecoded(u, n[2][i])]
<1>1. /\ v = <<tag, w>> /\ IsMap(w) /\ (t[1] = "array" => DOMAIN w = 1 .. t[3])
      /\ \A i \in DOMAIN w : HasTypePart(u, w[i])
  BY PartsOfType
<1>2. u \in AllTypes /\ ReadBack(u) /\ JsonKeepsPart(u, b)
  BY TypeInside DEF Inside, PartsBack, JsonKeeps
<1>3. JsonEncode(t, v, b) = Compound(tag, written)
  <2>1. JsonEncode(t, v, b) = EncodeContainer(t, v, b)
    BY DEF JsonEncode
  <2> QED
    BY <1>1, <2>1 DEF EncodeContainer
<1>4. /\ n = <<tag, [i \in DOMAIN written |-> written[i].node]>>
      /\ \A i \in DOMAIN written : written[i].node # Refused
  BY <1>3, CompoundNode
<1>5. /\ n[1] = tag /\ DOMAIN n[2] = DOMAIN w
      /\ \A i \in DOMAIN w : n[2][i] = JsonEncoded(u, w[i], b).node /\ n[2][i] # Refused
  BY <1>4
<1>6. JsonDecode(t, n) = All(tag, parts)
  <2>1. JsonDecode(t, n) = DecodeContainer(t, n)
    BY DEF JsonDecode
  <2>2. RightSize(t, n[2])
    BY <1>1, <1>5 DEF RightSize
  <2> QED
    BY <1>5, <2>1, <2>2 DEF DecodeContainer
<1> HIDE DEF u, w, tag, written
<1>7. \A i \in DOMAIN w : JsonDecoded(u, n[2][i]) = w[i] /\ w[i] # Refused
  BY <1>1, <1>2, <1>5, ValuesAreReal DEF ReadBack
<1>8. DOMAIN parts = DOMAIN w /\ parts = [i \in DOMAIN w |-> parts[i]] /\ \A i \in DOMAIN w : parts[i] = w[i]
  BY <1>5, <1>7
<1> HIDE DEF parts
<1> QED
  BY <1>1, <1>6, <1>7, <1>8, WholeBack

\* Members with the policy raw.
LEMMA RawTextBack ==
  ASSUME Recursion, NEW t \in AllTypes, t[1] = "raw",
         NEW v, HasTypePart(t, v), NEW n, n = RawEncoded(t, v).node, n # Refused
  PROVE  RawDecoded(t, n) = v
<1>1. v = <<"raw", v[2]>> /\ v[2] \in Jsons
  BY ScalarOfType DEF Recursion, JudgesParts
<1>2. RawEncoded(t, v) = EncodeRaw(t, v) /\ RawDecoded(t, n) = DecodeRaw(t, n)
  BY DEF Recursion, WritesParts, ReadsParts
<1>3. n = NodeEncoded(v[2]).node /\ DecodeRaw(t, n) = <<"raw", n>>
  BY <1>2 DEF EncodeRaw, DecodeRaw
<1> QED
  BY <1>1, <1>2, <1>3, JsonsWritten

LEMMA RawBack ==
  ASSUME Recursion, NEW t \in AllTypes, IsRaw(t),
         NEW v, HasTypePart(t, v), NEW n, n = RawEncoded(t, v).node, n # Refused
  PROVE  RawDecoded(t, n) = v
<1>1. CASE t[1] = "raw"
  BY <1>1, RawTextBack
<1>2. CASE t[1] = "vector" /\ t[2][1] = "raw"
  <2> DEFINE u == t[2]
             w == v[2]
             written == [i \in DOMAIN w |-> RawEncoded(u, w[i])]
             parts == [i \in DOMAIN n[2] |-> RawDecoded(u, n[2][i])]
  <2>1. u \in AllTypes /\ u[1] = "raw"
    BY <1>2, TypeInside DEF Inside
  <2>2. v = <<"array", w>> /\ IsMap(w) /\ \A i \in DOMAIN w : HasTypePart(u, w[i])
    <3>1. HasType(t, v)
      BY DEF Recursion, JudgesParts
    <3> QED
      BY <1>2, <3>1, PartsOfType
  <2>3. n = Compound("array", written).node
    BY <1>2 DEF Recursion, WritesParts, EncodeRaw
  <2>4. /\ n = <<"array", [i \in DOMAIN written |-> written[i].node]>>
        /\ \A i \in DOMAIN written : written[i].node # Refused
    BY <2>3, CompoundNode
  <2>5. /\ n[1] = "array" /\ DOMAIN n[2] = DOMAIN w
        /\ \A i \in DOMAIN w : n[2][i] = RawEncoded(u, w[i]).node /\ n[2][i] # Refused
    BY <2>4
  <2>6. RawDecoded(t, n) = All("array", parts)
    BY <1>2, <2>5 DEF Recursion, ReadsParts, DecodeRaw
  <2> HIDE DEF u, w, written
  <2>7. \A i \in DOMAIN w : RawDecoded(u, n[2][i]) = w[i] /\ w[i] # Refused
    BY <2>1, <2>2, <2>5, RawTextBack, ValuesAreReal
  <2>8. DOMAIN parts = DOMAIN w /\ parts = [i \in DOMAIN w |-> parts[i]] /\ \A i \in DOMAIN w : parts[i] = w[i]
    BY <2>5, <2>7
  <2> HIDE DEF parts
  <2> QED
    BY <2>2, <2>6, <2>7, <2>8, WholeBack
<1> QED
  BY <1>1, <1>2 DEF IsRaw

LEMMA RawMemberBack ==
  ASSUME Recursion, NEW t \in AllTypes, RawKeeps(t), NEW v, HasTypePart(t, v), v # None,
         NEW n, n = RawEncoded(t, v).node, n # Refused
  PROVE  RawDecoded(t, n) = v
<1>1. CASE t[1] # "optional"
  BY <1>1, RawBack DEF RawKeeps
<1>2. CASE t[1] = "optional"
  <2>1. t[2] \in AllTypes /\ IsRaw(t[2])
    BY <1>2, TypeInside DEF Inside, RawKeeps
  <2>2. v = <<"some", v[2]>> /\ HasTypePart(t[2], v[2])
    BY <1>2, PartsOfType DEF Recursion, JudgesParts
  <2>3. n = RawEncoded(t[2], v[2]).node
    BY <1>2 DEF Recursion, WritesParts, EncodeRaw
  <2>4. RawDecoded(t[2], n) = v[2] /\ v[2] # Refused
    BY <2>1, <2>2, <2>3, RawBack, ValuesAreReal
  <2>5. RawDecoded(t, n) = IF RawDecoded(t[2], n) = Refused THEN Refused ELSE <<"some", RawDecoded(t[2], n)>>
    BY <1>2 DEF Recursion, ReadsParts, DecodeRaw
  <2> QED
    BY <2>2, <2>4, <2>5
<1> QED
  BY <1>1, <1>2

\* A member that is left out is found again.
LEMMA OmittedBack ==
  ASSUME NEW f, IsField(f), Recovers(f), NEW v, HasType(f.type, v), Omits(f, v)
  PROVE  IF "optional" \in f.policy THEN Default(f.type) = v
         ELSE f.type[1] = "optional" /\ ValidField(f, None) /\ v = None
<1>1. {"omit_empty", "omit_false", "presence_object"} \cap f.policy # {}
  BY DEF Omits
<1>2. CASE "optional" \in f.policy
  <2>1. f.type[1] \in {"bool", "int", "double", "string", "optional", "vector", "map", "raw"}
    BY <1>2 DEF IsField, Defaulted
  <2>2. CASE f.type[1] = "bool" /\ ~ v[2]
    <3>1. v = <<"bool", v[2]>> /\ v[2] = FALSE
      BY <2>2, ScalarOfType
    <3> QED
      BY <1>2, <2>2, <3>1 DEF Default
  <2>3. CASE EmptyField(f.type, v)
    <3>1. CASE f.type[1] = "optional"
      BY <1>2, <2>3, <3>1 DEF EmptyField, Default
    <3>2. CASE f.type[1] \in {"vector", "map"}
      <4>1. v = <<IF f.type[1] = "map" THEN "object" ELSE "array", v[2]>>
        BY <3>2, PartsOfType
      <4>2. v[2] = <<>>
        BY <2>3, <3>2 DEF EmptyField
      <4> QED
        BY <1>2, <3>2, <4>1, <4>2 DEF Default
    <3>3. CASE f.type[1] = "string"
      <4>1. v = <<"string", v[2]>> /\ v[2] = ""
        BY <2>3, <3>3, ScalarOfType DEF EmptyField
      <4> QED
        BY <1>2, <3>3, <4>1 DEF Default
    <3>4. CASE f.type[1] = "raw"
      <4>1. v = <<"raw", v[2]>> /\ v[2] = <<"empty">>
        BY <2>3, <3>4, ScalarOfType DEF EmptyField
      <4> QED
        BY <1>2, <3>4, <4>1 DEF Default
    <3>5. CASE f.type[1] \in {"bool", "int", "double"}
      BY <2>3, <3>5 DEF EmptyField
    <3> QED
      BY <2>1, <3>1, <3>2, <3>3, <3>4, <3>5
  <2> QED
    BY <2>2, <2>3 DEF Omits
<1>3. CASE "optional" \notin f.policy
  <2>1. f.type[1] = "optional" /\ Sound(OptionalValue(f.type))
    BY <1>1, <1>3 DEF Recovers
  <2>2. v = None
    BY <2>1 DEF Omits, EmptyField
  <2>3. f.options = <<>>
    BY <1>1 DEF IsField
  <2>4. DOMAIN f.options = {}
    BY <2>3
  <2>5. ValidOptions(f.type, f.options)
    BY <2>1, <2>4 DEF ValidOptions, Bounds
  <2>6. ValidFieldValue(f.type, None, f.options)
    BY <2>1 DEF ValidFieldValue
  <2> QED
    BY <1>3, <2>1, <2>2, <2>5, <2>6 DEF ValidField
<1> QED
  BY <1>2, <1>3

\* A member that is written is read as it was.
LEMMA MemberBack ==
  ASSUME Recursion, NEW f, f.type \in AllTypes, ReadBack(f.type), Recovers(f), NEW b,
         IF "raw" \in f.policy THEN RawKeeps(f.type) ELSE JsonKeepsPart(f.type, b),
         NEW v, HasTypePart(f.type, v), ~ Omits(f, v), ValidField(f, v),
         NEW n, n = EncodeField(f, v, b).node, n # Refused
  PROVE  DecodeMember(f, n) = v
<1>1. HasType(f.type, v) /\ v # Refused
  BY ValuesAreReal DEF Recursion, JudgesParts
<1>2. "empty_object" \notin f.policy
  BY DEF Recovers
<1>3. CASE "presence_object" \in f.policy /\ f.type[1] = "bool"
  <2>1. v = <<"bool", v[2]>> /\ v[2] \in BOOLEAN
    BY <1>1, <1>3, ScalarOfType
  <2>2. v[2]
    BY <1>3 DEF Omits
  <2>3. n = <<"object", <<>>>>
    BY <1>3 DEF EncodeField, Free
  <2>4. n # Null
    BY <2>3 DEF Null
  <2>5. DecodeWireField(f, n) = <<"bool", TRUE>>
    BY <1>3, <2>4 DEF DecodeWireField
  <2>6. v = <<"bool", TRUE>>
    BY <2>1, <2>2
  <2> QED
    BY <1>1, <2>5, <2>6 DEF DecodeMember
<1>4. CASE ~ ("presence_object" \in f.policy /\ f.type[1] = "bool") /\ "raw" \in f.policy
  <2>1. n = RawEncoded(f.type, v).node /\ HasShape(f, n)
    BY <1>2, <1>4 DEF EncodeField, Refusal
  <2>2. v # None
    <3>1. f.type[1] = "optional" => "omit_empty" \in f.policy
      BY <1>4 DEF Recovers
    <3>2. f.type[1] = "optional" => v # None
      BY <3>1 DEF Omits, EmptyField
    <3>3. f.type[1] # "optional" => v[1] \in {"raw", "array"}
      BY <1>1, <1>4, ScalarOfType, PartsOfType DEF RawKeeps, IsRaw
    <3> QED
      BY <3>2, <3>3 DEF None
  <2>3. RawDecoded(f.type, n) = v
    BY <1>4, <2>1, <2>2, RawMemberBack
  <2>4. "reject_null" \notin f.policy
    BY <1>4 DEF Recovers
  <2>5. DecodeWireField(f, n) = v
    BY <1>4, <2>1, <2>3, <2>4 DEF DecodeWireField
  <2> QED
    BY <1>1, <2>5 DEF DecodeMember
<1>5. CASE ~ ("presence_object" \in f.policy /\ f.type[1] = "bool") /\ "raw" \notin f.policy
  <2>1. n = JsonEncoded(f.type, v, b).node /\ JsonKeepsPart(f.type, b)
    BY <1>5 DEF EncodeField
  <2>2. JsonDecoded(f.type, n) = v
    BY <2>1 DEF ReadBack
  <2>3. HasShape(f, n)
    BY <1>5 DEF Recovers, HasShape
  <2>4. n = JsonEncode(f.type, v, b).node /\ JsonKeeps(f.type, b)
    BY <2>1 DEF Recursion, WritesParts, JudgesParts
  <2>5. ASSUME "reject_null" \in f.policy PROVE n # Null
    <3>1. CASE f.type[1] = "optional"
      <4>1. v # None
        BY <2>5, <3>1 DEF Recovers, Omits, EmptyField
      <4>2. v = <<"some", v[2]>> /\ HasTypePart(f.type[2], v[2])
        BY <1>1, <3>1, <4>1, PartsOfType
      <4>3. NeverNull(f.type[2]) /\ JsonKeepsPart(f.type[2], b) /\ f.type[2] \in AllTypes
        BY <2>4, <3>1, TypeInside DEF JsonKeeps, Inside
      <4>4. Sound(f.type[2])
        <5>1. ~ Sound(f.type[2]) => JsonEncode(f.type, v, b) = Refusal
          BY <3>1 DEF JsonEncode
        <5> QED
          BY <2>4, <5>1 DEF Refusal
      <4>5. n = JsonEncoded(f.type[2], v[2], b).node
        <5>1. JsonEncode(f.type, v, b) = Within(JsonEncoded(f.type[2], v[2], b))
          BY <3>1, <4>1, <4>4 DEF JsonEncode
        <5> QED
          BY <2>4, <5>1 DEF Within
      <4>6. /\ HasType(f.type[2], v[2]) /\ JsonKeeps(f.type[2], b)
            /\ n = JsonEncode(f.type[2], v[2], b).node
        BY <4>2, <4>3, <4>5 DEF Recursion, WritesParts, JudgesParts
      <4> QED
        BY <4>3, <4>6, NotNull
    <3>2. CASE f.type[1] # "optional"
      <4>1. NeverNull(f.type)
        BY <2>5, <3>2 DEF Recovers
      <4> QED
        BY <1>1, <2>4, <4>1, NotNull
    <3> QED
      BY <3>1, <3>2
  <2>6. DecodeWireField(f, n) = v
    BY <1>5, <2>2, <2>3, <2>5 DEF DecodeWireField
  <2> QED
    BY <1>1, <2>6 DEF DecodeMember
<1> QED
  BY <1>3, <1>4, <1>5

LEMMA StructBack ==
  ASSUME Recursion, NEW t \in AllTypes, t[1] = "struct", PartsBack(t),
         NEW v, HasType(t, v), NEW b, JsonKeeps(t, b), NEW n, n = JsonEncode(t, v, b).node, n # Refused
  PROVE  JsonDecode(t, n) = v
<1> DEFINE w == v[2]
           Of(k) == FieldOf(t, k)
           Part(k) == IF ValidField(Of(k), w[k]) THEN EncodeField(Of(k), w[k], b) ELSE Refusal
           kept == {k \in FieldNames(t) : ~ Omits(Of(k), w[k])}
           written == [k \in kept |-> Part(k)]
           Read(k) == IF k \in DOMAIN n[2] THEN DecodeMember(Of(k), n[2][k])
                      ELSE IF "optional" \in Of(k).policy THEN Default(Of(k).type)
                      ELSE IF Of(k).type[1] = "optional" /\ ValidField(Of(k), None) THEN None
                      ELSE Refused
           parts == [k \in FieldNames(t) |-> Read(k)]
<1>1. v = <<"object", w>> /\ IsMap(w) /\ DOMAIN w = FieldNames(t)
  BY PartsOfType
<1>2. ASSUME NEW k \in FieldNames(t)
      PROVE  /\ Of(k).type \in AllTypes /\ IsField(Of(k)) /\ ReadBack(Of(k).type) /\ Recovers(Of(k))
             /\ IF "raw" \in Of(k).policy THEN RawKeeps(Of(k).type) ELSE JsonKeepsPart(Of(k).type, b)
             /\ HasTypePart(Of(k).type, w[k]) /\ HasType(Of(k).type, w[k]) /\ w[k] # Refused
  <2>1. Of(k).type \in AllTypes /\ IsField(Of(k)) /\ ReadBack(Of(k).type)
    BY FieldsInside DEF PartsBack
  <2>2. PICK i \in 1 .. Len(t[2]) : Of(k) = t[2][i]
    <3>1. \E i \in 1 .. Len(t[2]) : t[2][i].name = k
      BY DEF FieldNames
    <3> QED
      BY <3>1 DEF FieldOf
  <2>3. /\ Recovers(Of(k))
        /\ IF "raw" \in Of(k).policy THEN RawKeeps(Of(k).type) ELSE JsonKeepsPart(Of(k).type, b)
    BY <2>2 DEF JsonKeeps
  <2>4. HasTypePart(Of(k).type, w[k])
    BY PartsOfType
  <2>5. HasType(Of(k).type, w[k]) /\ w[k] # Refused
    BY <2>1, <2>4, ValuesAreReal DEF Recursion, JudgesParts
  <2> QED
    BY <2>1, <2>3, <2>4, <2>5
<1>3. JsonEncode(t, v, b) = Compound("object", written)
  BY DEF JsonEncode, JsonEncodeFields
<1>4. /\ n = <<"object", [k \in DOMAIN written |-> written[k].node]>>
      /\ \A k \in DOMAIN written : written[k].node # Refused
  BY <1>3, CompoundNode
<1>5. /\ n[1] = "object" /\ DOMAIN n[2] = kept
      /\ \A k \in kept : n[2][k] = Part(k).node /\ n[2][k] # Refused
  BY <1>4
<1>6. JsonDecode(t, n) = All("object", parts)
  BY <1>5 DEF JsonDecode, JsonDecodeFields
<1>7. ASSUME NEW k \in FieldNames(t) PROVE Read(k) = w[k]
  <2>1. CASE k \in kept
    <3>1. /\ ValidField(Of(k), w[k]) /\ n[2][k] = EncodeField(Of(k), w[k], b).node /\ n[2][k] # Refused
          /\ ~ Omits(Of(k), w[k])
      BY <1>5, <2>1 DEF Refusal
    <3>2. DecodeMember(Of(k), n[2][k]) = w[k]
      BY <1>2, <3>1, MemberBack
    <3> QED
      BY <1>5, <2>1, <3>2
  <2>2. CASE k \notin kept
    <3>1. Omits(Of(k), w[k])
      BY <2>2
    <3> QED
      BY <1>2, <1>5, <2>2, <3>1, OmittedBack
  <2> QED
    BY <2>1, <2>2
<1>8. DOMAIN parts = DOMAIN w /\ parts = [k \in DOMAIN w |-> parts[k]] /\ \A k \in DOMAIN w : parts[k] = w[k] /\ w[k] # Refused
  BY <1>1, <1>2, <1>7
<1> HIDE DEF parts
<1> QED
  BY <1>1, <1>6, <1>8, WholeBack

LEMMA AllBack ==
  ASSUME Recursion
  PROVE  \A t \in AllTypes : ReadBack(t)
<1> DEFINE B == {t \in AllTypes : ~ ReadBack(t)}
<1>1. ASSUME NEW t \in AllTypes, PartsBack(t) PROVE ReadBack(t)
  <2>1. ReadsParts(t) /\ JudgesParts(t) /\ WritesParts(t)
    BY DEF Recursion
  <2>2. ASSUME NEW v, HasType(t, v), NEW b, JsonKeeps(t, b), NEW n, n = JsonEncode(t, v, b).node, n # Refused
        PROVE  JsonDecode(t, n) = v
    <3>1. CASE t[1] \in {"bool", "int", "double", "string", "date"}
      BY <2>2, <3>1, ScalarBack
    <3>2. CASE t[1] = "enum"
      BY <2>2, <3>2, EnumBack
    <3>3. CASE t[1] \in {"raw", "json"}
      BY <2>2, <3>3, DocumentBack
    <3>4. CASE t[1] = "optional"
      BY <1>1, <2>2, <3>4, OptionalBack
    <3>5. CASE t[1] = "inline"
      BY <1>1, <2>2, <3>5, InlineBack
    <3>6. CASE t[1] = "variant"
      BY <1>1, <2>2, <3>6, VariantBack
    <3>7. CASE t[1] \in {"vector", "array", "map"}
      BY <1>1, <2>2, <3>7, ContainerBack
    <3>8. CASE t[1] = "struct"
      BY <1>1, <2>2, <3>8, StructBack
    <3> QED
      BY <3>1, <3>2, <3>3, <3>4, <3>5, <3>6, <3>7, <3>8, TypeNames
  <2> QED
    BY <2>1, <2>2 DEF ReadsParts, WritesParts, JudgesParts, ReadBack
<1>2. B = {}
  BY <1>1, TypeInside, NoLeastType DEF PartsBack
<1> QED
  BY <1>2

\* How far a JSON text has come.
JsonInv ==
  /\ TypeInv /\ value \in Values(type)
  /\ stage = "write" => format = "toml"
  /\ format = "json" /\ ~ ByHand /\ stage \in {"written", "read"} =>
       document = Serialize(type, value, nulls) /\ document # Refused
  /\ format = "json" /\ stage = "read" => result = JsonDecode(reader, document)

LEMMA JsonKept ==
  ASSUME Recursion, JsonInv, [Next]_vars
  PROVE  JsonInv'
<1>1. TypeInv'
  BY TypesKept DEF JsonInv
<1>2. CASE UNCHANGED vars
  BY <1>1, <1>2 DEF vars, JsonInv, ByHand
<1>3. CASE SerializeJson
  <2>1. /\ format = "json" /\ stage' \in {"refused", "written"} /\ UNCHANGED <<format, type, value, reader, nulls, result>>
        /\ document' = Refused <=> stage' = "refused"
    BY <1>3 DEF SerializeJson
  <2>2. ~ ByHand => document' = Serialize(type, value, nulls)
    BY <1>3 DEF SerializeJson
  <2>3. ByHand' = ByHand
    BY <2>1 DEF ByHand
  <2>4. value \in Values(type)
    BY DEF JsonInv
  <2>5. (value \in Values(type))'
    BY <2>1, <2>4
  <2>6. (format = "json" /\ ~ ByHand /\ stage \in {"written", "read"} =>
          document = Serialize(type, value, nulls) /\ document # Refused)'
    <3>1. stage' = "written" => document' # Refused
      BY <2>1
    <3> HIDE DEF ByHand
    <3> QED
      BY <2>1, <2>2, <2>3, <3>1
  <2>7. (format = "json" /\ stage = "read" => result = JsonDecode(reader, document))'
    BY <2>1
  <2>8. (stage = "write" => format = "toml")'
    BY <2>1
  <2> QED
    BY <1>1, <2>5, <2>6, <2>7, <2>8 DEF JsonInv
<1>4. CASE SerializeToml
  BY <1>1, <1>4 DEF SerializeToml, JsonInv, ByHand
<1>5. CASE WriteLine
  BY <1>1, <1>5 DEF WriteLine, JsonInv, ByHand
<1>6. CASE WrittenToml
  BY <1>1, <1>6 DEF WrittenToml, JsonInv, ByHand
<1>7. CASE Deserialize
  BY <1>1, <1>7 DEF Deserialize, JsonInv, ByHand
<1> QED
  BY <1>2, <1>3, <1>4, <1>5, <1>6, <1>7 DEF Next

\* What is written as JSON is read as it was, whatever the types, as long as null and the
\* kinds of the texts tell them apart (json.hpp:880-890, 1428-1435, 1493).
THEOREM JsonReadBack ==
  ASSUME Recursion
  PROVE  Spec => []JsonRoundTrip
<1>1. Init => JsonInv
  BY DEF Init, JsonInv, TypeInv, TypeOK
<1>2. JsonInv => JsonRoundTrip
  <2> SUFFICES ASSUME JsonInv, format = "json", ~ ByHand, stage = "read", reader = type, JsonKeeps(type, nulls)
               PROVE  result = value
    BY DEF JsonRoundTrip
  <2>1. type \in Types /\ value \in Values(type) /\ type \in AllTypes
    BY TypesAssumption DEF JsonInv, TypeInv, TypeOK
  <2>2. HasType(type, value)
    <3>1. value \notin {"written"} \X Int
      BY DEF ByHand
    <3> QED
      BY <2>1, <3>1, ValuesAssumption
  <2>3. document = JsonEncode(type, value, nulls).node /\ document # Refused /\ result = JsonDecode(type, document)
    BY DEF JsonInv, Serialize
  <2> QED
    BY <2>1, <2>2, <2>3, AllBack DEF ReadBack, Recursion, ReadsParts, WritesParts, JudgesParts
<1> QED
  BY <1>1, <1>2, JsonKept, PTL DEF Spec

-----------------------------------------------------------------------------
(* What the tables that have been read were written of.                    *)

\* P has for each address of tree t the node that was written there, lines s being
\* still to be written.  A value is what its text parses to.
InlineTold(P, t, x) == IsInline(P[x]) => "value" \in DOMAIN t[x] /\ t[x].value = Parsed(P[x])

\* A table has no other members than it should; those it has not yet are in a line.
SectionTold(P, t, s, x) ==
  IsSection(P[x]) =>
    /\ "value" \notin DOMAIN t[x] /\ t[x].kind = "table" /\ DOMAIN P[x][2] \subseteq Keys
    /\ \A k \in Keys : Append(x, k) \in DOMAIN t =>
         k \in DOMAIN P[x][2] /\ P[Append(x, k)] = P[x][2][k]
    /\ \A k \in DOMAIN P[x][2] : Append(x, k) \in DOMAIN t \/ \E l \in LinesOf(s) : l.at = x /\ l.key = k

\* So an array of tables has its elements.
ArrayTold(P, t, s, x) ==
  TableArray(P[x]) =>
    /\ "value" \notin DOMAIN t[x] /\ t[x].kind = "array" /\ t[x].size \in 1 .. Len(P[x][2])
    /\ \A i \in 1 .. t[x].size : Append(x, i) \in DOMAIN t /\ P[Append(x, i)] = P[x][2][i]
    /\ t[x].size = Len(P[x][2]) \/ \E l \in LinesOf(s) : Slot(l) = x

Told(P, t, s, x) == InlineTold(P, t, x) /\ SectionTold(P, t, s, x) /\ ArrayTold(P, t, s, x)

\* A line is of a member of a table that was written.
LineTold(P, l) ==
  /\ l.at \in DOMAIN P /\ IsSection(P[l.at]) /\ l.key \in DOMAIN P[l.at][2] /\ l.node = P[l.at][2][l.key]
  /\ l.call = "assign" => IsInline(l.node)

Bounded(t) == \E most \in Nat : \A x \in DOMAIN t : Len(x) < most

Placed(P, root, t, s) ==
  /\ Bounded(t) /\ DOMAIN P = DOMAIN t /\ <<>> \in DOMAIN t /\ P[<<>>] = root
  /\ \A x \in DOMAIN t : x \in Address /\ Told(P, t, s, x)
  /\ \A l \in LinesOf(s) : LineTold(P, l)

LEMMA HeadAndTail ==
  ASSUME NEW L, NEW s \in Seq(L), s # <<>>
  PROVE  LinesOf(s) = {Head(s)} \cup LinesOf(Tail(s))
<1> DEFINE r == Tail(s)
           n == Len(s)
<1>1. n \in Nat \ {0} /\ Head(s) = s[1] /\ Len(r) = n - 1 /\ \A i \in 1 .. Len(r) : r[i] = s[i + 1]
  BY EmptySeq, HeadTailProperties
<1> HIDE DEF r, n
<1>2. \A i \in 1 .. n : i = 1 \/ (i - 1 \in 1 .. Len(r) /\ r[i - 1] = s[i])
  BY <1>1
<1>3. 1 \in 1 .. n /\ \A i \in 1 .. Len(r) : i + 1 \in 1 .. n
  BY <1>1
<1>4. {s[i] : i \in 1 .. n} = {s[1]} \cup {r[i] : i \in 1 .. Len(r)}
  BY <1>1, <1>2, <1>3
<1> QED
  BY <1>1, <1>4 DEF LinesOf, r, n

\* The next line is of a member that is not there, or of which there are elements.
LEMMA SlotTold ==
  ASSUME NEW P, NEW root, NEW t, NEW s, Placed(P, root, t, s), NEW l \in LinesOf(s), l.key \in Keys,
         Slot(l) \in DOMAIN t
  PROVE  P[Slot(l)] = l.node
<1>1. LineTold(P, l) /\ l.at \in DOMAIN t
  BY DEF Placed, LineTold
<1>2. SectionTold(P, t, s, l.at)
  BY <1>1 DEF Placed, Told
<1> QED
  BY <1>1, <1>2 DEF SectionTold, LineTold, Slot

\* Line h makes tree t into u, N being new but for the array that it may find, and Q has
\* the nodes for it.
Adds(P, t, h, u, N, Q) ==
  /\ h.at \in Address /\ h.key \in Keys /\ h.number \in Nat
  /\ N \in SUBSET {Slot(h), Append(Slot(h), h.number)} /\ Slot(h) \in N
  /\ DOMAIN u = DOMAIN t \cup N /\ \A x \in DOMAIN t \ {Slot(h)} : u[x] = t[x]
  /\ DOMAIN Q = DOMAIN u /\ (\A x \in DOMAIN t : Q[x] = P[x]) /\ Q[Slot(h)] = h.node

Leaves(s, h, r) == \A l \in LinesOf(s) : l = h \/ l \in LinesOf(r)

\* What a line adds leaves all else as it was.
LEMMA OthersTold ==
  ASSUME NEW P, NEW root, NEW t, NEW s, Placed(P, root, t, s),
         NEW h \in LinesOf(s), NEW u, NEW N, NEW Q, Adds(P, t, h, u, N, Q),
         NEW r, Leaves(s, h, r),
         NEW x \in DOMAIN t, x # Slot(h)
  PROVE  Told(Q, u, r, x)
<1> DEFINE S == Slot(h)
           a == Append(S, h.number)
<1>1. /\ S \in Address /\ S = Append(h.at, h.key) /\ x \in Address
      /\ LineTold(P, h) /\ Told(P, t, s, x)
  BY Extended DEF Slot, Placed, Adds
<1>2. u[x] = t[x] /\ Q[x] = P[x]
  BY DEF Adds
<1>3. InlineTold(Q, u, x)
  BY <1>1, <1>2 DEF Told, InlineTold
<1>4. SectionTold(Q, u, r, x)
  <2> SUFFICES ASSUME IsSection(P[x])
               PROVE  /\ "value" \notin DOMAIN t[x] /\ t[x].kind = "table" /\ DOMAIN P[x][2] \subseteq Keys
                      /\ \A k \in Keys : Append(x, k) \in DOMAIN u =>
                           k \in DOMAIN P[x][2] /\ Q[Append(x, k)] = P[x][2][k]
                      /\ \A k \in DOMAIN P[x][2] :
                           Append(x, k) \in DOMAIN u \/ \E l \in LinesOf(r) : l.at = x /\ l.key = k
    BY <1>2 DEF SectionTold
  <2>1. /\ "value" \notin DOMAIN t[x] /\ t[x].kind = "table" /\ DOMAIN P[x][2] \subseteq Keys
        /\ \A k \in Keys : Append(x, k) \in DOMAIN t =>
             k \in DOMAIN P[x][2] /\ P[Append(x, k)] = P[x][2][k]
        /\ \A k \in DOMAIN P[x][2] :
             Append(x, k) \in DOMAIN t \/ \E l \in LinesOf(s) : l.at = x /\ l.key = k
    BY <1>1 DEF Told, SectionTold
  <2>2. ASSUME NEW k \in Keys, Append(x, k) \in DOMAIN u
        PROVE  k \in DOMAIN P[x][2] /\ Q[Append(x, k)] = P[x][2][k]
    <3>1. CASE Append(x, k) \in DOMAIN t
      BY <2>1, <3>1 DEF Adds
    <3>2. CASE Append(x, k) = S
      <4>1. x = h.at /\ k = h.key
        BY <1>1, <3>2, SlotFields DEF Adds
      <4> QED
        BY <1>1, <3>2, <4>1 DEF LineTold, Adds
    <3>3. Append(x, k) # a
      <4>1. k # h.number
        BY TextAssumption DEF Adds
      <4> QED
        BY <1>1, <4>1, SlotFields DEF Adds
    <3> QED
      BY <2>2, <3>1, <3>2, <3>3 DEF Adds
  <2>3. ASSUME NEW k \in DOMAIN P[x][2]
        PROVE  Append(x, k) \in DOMAIN u \/ \E l \in LinesOf(r) : l.at = x /\ l.key = k
    <3>1. CASE Append(x, k) \in DOMAIN t
      BY <3>1 DEF Adds
    <3>2. ASSUME NEW l \in LinesOf(s), l.at = x, l.key = k PROVE l \in LinesOf(r) \/ Append(x, k) = S
      BY <1>1, <3>2 DEF Leaves
    <3> QED
      BY <2>1, <3>1, <3>2 DEF Adds
  <2> QED
    BY <2>1, <2>2, <2>3
<1>5. ArrayTold(Q, u, r, x)
  <2> SUFFICES ASSUME TableArray(P[x])
               PROVE  /\ "value" \notin DOMAIN t[x] /\ t[x].kind = "array" /\ t[x].size \in 1 .. Len(P[x][2])
                      /\ \A i \in 1 .. t[x].size : Append(x, i) \in DOMAIN u /\ Q[Append(x, i)] = P[x][2][i]
                      /\ t[x].size = Len(P[x][2]) \/ \E l \in LinesOf(r) : Slot(l) = x
    BY <1>2 DEF ArrayTold
  <2>1. /\ "value" \notin DOMAIN t[x] /\ t[x].kind = "array" /\ t[x].size \in 1 .. Len(P[x][2])
        /\ \A i \in 1 .. t[x].size : Append(x, i) \in DOMAIN t /\ P[Append(x, i)] = P[x][2][i]
        /\ t[x].size = Len(P[x][2]) \/ \E l \in LinesOf(s) : Slot(l) = x
    BY <1>1 DEF Told, ArrayTold
  <2> QED
    BY <2>1 DEF Adds, Leaves
<1> QED
  BY <1>3, <1>4, <1>5 DEF Told

\* Lines r are the others and lines of tables that Q has, and what is new is told.
Continues(s, Q, u, N, r) ==
  /\ \A l \in LinesOf(Tail(s)) : l \in LinesOf(r)
  /\ \A l \in LinesOf(r) : l \in LinesOf(Tail(s)) \/ LineTold(Q, l)
  /\ \A x \in N : Told(Q, u, r, x)

LEMMA PlacedOn ==
  ASSUME NEW P, NEW root, NEW t, NEW L, NEW s \in Seq(L), s # <<>>, Placed(P, root, t, s),
         NEW h, h = Head(s), NEW u, NEW N, NEW Q, Adds(P, t, h, u, N, Q),
         NEW r, Continues(s, Q, u, N, r)
  PROVE  Placed(Q, root, u, r)
<1> USE DEF Continues
<1>1. LinesOf(s) = {h} \cup LinesOf(Tail(s))
  BY HeadAndTail
<1>2. ASSUME NEW x \in DOMAIN u PROVE x \in Address /\ Told(Q, u, r, x)
  <2>1. CASE x \in N
    <3>1. Slot(h) \in Address
      BY Extended DEF Slot, Adds
    <3>2. Append(Slot(h), h.number) \in Address
      BY <3>1, Extended DEF Adds
    <3> QED
      BY <2>1, <3>1, <3>2 DEF Adds
  <2>2. CASE x \notin N
    <3>1. x \in DOMAIN t /\ x # Slot(h) /\ h \in LinesOf(s)
      BY <1>1, <2>2 DEF Adds
    <3>2. Leaves(s, h, r)
      BY <1>1 DEF Leaves
    <3>3. x \in Address
      BY <3>1 DEF Placed
    <3> QED
      BY <3>1, <3>2, <3>3, OthersTold
  <2> QED
    BY <2>1, <2>2
<1>3. ASSUME NEW l \in LinesOf(r) PROVE LineTold(Q, l)
  <2>1. CASE l \in LinesOf(Tail(s))
    <3>1. LineTold(P, l)
      BY <1>1, <2>1 DEF Placed
    <3>2. l.at \in DOMAIN t
      BY <3>1 DEF Placed, LineTold
    <3> QED
      BY <3>1, <3>2 DEF LineTold, Adds
  <2> QED
    BY <2>1
<1>4. <<>> \in DOMAIN t /\ P[<<>>] = root
  BY DEF Placed
<1>5. Bounded(u)
  <2>1. PICK most \in Nat : \A x \in DOMAIN t : Len(x) < most
    BY DEF Placed, Bounded
  <2>2. h.at \in DOMAIN t /\ h.at \in Address /\ h.key \in Keys \cup Nat /\ h.number \in Keys \cup Nat
    BY <1>1 DEF Placed, LineTold, Adds
  <2>3. Slot(h) \in Address /\ Len(Slot(h)) = Len(h.at) + 1 /\ Len(h.at) \in Nat /\ Len(h.at) < most
    BY <2>1, <2>2, Extended, AddressLength DEF Slot
  <2>4. Len(Append(Slot(h), h.number)) = Len(Slot(h)) + 1
    BY <2>2, <2>3, Extended
  <2>5. \A x \in DOMAIN t : Len(x) < most + 2
    <3>1. \A x \in DOMAIN t : Len(x) \in Nat
      BY AddressLength DEF Placed
    <3> QED
      BY <2>1, <3>1
  <2>6. \A x \in N : Len(x) < most + 2
    BY <2>1, <2>3, <2>4 DEF Adds
  <2> QED
    BY <2>1, <2>5, <2>6 DEF Bounded, Adds
<1> QED
  BY <1>2, <1>3, <1>4, <1>5 DEF Placed, Adds

LEMMA LinesJoined ==
  ASSUME NEW S, NEW s \in Seq(S), NEW r \in Seq(S)
  PROVE  s \o r \in Seq(S) /\ LinesOf(s \o r) = LinesOf(s) \cup LinesOf(r)
<1> DEFINE q == s \o r
           n == Len(s)
           m == Len(r)
<1>1. /\ q \in Seq(S) /\ Len(q) = n + m /\ n \in Nat /\ m \in Nat
      /\ \A i \in 1 .. n : q[i] = s[i]
      /\ \A i \in 1 .. m : q[n + i] = r[i]
  BY ConcatProperties
<1> HIDE DEF q
<1>2. ASSUME NEW i \in 1 .. Len(q)
      PROVE  (i \in 1 .. n /\ q[i] = s[i]) \/ (i - n \in 1 .. m /\ q[i] = r[i - n])
  <2>1. CASE i <= n
    BY <1>1, <2>1
  <2>2. CASE i > n
    <3>1. i - n \in 1 .. m /\ n + (i - n) = i
      BY <1>1, <2>2
    <3>2. q[n + (i - n)] = r[i - n]
      BY <1>1, <3>1
    <3> QED
      BY <3>1, <3>2
  <2> QED
    BY <1>1, <2>1, <2>2
<1>3. LinesOf(q) \subseteq LinesOf(s) \cup LinesOf(r)
  BY <1>2 DEF LinesOf
<1>4. \A i \in 1 .. n : i \in 1 .. Len(q) /\ q[i] = s[i]
  BY <1>1
<1>5. \A i \in 1 .. m : n + i \in 1 .. Len(q) /\ q[n + i] = r[i]
  BY <1>1
<1>6. LinesOf(s) \subseteq LinesOf(q)
  BY <1>4 DEF LinesOf
<1>7. LinesOf(r) \subseteq LinesOf(q)
  BY <1>5 DEF LinesOf
<1> QED
  BY <1>1, <1>3, <1>6, <1>7 DEF q

\* The nodes of the addresses there were, of the one of a line and of that of an element.
WithNodes(P, t, u, S, n, m) ==
  [x \in DOMAIN u |-> IF x \in DOMAIN t THEN P[x] ELSE IF x = S THEN n ELSE m]

LEMMA NodesAdded ==
  ASSUME NEW P, NEW root, NEW t, NEW s, Placed(P, root, t, s), NEW h \in LinesOf(s),
         NEW nodes, h \in Line(nodes), NEW u, Grew(t, u, Slot(h)), NEW N,
         N \in SUBSET {Slot(h), Append(Slot(h), h.number)}, Slot(h) \in N,
         DOMAIN u = DOMAIN t \cup N, NEW m
  PROVE  Adds(P, t, h, u, N, WithNodes(P, t, u, Slot(h), h.node, m))
<1> DEFINE S == Slot(h)
           Q == WithNodes(P, t, u, S, h.node, m)
<1>1. h.at \in Address /\ h.key \in Keys /\ h.number \in Nat
  BY SlotAddress
<1>2. S \in DOMAIN t => P[S] = h.node
  BY <1>1, SlotTold
<1>3. \A x \in DOMAIN t \ {S} : u[x] = t[x]
  BY DEF Grew
<1>4. S \in DOMAIN u
  OBVIOUS
<1>5. /\ DOMAIN Q = DOMAIN u /\ (\A x \in DOMAIN t : Q[x] = P[x])
      /\ Q[S] = IF S \in DOMAIN t THEN P[S] ELSE h.node
  <2> HIDE DEF S
  <2> QED
    BY <1>4 DEF WithNodes, S
<1> HIDE DEF Q
<1> QED
  BY <1>1, <1>2, <1>3, <1>5 DEF Adds, Q

\* A table that has just been made has the lines of its section to come.
LEMMA SectionNew ==
  ASSUME NEW nodes, Closed(nodes), NEW n \in nodes, IsSection(n),
         NEW t, NEW u, NEW S \in Address, Grew(t, u, S), Trodden(t),
         NEW a \in DOMAIN u \ DOMAIN t, NewAt(S, a), u[a].kind = "table", "value" \notin DOMAIN u[a],
         NEW section \in Seq(Keys), Names(a) = section,
         NEW r, \A l \in LinesOf(Lines(n[2], section, a)) : l \in LinesOf(r),
         NEW Q, DOMAIN Q = DOMAIN u, Q[a] = n
  PROVE  /\ Told(Q, u, r, a)
         /\ \A l \in LinesOf(Lines(n[2], section, a)) : LineTold(Q, l)
<1> DEFINE s == Lines(n[2], section, a)
<1>1. a \in Address
  BY NewAddress
<1>2. (\A l \in LinesOf(s) : OfTable(l, n[2], a)) /\ Covers(s, DOMAIN n[2])
  BY <1>1, SectionLines
<1>3. \A l \in LinesOf(s) : l \in LinesOf(r)
  OBVIOUS
<1> HIDE DEF s
<1>4. (\A k \in Keys : Append(a, k) \notin DOMAIN u) /\ DOMAIN n[2] \subseteq Keys
  BY NothingThere DEF Closed
<1>5. \A k \in DOMAIN n[2] : \E l \in LinesOf(r) : l.at = a /\ l.key = k
  BY <1>2, <1>3 DEF Covers, OfTable
<1>6. ~ IsInline(n) /\ ~ TableArray(n)
  BY DEF IsInline, IsSection, TableArray
<1>7. Told(Q, u, r, a)
  BY <1>4, <1>5, <1>6 DEF Told, InlineTold, SectionTold, ArrayTold
<1>8. \A l \in LinesOf(s) : LineTold(Q, l)
  BY <1>2 DEF OfTable, LineTold
<1> QED
  BY <1>7, <1>8 DEF s

LEMMA PlacedAssignment ==
  ASSUME NEW nodes, IInv(nodes), NEW P, NEW root, Placed(P, root, tree, todo),
         WriteAssignment(Parsed(Head(todo).node))
  PROVE  \E R : Placed(R, root, tree', todo')
<1> DEFINE h == Head(todo)
           S == Slot(h)
           n == Parsed(h.node)
           Q == WithNodes(P, tree, tree', S, h.node, h.node)
<1>1. /\ todo # <<>> /\ h.call = "assign" /\ Reader!Assign(<<h.key>>, Content(n))
      /\ todo' = Tail(todo)
  BY DEF WriteAssignment, IsNext
<1>2. Reads(nodes, h) /\ Readable(nodes, tree, current, todo)
  BY <1>1, NextReads
<1>3. h \in Line(nodes) /\ todo \in Seq(Line(nodes)) /\ h \in LinesOf(todo)
  BY <1>1, <1>2, HeadAndTail DEF Reads, Readable
<1>4. /\ Grew(tree, tree', S) /\ DOMAIN tree' = DOMAIN tree \cup {S}
      /\ tree'[S] = Content(n)[<<>>]
  BY <1>1, <1>2, AssignmentRead
<1>5. Adds(P, tree, h, tree', {S}, Q)
  <2> HIDE DEF h, Q
  <2>1. Q = WithNodes(P, tree, tree', Slot(h), h.node, h.node)
    BY DEF Q
  <2> QED
    BY <1>3, <1>4, <2>1, NodesAdded
<1>6. "value" \in DOMAIN tree'[S] /\ tree'[S].value = n
  <2> HIDE DEF n, S
  <2> QED
    BY <1>4 DEF Content
<1>7. IsInline(h.node)
  BY <1>1, <1>3 DEF Placed, LineTold
<1>8. Q[S] = h.node
  BY <1>5 DEF Adds
<1> HIDE DEF Q, S
<1>9. Told(Q, tree', todo', S)
  BY <1>6, <1>7, <1>8 DEF Told, InlineTold, SectionTold, ArrayTold, IsInline
<1>10. Continues(todo, Q, tree', {S}, Tail(todo))
  BY <1>1, <1>9 DEF Continues
<1>11. Placed(Q, root, tree', Tail(todo))
  BY <1>1, <1>3, <1>5, <1>10, PlacedOn
<1>12. Placed(Q, root, tree', todo')
  BY <1>1, <1>11
<1> QED
  BY <1>12

LEMMA PlacedHeader ==
  ASSUME NEW nodes, Closed(nodes), IInv(nodes), NEW P, NEW root, Placed(P, root, tree, todo),
         WriteHeader
  PROVE  \E R : Placed(R, root, tree', todo')
<1> DEFINE h == Head(todo)
           S == Slot(h)
           rest == Tail(todo)
           new == Lines(h.node[2], Header(h), S)
           Q == WithNodes(P, tree, tree', S, h.node, h.node)
<1>1. todo # <<>> /\ h.call = "open" /\ Reader!OpenTable(Header(h)) /\ todo' = new \o rest
  BY DEF WriteHeader, IsNext
<1>2. Reads(nodes, h) /\ Readable(nodes, tree, current, todo) /\ rest \in Seq(Line(nodes))
  BY <1>1, NextReads
<1>3. /\ h \in Line(nodes) /\ Fitting(h) /\ Trodden(tree) /\ todo \in Seq(Line(nodes))
      /\ h \in LinesOf(todo) /\ h.node \in nodes /\ IsSection(h.node) /\ S \in Address
      /\ Header(h) \in Seq(Keys) /\ Names(S) = Header(h) /\ S \notin DOMAIN tree
  <2>1. h \in Line(nodes) /\ Fitting(h) /\ Trodden(tree) /\ todo \in Seq(Line(nodes))
    BY <1>2 DEF Reads, Readable
  <2>2. h.node \in nodes /\ IsSection(h.node)
    BY <1>1, <2>1 DEF Line, Fitting
  <2> QED
    BY <1>1, <1>2, <2>1, <2>2, TakesHeader, SlotAddress, HeaderPath, SlotNames, HeadAndTail
<1>4. /\ Grew(tree, tree', S) /\ DOMAIN tree' = DOMAIN tree \cup {S}
      /\ tree'[S] = Table("explicit_table")
  BY <1>1, <1>2, HeaderRead
<1>5. Adds(P, tree, h, tree', {S}, Q)
  <2> HIDE DEF h, Q
  <2>1. Q = WithNodes(P, tree, tree', Slot(h), h.node, h.node)
    BY DEF Q
  <2> QED
    BY <1>3, <1>4, <2>1, NodesAdded
<1>6. DOMAIN Q = DOMAIN tree' /\ Q[S] = h.node
  BY <1>5 DEF Adds
<1> HIDE DEF h, Q, S, rest
<1>7. tree'[S].kind = "table" /\ "value" \notin DOMAIN tree'[S]
  BY <1>4, NewTables
<1>8. new \in Seq(Line(nodes))
  BY <1>3, SectionLines
<1> HIDE DEF new
<1>9. LinesOf(new \o rest) = LinesOf(new) \cup LinesOf(rest)
  BY <1>2, <1>8, LinesJoined
<1>10. S \in DOMAIN tree' \ DOMAIN tree /\ NewAt(S, S)
  BY <1>3, <1>4 DEF NewAt
<1>11. /\ Told(Q, tree', new \o rest, S)
       /\ \A l \in LinesOf(new) : LineTold(Q, l)
  <2> DEFINE r == new \o rest
  <2>1. \A l \in LinesOf(Lines(h.node[2], Header(h), S)) : l \in LinesOf(r)
    BY <1>9 DEF new
  <2> HIDE DEF r
  <2>2. /\ Told(Q, tree', r, S)
        /\ \A l \in LinesOf(Lines(h.node[2], Header(h), S)) : LineTold(Q, l)
    BY <1>3, <1>4, <1>6, <1>7, <1>10, <2>1, SectionNew
  <2> QED
    BY <2>2 DEF r, new
<1> DEFINE r == new \o rest
<1>12. Continues(todo, Q, tree', {S}, r)
  BY <1>9, <1>11 DEF Continues, rest
<1> HIDE DEF r
<1>13. Placed(Q, root, tree', r)
  BY <1>1, <1>3, <1>5, <1>12, PlacedOn DEF h, rest
<1>14. Placed(Q, root, tree', todo')
  BY <1>1, <1>13 DEF r
<1> QED
  BY <1>14

\* The line of the next element is of the same array.
LEMMA NextElementTold ==
  ASSUME NEW nodes, NEW l \in Line(nodes), Fitting(l), l.call = "append", NEW Q, LineTold(Q, l)
  PROVE  /\ NextElements(l) \in Seq(Line(nodes))
         /\ \A m \in LinesOf(NextElements(l)) : LineTold(Q, m)
         /\ l.number = Len(l.node[2]) \/ \E m \in LinesOf(NextElements(l)) : Slot(m) = Slot(l)
<1> DEFINE next == [l EXCEPT !.number = @ + 1]
<1>1. CASE ~ (l.number < Len(l.node[2]))
  <2>1. NextElements(l) = <<>>
    BY <1>1 DEF NextElements
  <2>2. l.number \in 1 .. Len(l.node[2]) /\ l.number \in Nat
    BY DEF Fitting, Line
  <2>3. l.number = Len(l.node[2])
    BY <1>1, <2>2
  <2> QED
    BY <2>1, <2>3, NoLines
<1>2. CASE l.number < Len(l.node[2])
  <2>1. NextElements(l) = <<next>>
    BY <1>2 DEF NextElements
  <2>2. /\ next \in Line(nodes) /\ next.at = l.at /\ next.key = l.key /\ next.call = "append"
        /\ next.node = l.node
    BY DEF Line
  <2> HIDE DEF next
  <2>3. Slot(next) = Slot(l)
    BY <2>2 DEF Slot
  <2>4. LineTold(Q, next)
    BY <2>2 DEF LineTold
  <2>5. <<next>> \in Seq(Line(nodes)) /\ LinesOf(<<next>>) = {next}
    BY <2>2 DEF LinesOf
  <2> QED
    BY <2>1, <2>3, <2>4, <2>5
<1> QED
  BY <1>1, <1>2

\* An array has the elements that it had, and the one of the line.
LEMMA ArrayGrown ==
  ASSUME NEW P, NEW root, NEW t, NEW s, Placed(P, root, t, s), NEW h \in LinesOf(s),
         NEW nodes, h \in Line(nodes), Fitting(h), h.call = "append", NEW c, Ready(t, c, h),
         NEW S, S = Slot(h), NEW a, a = Append(S, h.number),
         NEW u, NEW Q, Adds(P, t, h, u, {S, a}, Q), u[S] = ArrayTable(h.number),
         Q[a] = h.node[2][h.number],
         NEW r, h.number = Len(h.node[2]) \/ \E m \in LinesOf(r) : Slot(m) = S
  PROVE  Told(Q, u, r, S)
<1>1. /\ TableArray(h.node) /\ h.number \in 1 .. Len(h.node[2]) /\ h.number \in Nat
      /\ h.key \in Keys
  BY DEF Fitting, Line
<1>2. /\ u[S].kind = "array" /\ u[S].size = h.number /\ "value" \notin DOMAIN u[S]
      /\ Q[S] = h.node /\ S \in DOMAIN u /\ a \in DOMAIN u
  BY NewTables DEF Adds
<1>3. ASSUME NEW i \in 1 .. h.number
      PROVE  Append(S, i) \in DOMAIN u /\ Q[Append(S, i)] = h.node[2][i]
  <2>1. CASE i = h.number
    BY <1>2, <2>1
  <2>2. CASE i # h.number
    <3>1. h.number # 1 /\ i \in 1 .. h.number - 1
      BY <1>1, <2>2
    <3>2. S \in DOMAIN t /\ t[S].size = h.number - 1
      BY <3>1 DEF Ready
    <3>3. P[S] = h.node
      BY <1>1, <3>2, SlotTold
    <3>4. ArrayTold(P, t, s, S)
      BY <3>2 DEF Placed, Told
    <3>5. Append(S, i) \in DOMAIN t /\ P[Append(S, i)] = h.node[2][i]
      BY <1>1, <3>1, <3>2, <3>3, <3>4 DEF ArrayTold
    <3> QED
      BY <3>5 DEF Adds
  <2> QED
    BY <2>1, <2>2
<1>4. ~ IsInline(h.node) /\ ~ IsSection(h.node)
  BY <1>1 DEF IsInline, IsSection, TableArray
<1> QED
  BY <1>1, <1>2, <1>3, <1>4 DEF Told, InlineTold, SectionTold, ArrayTold

LEMMA PlacedElement ==
  ASSUME NEW nodes, Closed(nodes), IInv(nodes), NEW P, NEW root, Placed(P, root, tree, todo),
         WriteElementHeader
  PROVE  \E R : Placed(R, root, tree', todo')
<1> DEFINE h == Head(todo)
           rest == Tail(todo)
           S == Slot(h)
           a == Append(S, h.number)
           element == h.node[2][h.number]
           new == Lines(element[2], Header(h), a)
           next == NextElements(h)
           Q == WithNodes(P, tree, tree', S, h.node, element)
<1>1. /\ todo # <<>> /\ h.call = "append" /\ Reader!OpenArrayTable(Header(h))
      /\ todo' = (new \o next) \o rest
  BY DEF WriteElementHeader, IsNext
<1>2. /\ Reads(nodes, h) /\ Readable(nodes, tree, current, todo) /\ rest \in Seq(Line(nodes))
  BY <1>1, NextReads
<1>3. /\ h \in Line(nodes) /\ Fitting(h) /\ Trodden(tree) /\ Ready(tree, current, h)
      /\ todo \in Seq(Line(nodes)) /\ h \in LinesOf(todo)
      /\ element \in nodes /\ IsSection(element) /\ S \in Address /\ Header(h) \in Seq(Keys)
      /\ Names(a) = Header(h) /\ h.number \in Nat
  <2>1. /\ h \in Line(nodes) /\ Fitting(h) /\ Trodden(tree) /\ Ready(tree, current, h)
        /\ todo \in Seq(Line(nodes))
    BY <1>2 DEF Reads, Readable
  <2>2. h.node \in nodes /\ TableArray(h.node) /\ h.number \in 1 .. Len(h.node[2])
    BY <1>1, <2>1 DEF Line, Fitting
  <2>3. h.node[2] \in Seq(nodes)
    BY <2>2 DEF Closed
  <2>4. element \in nodes /\ IsSection(element)
    BY <2>2, <2>3 DEF TableArray
  <2> QED
    BY <1>1, <2>1, <2>4, SlotAddress, HeaderPath, SlotNames, HeadAndTail
<1>4. /\ Grew(tree, tree', S) /\ a \in DOMAIN tree' \ DOMAIN tree
      /\ DOMAIN tree' = DOMAIN tree \cup {S, a}
      /\ tree'[a] = Table("array_element") /\ tree'[S] = ArrayTable(h.number)
  BY <1>1, <1>2, ElementRead
<1>5. tree'[a].kind = "table" /\ "value" \notin DOMAIN tree'[a] /\ NewAt(S, a)
  BY <1>3, <1>4, NewTables DEF NewAt
<1>6. a # S
  BY <1>3, Below
<1>7. /\ next \in Seq(Line(nodes))
      /\ \A q : LineTold(q, h) => \A m \in LinesOf(next) : LineTold(q, m)
      /\ h.number = Len(h.node[2]) \/ \E m \in LinesOf(next) : Slot(m) = S
  <2>1. LineTold(P, h)
    BY <1>3 DEF Placed
  <2> HIDE DEF h
  <2> QED
    BY <1>1, <1>3, <2>1, NextElementTold
<1>8. Adds(P, tree, h, tree', {S, a}, Q)
  <2> HIDE DEF h, Q, element
  <2>1. Q = WithNodes(P, tree, tree', Slot(h), h.node, element)
    BY DEF Q
  <2> QED
    BY <1>3, <1>4, <2>1, NodesAdded
<1>9. DOMAIN Q = DOMAIN tree' /\ Q[a] = element
  <2> HIDE DEF S, a, element
  <2> QED
    BY <1>4, <1>6 DEF WithNodes
<1> HIDE DEF h, Q, rest, S, a, element, next
<1>10. new \in Seq(Line(nodes))
  <2>1. a \in Address
    BY <1>3, Extended DEF a
  <2> QED
    BY <1>3, <2>1, SectionLines
<1>11. /\ new \o next \in Seq(Line(nodes))
       /\ LinesOf((new \o next) \o rest) = LinesOf(new) \cup LinesOf(next) \cup LinesOf(rest)
  <2> HIDE DEF new
  <2>1. new \o next \in Seq(Line(nodes)) /\ LinesOf(new \o next) = LinesOf(new) \cup LinesOf(next)
    BY <1>7, <1>10, LinesJoined
  <2> DEFINE both == new \o next
  <2>2. both \in Seq(Line(nodes)) /\ LinesOf(both) = LinesOf(new) \cup LinesOf(next)
    BY <2>1
  <2> HIDE DEF both
  <2>3. LinesOf(both \o rest) = LinesOf(both) \cup LinesOf(rest)
    BY <1>2, <2>2, LinesJoined
  <2> QED
    BY <2>2, <2>3 DEF both
<1> DEFINE r == (new \o next) \o rest
<1>12. Told(Q, tree', r, a) /\ \A l \in LinesOf(new) : LineTold(Q, l)
  <2>1. \A l \in LinesOf(Lines(element[2], Header(h), a)) : l \in LinesOf(r)
    BY <1>11 DEF new
  <2> HIDE DEF r
  <2> QED
    BY <1>3, <1>4, <1>5, <1>9, <2>1, SectionNew DEF new
<1> HIDE DEF new
<1>13. h.number = Len(h.node[2]) \/ \E m \in LinesOf(r) : Slot(m) = S
  BY <1>7, <1>11
<1> HIDE DEF r
<1>14. Told(Q, tree', r, S)
  BY <1>1, <1>3, <1>4, <1>8, <1>9, <1>13, ArrayGrown DEF S, a, element
<1>15. LineTold(Q, h)
  <2>1. LineTold(P, h)
    BY <1>3 DEF Placed
  <2> QED
    BY <2>1, <1>8 DEF LineTold, Adds, Placed
<1>16. Continues(todo, Q, tree', {S, a}, r)
  BY <1>7, <1>11, <1>12, <1>14, <1>15 DEF Continues, rest, r
<1>17. Placed(Q, root, tree', r)
  BY <1>1, <1>3, <1>8, <1>16, PlacedOn DEF h
<1>18. Placed(Q, root, tree', todo')
  BY <1>1, <1>17 DEF r
<1> QED
  BY <1>18

LEMMA PlacedBegin ==
  ASSUME NEW nodes, Closed(nodes), NEW n \in nodes, IsSection(n), Begin(n)
  PROVE  \E R : Placed(R, n, tree', todo')
<1> DEFINE s == Lines(n[2], <<>>, <<>>)
           Q == [x \in {<<>>} |-> n]
<1>1. Reader!Init /\ todo' = s /\ tree' = tree
  BY DEF Begin, InitText
<1>2. DOMAIN tree = {<<>>} /\ tree[<<>>].kind = "table" /\ "value" \notin DOMAIN tree[<<>>]
  <2>1. tree = [x \in {<<>>} |-> Reader!Table("implicit")]
    BY <1>1 DEF Reader!Init, Reader!Tables
  <2>2. Reader!Table("implicit").kind = "table" /\ "value" \notin DOMAIN Reader!Table("implicit")
    BY DEF Reader!Table
  <2> QED
    BY <2>1, <2>2
<1>3. <<>> \in Address /\ <<>> \in Seq(Keys) /\ Len(<<>>) = 0
  BY DEF Address
<1>4. (\A l \in LinesOf(s) : OfTable(l, n[2], <<>>)) /\ Covers(s, DOMAIN n[2])
  BY <1>3, NoNames, SectionLines
<1> HIDE DEF s
<1>5. DOMAIN n[2] \subseteq Keys /\ ~ IsInline(n) /\ ~ TableArray(n)
  BY DEF Closed, IsInline, IsSection, TableArray
<1>6. DOMAIN Q = {<<>>} /\ Q[<<>>] = n
  OBVIOUS
<1> HIDE DEF Q
<1>7. \A k \in Keys : Append(<<>>, k) \notin DOMAIN tree
  BY <1>2, <1>3, Below
<1>8. \A k \in DOMAIN n[2] : \E l \in LinesOf(s) : l.at = <<>> /\ l.key = k
  BY <1>4 DEF Covers, OfTable
<1>9. Told(Q, tree, s, <<>>)
  BY <1>2, <1>5, <1>6, <1>7, <1>8 DEF Told, InlineTold, SectionTold, ArrayTold
<1>10. \A l \in LinesOf(s) : LineTold(Q, l)
  BY <1>4, <1>6 DEF OfTable, LineTold
<1>11. Bounded(tree)
  BY <1>2, <1>3 DEF Bounded
<1>12. Placed(Q, n, tree, s)
  BY <1>2, <1>3, <1>6, <1>9, <1>10, <1>11 DEF Placed
<1>13. Placed(Q, n, tree', todo')
  BY <1>1, <1>12
<1> QED
  BY <1>13

-----------------------------------------------------------------------------
(* The nodes that are read.                                                *)

\* What has been read at x, f having what has been read below it.
Made(f, x) ==
  IF "value" \in DOMAIN tree[x] THEN tree[x].value
  ELSE IF tree[x].kind = "array"
    THEN <<"array", [i \in 1 .. tree[x].size |-> f[Append(x, i)]], TRUE>>
  ELSE <<"table", [k \in {j \in Keys : Append(x, j) \in DOMAIN tree} |-> f[Append(x, k)]], FALSE>>

\* Every array has its elements.
Whole(x) ==
  "value" \notin DOMAIN tree[x] /\ tree[x].kind = "array" =>
    \A i \in 1 .. tree[x].size : Append(x, i) \in DOMAIN tree

LEMMA MadeSame ==
  ASSUME NEW x, Whole(x), NEW f, NEW g,
         \A j : Append(x, j) \in DOMAIN tree => f[Append(x, j)] = g[Append(x, j)]
  PROVE  Made(f, x) = Made(g, x)
<1>1. CASE "value" \in DOMAIN tree[x]
  BY <1>1 DEF Made
<1>2. CASE "value" \notin DOMAIN tree[x] /\ tree[x].kind = "array"
  <2>1. \A i \in 1 .. tree[x].size : f[Append(x, i)] = g[Append(x, i)]
    BY <1>2 DEF Whole
  <2>2. [i \in 1 .. tree[x].size |-> f[Append(x, i)]] = [i \in 1 .. tree[x].size |-> g[Append(x, i)]]
    BY <2>1
  <2> QED
    BY <1>2, <2>2, Zenon DEF Made
<1>3. CASE "value" \notin DOMAIN tree[x] /\ tree[x].kind # "array"
  <2> DEFINE K == {j \in Keys : Append(x, j) \in DOMAIN tree}
  <2>1. \A k \in K : f[Append(x, k)] = g[Append(x, k)]
    OBVIOUS
  <2>2. [k \in K |-> f[Append(x, k)]] = [k \in K |-> g[Append(x, k)]]
    BY <2>1
  <2> QED
    BY <1>3, <2>2, Zenon DEF Made
<1> QED
  BY <1>1, <1>2, <1>3

\* The nodes can be read from the farthest addresses on.
Far(most, h) == {x \in DOMAIN tree : Len(x) + h >= most}
ReadFrom(most, h) == \E f : f = [x \in Far(most, h) |-> Made(f, x)]

LEMMA ReadNearer ==
  ASSUME \A x \in DOMAIN tree : x \in Address /\ Whole(x), NEW most \in Nat, NEW h \in Nat,
         ReadFrom(most, h)
  PROVE  ReadFrom(most, h + 1)
<1>1. PICK f : f = [x \in Far(most, h) |-> Made(f, x)]
  BY DEF ReadFrom
<1> DEFINE g == [x \in Far(most, h + 1) |-> Made(f, x)]
<1>2. ASSUME NEW x \in Far(most, h + 1)
      PROVE  Made(f, x) = Made(g, x)
  <2>1. x \in DOMAIN tree /\ x \in Address /\ Len(x) \in Nat /\ Len(x) + (h + 1) >= most
    BY AddressLength DEF Far
  <2>2. ASSUME NEW j, Append(x, j) \in DOMAIN tree PROVE f[Append(x, j)] = g[Append(x, j)]
    <3> DEFINE y == Append(x, j)
    <3>1. y \in Address /\ y \in DOMAIN tree
      BY <2>2
    <3>2. Len(y) = Len(x) + 1
      BY <2>1 DEF Address
    <3>3. y \in Far(most, h) /\ y \in Far(most, h + 1)
      <4> HIDE DEF y
      <4> QED
        BY <2>1, <3>1, <3>2 DEF Far
    <3>4. f[y] = Made(f, y) /\ g[y] = Made(f, y)
      <4> HIDE DEF y
      <4> QED
        BY <1>1, <3>3
    <3> QED
      BY <3>4
  <2> HIDE DEF g
  <2> QED
    BY <2>1, <2>2, MadeSame
<1>3. g = [x \in Far(most, h + 1) |-> Made(g, x)]
  <2>1. \A x \in Far(most, h + 1) : Made(f, x) = Made(g, x)
    BY <1>2
  <2> DEFINE e == [x \in Far(most, h + 1) |-> Made(g, x)]
  <2>2. DOMAIN g = DOMAIN e /\ \A x \in DOMAIN g : g[x] = e[x]
    <3> DEFINE m(x) == Made(g, x)
    <3>1. \A x \in Far(most, h + 1) : Made(f, x) = m(x)
      BY <2>1
    <3> HIDE DEF m
    <3>2. \A x \in Far(most, h + 1) : g[x] = m(x)
      BY <3>1
    <3> QED
      BY <3>2 DEF m
  <2> QED
    BY <2>1
<1> HIDE DEF g
<1> QED
  BY <1>3 DEF ReadFrom

LEMMA NodesRead ==
  ASSUME Bounded(tree), \A x \in DOMAIN tree : x \in Address /\ Whole(x)
  PROVE  \A x \in DOMAIN tree : NodeAt[x] = Made(NodeAt, x)
<1>1. PICK most \in Nat : \A x \in DOMAIN tree : Len(x) < most
  BY DEF Bounded
<1>2. \A h \in Nat : ReadFrom(most, h)
  <2> DEFINE B == {h \in Nat : ~ ReadFrom(most, h)}
  <2> SUFFICES ASSUME B # {} PROVE FALSE
    OBVIOUS
  <2>1. Min(B) \in B /\ \A m \in B : Min(B) <= m
    BY LeastOf
  <2> DEFINE h == Min(B)
  <2>2. h # 0
    <3>1. Far(most, 0) = {}
      <4>1. \A x \in DOMAIN tree : Len(x) \in Nat /\ Len(x) < most
        BY <1>1, AddressLength
      <4>2. \A x \in DOMAIN tree : ~ (Len(x) + 0 >= most)
        BY <1>1, <4>1
      <4> QED
        BY <4>2 DEF Far
    <3> DEFINE f == [x \in {} |-> {}]
    <3>2. f = [x \in {} |-> Made(f, x)]
      OBVIOUS
    <3> HIDE DEF f
    <3>3. ReadFrom(most, 0)
      BY <3>1, <3>2 DEF ReadFrom
    <3> QED
      BY <2>1, <3>3
  <2> HIDE DEF h
  <2>3. h \in B /\ h \in Nat /\ \A m \in B : h <= m
    BY <2>1 DEF h
  <2>4. h - 1 \in Nat /\ h - 1 \notin B /\ (h - 1) + 1 = h
    BY <2>2, <2>3
  <2>5. ReadFrom(most, h - 1)
    BY <2>4
  <2>6. ReadFrom(most, (h - 1) + 1)
    BY <2>4, <2>5, ReadNearer
  <2> QED
    BY <2>3, <2>4, <2>6
<1>3. Far(most, most) = DOMAIN tree
  <2>1. ASSUME NEW x \in DOMAIN tree PROVE Len(x) + most >= most
    <3>1. Len(x) \in Nat
      BY AddressLength
    <3> QED
      BY <3>1
  <2> QED
    BY <2>1, Zenon DEF Far
<1>4. \E f : f = [x \in DOMAIN tree |-> Made(f, x)]
  BY <1>1, <1>2, <1>3 DEF ReadFrom
<1>5. NodeAt = CHOOSE f : f = [x \in DOMAIN tree |-> Made(f, x)]
  BY DEF NodeAt, Made
<1>6. NodeAt = [x \in DOMAIN tree |-> Made(NodeAt, x)]
  BY <1>4, <1>5
<1> QED
  BY <1>6

\* n was written, and m has been read of it: R has all pairs of those.
ReadAs(R, n, m) == m = Parsed(n) \/ <<n, m>> \in R

\* A value is what its text parses to, and a section or an array has the same parts.
Reflects(R) ==
  \A n, m : <<n, m>> \in R =>
    IF IsInline(n) THEN m = Parsed(n)
    ELSE /\ m = <<n[1], m[2], m[3]>> /\ IsMap(m[2])
         /\ DOMAIN m[2] = (IF n[1] = "table" THEN DOMAIN n[2] ELSE 1 .. Len(n[2]))
         /\ \A i \in DOMAIN m[2] : <<n[2][i], m[2][i]>> \in R

LEMMA AllRead ==
  ASSUME NEW P, NEW root, Placed(P, root, tree, <<>>)
  PROVE  \E R : Reflects(R) /\ <<root, NodeAt[<<>>]>> \in R
<1> DEFINE R == {<<P[x], NodeAt[x]>> : x \in DOMAIN tree}
<1>1. LinesOf(<<>>) = {}
  BY NoLines
<1>2. /\ Bounded(tree) /\ <<>> \in DOMAIN tree /\ P[<<>>] = root
      /\ \A x \in DOMAIN tree : x \in Address /\ Told(P, tree, <<>>, x)
  BY DEF Placed
<1>3. ASSUME NEW x \in DOMAIN tree PROVE Whole(x)
  <2>1. IsInline(P[x]) \/ IsSection(P[x]) \/ TableArray(P[x])
    BY DEF IsInline
  <2> QED
    BY <1>2, <2>1 DEF Told, InlineTold, SectionTold, ArrayTold, Whole
<1>4. \A x \in DOMAIN tree : NodeAt[x] = Made(NodeAt, x)
  BY <1>2, <1>3, NodesRead
<1>5. ASSUME NEW x \in DOMAIN tree, NEW n, NEW m, n = P[x], m = NodeAt[x]
      PROVE  IF IsInline(n) THEN m = Parsed(n)
             ELSE /\ m = <<n[1], m[2], m[3]>> /\ IsMap(m[2])
                  /\ DOMAIN m[2] = (IF n[1] = "table" THEN DOMAIN n[2] ELSE 1 .. Len(n[2]))
                  /\ \A i \in DOMAIN m[2] : <<n[2][i], m[2][i]>> \in R
  <2>1. m = Made(NodeAt, x)
    BY <1>4, <1>5
  <2>2. Told(P, tree, <<>>, x)
    BY <1>2
  <2>3. CASE IsInline(n)
    BY <1>5, <2>1, <2>2, <2>3 DEF Told, InlineTold, Made
  <2>4. CASE IsSection(n)
    <3> DEFINE K == {j \in Keys : Append(x, j) \in DOMAIN tree}
               below == [k \in K |-> NodeAt[Append(x, k)]]
    <3>1. /\ "value" \notin DOMAIN tree[x] /\ tree[x].kind = "table" /\ DOMAIN n[2] \subseteq Keys
          /\ \A k \in Keys : Append(x, k) \in DOMAIN tree =>
               k \in DOMAIN n[2] /\ P[Append(x, k)] = n[2][k]
          /\ \A k \in DOMAIN n[2] : Append(x, k) \in DOMAIN tree
      BY <1>1, <1>5, <2>2, <2>4 DEF Told, SectionTold
    <3>2. m = <<"table", below, FALSE>>
      BY <2>1, <3>1 DEF Made
    <3>3. K = DOMAIN n[2]
      BY <3>1
    <3>4. n[1] = "table" /\ ~ IsInline(n)
      BY <2>4 DEF IsSection, IsInline
    <3>5. \A k \in K : P[Append(x, k)] = n[2][k] /\ Append(x, k) \in DOMAIN tree
      BY <3>1
    <3>6. \A k \in K : <<n[2][k], below[k]>> \in R
      BY <3>5
    <3>7. DOMAIN below = K /\ IsMap(below)
      BY DEF IsMap
    <3> HIDE DEF below, K, R
    <3>8. m[2] = below /\ m[1] = "table" /\ m = <<"table", m[2], m[3]>>
      BY <3>2
    <3> QED
      BY <3>3, <3>4, <3>6, <3>7, <3>8
  <2>5. CASE TableArray(n)
    <3> DEFINE below == [i \in 1 .. tree[x].size |-> NodeAt[Append(x, i)]]
    <3>1. /\ "value" \notin DOMAIN tree[x] /\ tree[x].kind = "array" /\ tree[x].size = Len(n[2])
          /\ \A i \in 1 .. tree[x].size : Append(x, i) \in DOMAIN tree /\ P[Append(x, i)] = n[2][i]
      BY <1>1, <1>5, <2>2, <2>5 DEF Told, ArrayTold
    <3>2. m = <<"array", below, TRUE>>
      BY <2>1, <3>1 DEF Made
    <3>3. n[1] = "array" /\ ~ IsInline(n)
      BY <2>5 DEF TableArray, IsInline
    <3>4. \A i \in 1 .. tree[x].size : <<n[2][i], below[i]>> \in R
      BY <3>1
    <3>5. DOMAIN below = 1 .. tree[x].size /\ IsMap(below)
      BY DEF IsMap
    <3> HIDE DEF below, R
    <3>6. m[2] = below /\ m[1] = "array" /\ m = <<"array", m[2], m[3]>>
      BY <3>2
    <3> QED
      BY <3>1, <3>3, <3>4, <3>5, <3>6
  <2> QED
    BY <2>3, <2>4, <2>5 DEF IsInline
<1>6. Reflects(R)
  <2>1. ASSUME NEW n, NEW m, <<n, m>> \in R
        PROVE  IF IsInline(n) THEN m = Parsed(n)
               ELSE /\ m = <<n[1], m[2], m[3]>> /\ IsMap(m[2])
                    /\ DOMAIN m[2] = (IF n[1] = "table" THEN DOMAIN n[2] ELSE 1 .. Len(n[2]))
                    /\ \A i \in DOMAIN m[2] : <<n[2][i], m[2][i]>> \in R
    <3>1. PICK x \in DOMAIN tree : n = P[x] /\ m = NodeAt[x]
      BY <2>1
    <3> HIDE DEF R
    <3> QED
      BY <1>5, <3>1
  <2> HIDE DEF R
  <2> QED
    BY <2>1 DEF Reflects
<1>7. <<root, NodeAt[<<>>]>> \in R
  BY <1>2
<1> HIDE DEF R
<1> QED
  BY <1>6, <1>7

-----------------------------------------------------------------------------
(* The nodes that are written as TOML.                                     *)

LEMMA ElementsOf ==
  ASSUME NEW t, NEW parts, IsMap(parts), NEW n, n = Elements(t, parts)
  PROVE  \/ n = Refused /\ \E i \in DOMAIN parts : parts[i] \in {Refused, Null}
         \/ /\ n = <<"array", n[2], n[3]>> /\ n[2] = parts
            /\ \A i \in DOMAIN parts : parts[i] \notin {Refused, Null}
  BY DEF Elements

\* The nodes of the parts of a value.
ElementNode(t, v, i) == TomlEncoded(t[2], v[2][i])
MemberNode(t, v, k) ==
  IF ValidField(FieldOf(t, k), v[2][k]) THEN TomlEncoded(FieldOf(t, k).type, v[2][k]) ELSE Refused
PartNode(t, v, k) == IF t[1] = "struct" THEN MemberNode(t, v, k) ELSE ElementNode(t, v, k)

LEMMA ElementNodes ==
  ASSUME NEW t, t[1] \in {"vector", "array"}, NEW v, NEW n, n = TomlEncode(t, v)
  PROVE  \/ n = Refused /\ \E i \in DOMAIN v[2] : ElementNode(t, v, i) \in {Refused, Null}
         \/ /\ n = <<"array", n[2], n[3]>> /\ IsMap(n[2]) /\ DOMAIN n[2] = DOMAIN v[2]
            /\ \A i \in DOMAIN v[2] : n[2][i] = ElementNode(t, v, i) /\ n[2][i] \notin {Refused, Null}
<1> DEFINE parts == [i \in DOMAIN v[2] |-> TomlEncoded(t[2], v[2][i])]
<1>1. n = Elements(t[2], parts)
  BY DEF TomlEncode
<1>2. /\ DOMAIN parts = DOMAIN v[2] /\ IsMap(parts)
      /\ \A i \in DOMAIN v[2] : parts[i] = ElementNode(t, v, i)
  BY DEF IsMap, ElementNode
<1> HIDE DEF parts
<1> QED
  BY <1>1, <1>2, ElementsOf

\* The table of all parts that are there.
TableOf(t, v, n) ==
  /\ n = <<"table", n[2], FALSE>> /\ IsMap(n[2])
  /\ DOMAIN n[2] = {k \in DOMAIN v[2] : PartNode(t, v, k) # Null}
  /\ \A k \in DOMAIN n[2] : n[2][k] = PartNode(t, v, k) /\ n[2][k] \notin {Refused, Null}

LEMMA TableNamed ==
  ASSUME NEW t, NEW v, NEW n, TableOf(t, v, n)
  PROVE  n[1] = "table" /\ n # Refused
<1>1. \A a, b : <<"table", a, b>>[1] = "table"
  OBVIOUS
<1>2. n = <<"table", n[2], FALSE>>
  BY DEF TableOf
<1>3. n[1] = "table"
  BY <1>1, <1>2, Zenon
<1> QED
  BY <1>3 DEF Refused

RefusesPart(t, v) == \E k \in DOMAIN v[2] : PartNode(t, v, k) = Refused

LEMMA MembersOf ==
  ASSUME NEW t, NEW v, NEW parts, DOMAIN parts = DOMAIN v[2],
         \A k \in DOMAIN v[2] : parts[k] = PartNode(t, v, k), NEW n, n = Members(parts)
  PROVE  (n = Refused /\ RefusesPart(t, v)) \/ TableOf(t, v, n)
<1>1. CASE \E k \in DOMAIN parts : parts[k] = Refused
  BY <1>1 DEF Members, RefusesPart
<1>2. CASE ~ \E k \in DOMAIN parts : parts[k] = Refused
  <2> DEFINE K == {j \in DOMAIN parts : parts[j] # Null}
             f == [k \in K |-> parts[k]]
  <2>1. n = <<"table", f, FALSE>>
    BY <1>2 DEF Members, TableNode
  <2>2. K = {k \in DOMAIN v[2] : PartNode(t, v, k) # Null}
    OBVIOUS
  <2>3. \A k \in K : f[k] = PartNode(t, v, k) /\ f[k] \notin {Refused, Null}
    BY <1>2
  <2>4. DOMAIN f = K /\ IsMap(f)
    BY DEF IsMap
  <2> HIDE DEF f, K
  <2>5. n[2] = f
    BY <2>1
  <2>6. TableOf(t, v, n)
    BY <2>1, <2>2, <2>3, <2>4, <2>5 DEF TableOf
  <2> QED
    BY <2>6
<1> QED
  BY <1>1, <1>2

LEMMA MemberNodes ==
  ASSUME NEW t, t[1] \in {"map", "struct"}, NEW v, HasType(t, v), NEW n, n = TomlEncode(t, v)
  PROVE  (n = Refused /\ RefusesPart(t, v)) \/ TableOf(t, v, n)
<1>1. CASE t[1] = "map"
  <2> DEFINE parts == [i \in DOMAIN v[2] |-> TomlEncoded(t[2], v[2][i])]
  <2>1. n = Members(parts)
    BY <1>1 DEF TomlEncode
  <2>2. DOMAIN parts = DOMAIN v[2] /\ \A i \in DOMAIN v[2] : parts[i] = PartNode(t, v, i)
    BY <1>1 DEF PartNode, ElementNode
  <2> HIDE DEF parts
  <2> QED
    BY <2>1, <2>2, MembersOf
<1>2. CASE t[1] = "struct"
  <2> DEFINE parts == [k \in FieldNames(t) |->
                         IF ValidField(FieldOf(t, k), v[2][k])
                           THEN TomlEncoded(FieldOf(t, k).type, v[2][k]) ELSE Refused]
  <2>1. n = Members(parts)
    BY <1>2 DEF TomlEncode, TomlEncodeFields
  <2>2. DOMAIN v[2] = FieldNames(t)
    BY <1>2, PartsOfType
  <2>3. DOMAIN parts = DOMAIN v[2] /\ \A i \in DOMAIN v[2] : parts[i] = PartNode(t, v, i)
    BY <1>2, <2>2 DEF PartNode, MemberNode
  <2> HIDE DEF parts
  <2> QED
    BY <2>1, <2>3, MembersOf
<1> QED
  BY <1>1, <1>2

\* The node of a value that has no parts.
LEMMA ScalarNode ==
  ASSUME Recursion, NEW t \in AllTypes,
         t[1] \notin {"optional", "inline", "vector", "array", "map", "struct"},
         NEW v, HasType(t, v), NEW n, n = TomlEncode(t, v)
  PROVE  /\ n[1] \in {"refused", "int", "bool", "string", "double", "nan", "date"}
         /\ n # Refused /\ t[1] # "enum" => n = v /\ t[1] \in {"bool", "int", "double", "string", "date"}
         /\ n # Refused /\ t[1] = "enum" =>
              /\ Numbered(t, v[2]) # Refused
              /\ IF t[3] THEN n = <<"string", EntryName(t, v[2])>>
                 ELSE n = <<"int", v[2]>> /\ v[2] <= Int64Max
         /\ n # Refused /\ t[1] = "int" => v[2] <= Int64Max
         /\ n # Refused /\ t[1] = "date" => v[2] \in Dates
<1>1. Refused[1] = "refused" /\ NotANumber[1] = "nan"
  BY DEF Refused, NotANumber
<1>2. CASE t[1] \in {"bool", "string", "double"}
  <2>1. n = v
    BY <1>2 DEF TomlEncode
  <2>2. v[1] \in {"bool", "string", "double", "nan"}
    BY <1>1, <1>2, ScalarOfType
  <2> QED
    BY <1>2, <2>1, <2>2
<1>3. CASE t[1] = "int"
  <2>1. v[2] \in Int
    <3>1. t \in IntegerTypes /\ v[2] \in t[2] .. t[3]
      BY <1>3, TypeInside, ScalarOfType DEF IsType
    <3> QED
      BY <3>1, Int64Assumption DEF IntegerTypes
  <2>2. n = IF v[2] > Int64Max THEN Refused ELSE v
    BY <1>3 DEF TomlEncode
  <2>3. v[1] = "int"
    BY <1>3, ScalarOfType
  <2> QED
    BY <1>1, <1>3, <2>1, <2>2, <2>3, Int64Assumption
<1>4. CASE t[1] = "date"
  <2>1. n = IF v[2] \in Dates THEN v ELSE Refused
    BY <1>4 DEF TomlEncode
  <2>2. v[1] = "date"
    BY <1>4, ScalarOfType
  <2> QED
    BY <1>1, <1>4, <2>1, <2>2
<1>5. CASE t[1] = "enum"
  <2>1. n = IF Numbered(t, v[2]) = Refused THEN Refused
            ELSE IF t[3] THEN <<"string", EntryName(t, v[2])>>
            ELSE TomlEncoded(t[4], <<"int", v[2]>>)
    BY <1>5 DEF TomlEncode
  <2>2. t[4] \in AllTypes /\ t[4] \in IntegerTypes /\ t[4][1] = "int" /\ Int64Max \in Nat
    BY <1>5, TypeInside, Int64Assumption DEF Inside, IsType, IntegerTypes
  <2>3. v[2] \in Int
    <3>1. v[2] \in t[4][2] .. t[4][3]
      BY <1>5, ScalarOfType
    <3> QED
      BY <2>2, <3>1 DEF IntegerTypes
  <2>4. TomlEncoded(t[4], <<"int", v[2]>>) = TomlEncode(t[4], <<"int", v[2]>>)
    BY <2>2 DEF Recursion, WritesParts
  <2>5. TomlEncode(t[4], <<"int", v[2]>>) = IF v[2] > Int64Max THEN Refused ELSE <<"int", v[2]>>
    BY <2>2 DEF TomlEncode
  <2> QED
    BY <1>1, <1>5, <2>1, <2>2, <2>3, <2>4, <2>5
<1>6. CASE t[1] \in {"variant", "raw", "json"}
  <2>1. n = Refused
    BY <1>6 DEF TomlEncode
  <2> QED
    BY <1>1, <1>6, <2>1
<1> QED
  BY <1>2, <1>3, <1>4, <1>5, <1>6, TypeNames

\* A table that is to be inline.
InlineOf(m) == [m EXCEPT ![3] = TRUE]

LEMMA ThirdSet ==
  ASSUME NEW m, m = <<"table", m[2], m[3]>>
  PROVE  InlineOf(m) = <<"table", m[2], TRUE>>
<1> DEFINE b == m[2]
           c == m[3]
<1>1. m = <<"table", b, c>>
  OBVIOUS
<1> HIDE DEF b, c
<1>2. \A d : [<<"table", b, c>> EXCEPT ![3] = d] = <<"table", b, d>>
  OBVIOUS
<1>3. InlineOf(m) = <<"table", b, TRUE>>
  BY <1>1, <1>2, Zenon DEF InlineOf
<1> QED
  BY <1>3 DEF b

LEMMA WrapperNode ==
  ASSUME NEW t, NEW v, NEW n, n = TomlEncode(t, v)
  PROVE  /\ t[1] = "optional" =>
              \/ n = Refused /\ ~ Sound(t[2])
              \/ n = Null /\ v = None /\ Sound(t[2])
              \/ n = TomlEncoded(t[2], v[2]) /\ v # None /\ Sound(t[2])
         /\ t[1] = "inline" =>
              LET m == TomlEncoded(t[2], v)
              IN \/ n = Refused /\ m[1] # "table"
                 \/ n = InlineOf(m) /\ m[1] = "table"
  BY DEF TomlEncode, InlineOf

\* A table is a node of three parts.
Tabular(t) ==
  \A v : LET n == TomlEncoded(t, v)
         IN HasTypePart(t, v) /\ n[1] = "table" => n = <<"table", n[2], n[3]>>

LEMMA AllTabular ==
  ASSUME Recursion
  PROVE  \A t \in AllTypes : Tabular(t)
<1> DEFINE B == {t \in AllTypes : ~ Tabular(t)}
<1>1. ASSUME NEW t \in AllTypes, \A u \in Inside(t) : Tabular(u) PROVE Tabular(t)
  <2>1. JudgesParts(t) /\ WritesParts(t)
    BY DEF Recursion
  <2>2. ASSUME NEW v, HasType(t, v), NEW n, n = TomlEncode(t, v), n[1] = "table"
        PROVE  n = <<"table", n[2], n[3]>>
    <3>1. Refused[1] = "refused" /\ Null[1] = "null"
      BY DEF Refused, Null
    <3>2. CASE t[1] = "optional"
      <4>1. t[2] \in Inside(t)
        BY <3>2 DEF Inside
      <4>2. v # None /\ n = TomlEncoded(t[2], v[2])
        BY <2>2, <3>1, <3>2, WrapperNode
      <4> QED
        BY <1>1, <2>2, <3>2, <4>1, <4>2, PartsOfType DEF Tabular
    <3>3. CASE t[1] = "inline"
      <4> DEFINE m == TomlEncoded(t[2], v)
      <4>1. t[2] \in Inside(t)
        BY <3>3 DEF Inside
      <4>2. n = InlineOf(m) /\ m[1] = "table"
        BY <2>2, <3>1, <3>3, WrapperNode
      <4>3. m = <<"table", m[2], m[3]>>
        BY <1>1, <2>2, <3>3, <4>1, <4>2, PartsOfType DEF Tabular
      <4> HIDE DEF m
      <4>4. n = <<"table", m[2], TRUE>>
        BY <4>2, <4>3, ThirdSet
      <4> QED
        BY <4>4
    <3>4. CASE t[1] \in {"vector", "array"}
      BY <2>2, <3>1, <3>4, ElementNodes
    <3>5. CASE t[1] \in {"map", "struct"}
      <4>1. n = Refused \/ TableOf(t, v, n)
        BY <2>2, <3>5, MemberNodes
      <4>2. n = <<"table", n[2], FALSE>>
        BY <2>2, <3>1, <4>1 DEF TableOf
      <4> DEFINE b == n[2]
      <4>3. n = <<"table", b, FALSE>>
        BY <4>2
      <4> HIDE DEF b
      <4>4. n[3] = FALSE
        BY <4>3
      <4> QED
        BY <4>2, <4>4
    <3>6. CASE t[1] \notin {"optional", "inline", "vector", "array", "map", "struct"}
      BY <2>2, <3>6, ScalarNode
    <3> QED
      BY <3>2, <3>3, <3>4, <3>5, <3>6
  <2> QED
    BY <2>1, <2>2 DEF WritesParts, JudgesParts, Tabular
<1>2. B = {}
  BY <1>1, TypeInside, NoLeastType
<1> QED
  BY <1>2

\* So a table that is to be inline is the table it was, but for that.
LEMMA InlineNode ==
  ASSUME Recursion, NEW t \in AllTypes, t[1] = "inline", NEW v, HasType(t, v),
         NEW n, n = TomlEncode(t, v), n # Refused, NEW m, m = TomlEncoded(t[2], v)
  PROVE  m = <<"table", m[2], m[3]>> /\ n[1] = "table" /\ n[2] = m[2] /\ IsInline(n)
<1>1. n = InlineOf(m) /\ m[1] = "table"
  BY WrapperNode
<1>2. t[2] \in AllTypes /\ HasTypePart(t[2], v)
  BY TypeInside, PartsOfType DEF Inside
<1>3. m = <<"table", m[2], m[3]>>
  BY <1>1, <1>2, AllTabular DEF Tabular
<1>4. n = <<"table", m[2], TRUE>>
  BY <1>1, <1>3, ThirdSet
<1> DEFINE b == m[2]
<1>5. n = <<"table", b, TRUE>>
  BY <1>4
<1> HIDE DEF b
<1>6. n[1] = "table" /\ n[2] = b /\ n[3]
  BY <1>5
<1>7. IsInline(n)
  BY <1>6 DEF IsInline, IsSection, TableArray
<1> QED
  BY <1>3, <1>6, <1>7 DEF b

\* A node is in a set that is complete, if its parts are.
Enclosed(n) == \E nodes : Closed(nodes) /\ n \in nodes

LEMMA EnclosedWith ==
  ASSUME NEW n,
         IsSection(n) => IsFiniteSet(DOMAIN n[2]) /\ DOMAIN n[2] \subseteq Keys,
         TableArray(n) => IsMap(n[2]) /\ \E k \in Nat : DOMAIN n[2] = 1 .. k,
         ~ IsInline(n) => \A i \in DOMAIN n[2] : Enclosed(n[2][i])
  PROVE  Enclosed(n)
<1>1. CASE IsInline(n)
  <2>1. Closed({n})
    BY <1>1 DEF Closed, IsInline
  <2> QED
    BY <2>1 DEF Enclosed
<1>2. CASE ~ IsInline(n)
  <2> DEFINE Around(i) == CHOOSE nodes : Closed(nodes) /\ n[2][i] \in nodes
             below == UNION {Around(i) : i \in DOMAIN n[2]}
             all == {n} \cup below
  <2>1. \A i \in DOMAIN n[2] : Closed(Around(i)) /\ n[2][i] \in Around(i)
    BY <1>2 DEF Enclosed
  <2> HIDE DEF Around
  <2>2. ASSUME NEW m \in below
        PROVE  /\ IsSection(m) => /\ IsFiniteSet(DOMAIN m[2]) /\ DOMAIN m[2] \subseteq Keys
                                  /\ \A k \in DOMAIN m[2] : m[2][k] \in all
               /\ TableArray(m) => m[2] \in Seq(all)
    <3>1. PICK i \in DOMAIN n[2] : m \in Around(i)
      OBVIOUS
    <3>2. Around(i) \subseteq all
      OBVIOUS
    <3> HIDE DEF all
    <3>3. /\ IsSection(m) => /\ IsFiniteSet(DOMAIN m[2]) /\ DOMAIN m[2] \subseteq Keys
                             /\ \A k \in DOMAIN m[2] : m[2][k] \in Around(i)
          /\ TableArray(m) => m[2] \in Seq(Around(i))
      BY <2>1, <3>1 DEF Closed
    <3>4. Seq(Around(i)) \subseteq Seq(all)
      BY <3>2
    <3> QED
      BY <3>2, <3>3, <3>4
  <2>3. \A i \in DOMAIN n[2] : n[2][i] \in all
    BY <2>1
  <2> HIDE DEF below
  <2>4. n \in all /\ \A m \in all : m = n \/ m \in below
    OBVIOUS
  <2> HIDE DEF all
  <2>5. TableArray(n) => n[2] \in Seq(all)
    <3> SUFFICES ASSUME TableArray(n) PROVE n[2] \in Seq(all)
      OBVIOUS
    <3>1. PICK k \in Nat : DOMAIN n[2] = 1 .. k
      OBVIOUS
    <3> DEFINE f == n[2]
    <3>2. f = [i \in DOMAIN f |-> f[i]]
      BY DEF IsMap
    <3>3. f \in [1 .. k -> all]
      BY <2>3, <3>1, <3>2
    <3> HIDE DEF f
    <3>4. f \in Seq(all)
      BY <3>3, IsASeq
    <3> QED
      BY <3>4 DEF f
  <2>6. Closed(all)
    BY <2>2, <2>3, <2>4, <2>5 DEF Closed
  <2> QED
    BY <2>4, <2>6 DEF Enclosed
<1> QED
  BY <1>1, <1>2

LEMMA NamesFinite ==
  ASSUME NEW t \in AllTypes, t[1] = "struct"
  PROVE  IsFiniteSet(FieldNames(t)) /\ FieldNames(t) \subseteq Keys
<1> DEFINE f == [i \in 1 .. Len(t[2]) |-> t[2][i].name]
<1>1. IsFiniteSet(1 .. Len(t[2]))
  <2>1. Len(t[2]) \in Nat
    BY TypeInside DEF IsType
  <2> QED
    BY <2>1, FS_Interval
<1>2. IsFiniteSet(FieldNames(t))
  <2>1. f \in Surjection(1 .. Len(t[2]), FieldNames(t))
    BY DEF Surjection, FieldNames
  <2> HIDE DEF f
  <2> QED
    BY <1>1, <2>1, FS_Surjection
<1> QED
  BY <1>2, TypesAssumption

\* What is written of a value of t is in such a set.
Encloses(t) == \A v : HasTypePart(t, v) => Enclosed(TomlEncoded(t, v))

LEMMA EnclosedElements ==
  ASSUME NEW t \in AllTypes, t[1] \in {"vector", "array"}, Encloses(t[2]), NEW v, HasType(t, v)
  PROVE  Enclosed(TomlEncode(t, v))
<1> DEFINE n == TomlEncode(t, v)
<1>1. CASE n = Refused
  BY <1>1, EnclosedWith DEF IsInline, IsSection, TableArray, Refused
<1>2. CASE n # Refused
  <2>1. /\ n = <<"array", n[2], n[3]>> /\ IsMap(n[2]) /\ DOMAIN n[2] = DOMAIN v[2]
        /\ \A i \in DOMAIN v[2] : n[2][i] = TomlEncoded(t[2], v[2][i])
    BY <1>2, ElementNodes DEF ElementNode
  <2>2. \A i \in DOMAIN v[2] : HasTypePart(t[2], v[2][i])
    BY PartsOfType
  <2>3. \E k \in Nat : DOMAIN v[2] = 1 .. k
    <3>1. t[1] = "vector" => Len(v[2]) \in Nat /\ DOMAIN v[2] = 1 .. Len(v[2])
      BY DEF HasType
    <3>2. t[1] = "array" => t[3] \in Nat /\ DOMAIN v[2] = 1 .. t[3]
      BY PartsOfType, TypeInside DEF IsType
    <3> QED
      BY <3>1, <3>2
  <2>4. \A i \in DOMAIN n[2] : Enclosed(n[2][i])
    BY <2>1, <2>2 DEF Encloses
  <2>5. ~ IsSection(n)
    BY <2>1 DEF IsSection
  <2> HIDE DEF n
  <2>8. Enclosed(n)
    BY <2>1, <2>3, <2>4, <2>5, EnclosedWith
  <2> QED
    BY <2>8 DEF n
<1> QED
  BY <1>1, <1>2

LEMMA EnclosedMembers ==
  ASSUME Recursion, NEW t \in AllTypes, t[1] \in {"map", "struct"}, \A u \in Inside(t) : Encloses(u),
         NEW v, HasType(t, v)
  PROVE  Enclosed(TomlEncode(t, v))
<1> DEFINE n == TomlEncode(t, v)
<1>1. CASE n = Refused
  BY <1>1, EnclosedWith DEF IsInline, IsSection, TableArray, Refused
<1>2. CASE n # Refused
  <2>1. TableOf(t, v, n)
    BY <1>2, MemberNodes
  <2>2. IsFiniteSet(DOMAIN v[2]) /\ DOMAIN v[2] \subseteq Keys
    BY PartsOfType, NamesFinite
  <2>3. ASSUME NEW k \in DOMAIN v[2], PartNode(t, v, k) # Refused PROVE Enclosed(PartNode(t, v, k))
    <3>1. CASE t[1] = "map"
      <4>1. t[2] \in Inside(t) /\ HasTypePart(t[2], v[2][k])
        BY <3>1, PartsOfType DEF Inside
      <4> QED
        BY <3>1, <4>1 DEF Encloses, PartNode, ElementNode
    <3>2. CASE t[1] = "struct"
      <4>1. /\ k \in FieldNames(t) /\ HasTypePart(FieldOf(t, k).type, v[2][k])
        BY <3>2, PartsOfType
      <4>2. FieldOf(t, k).type \in Inside(t)
        BY <3>2, <4>1, FieldsInside
      <4> QED
        BY <2>3, <3>2, <4>1, <4>2 DEF Encloses, PartNode, MemberNode
    <3> QED
      BY <3>1, <3>2
  <2> HIDE DEF n
  <2>4. \A k \in DOMAIN n[2] : k \in DOMAIN v[2] /\ n[2][k] = PartNode(t, v, k) /\ n[2][k] # Refused
    BY <2>1 DEF TableOf
  <2>5. \A k \in DOMAIN n[2] : Enclosed(n[2][k])
    BY <2>3, <2>4
  <2>6. IsFiniteSet(DOMAIN n[2]) /\ DOMAIN n[2] \subseteq Keys
    BY <2>2, <2>4, FS_Subset
  <2>7. ~ TableArray(n)
    BY <2>1 DEF TableOf, TableArray
  <2>8. Enclosed(n)
    BY <2>5, <2>6, <2>7, EnclosedWith
  <2> QED
    BY <2>8 DEF n
<1> QED
  BY <1>1, <1>2

LEMMA AllEnclosed ==
  ASSUME Recursion
  PROVE  \A t \in AllTypes : Encloses(t)
<1> DEFINE B == {t \in AllTypes : ~ Encloses(t)}
<1>1. ASSUME NEW t \in AllTypes, \A u \in Inside(t) : Encloses(u) PROVE Encloses(t)
  <2>1. JudgesParts(t) /\ WritesParts(t)
    BY DEF Recursion
  <2>2. ASSUME NEW v, HasType(t, v), NEW n, n = TomlEncode(t, v)
        PROVE  Enclosed(n)
    <3>1. ASSUME n[1] \notin {"table", "array"} PROVE Enclosed(n)
      BY <3>1, EnclosedWith DEF IsInline, IsSection, TableArray
    <3>2. Refused[1] = "refused" /\ Null[1] = "null"
      BY DEF Refused, Null
    <3>3. CASE t[1] = "optional"
      <4>1. t[2] \in Inside(t)
        BY <3>3 DEF Inside
      <4>2. n[1] \in {"refused", "null"} \/ (v # None /\ n = TomlEncoded(t[2], v[2]))
        BY <2>2, <3>2, <3>3, WrapperNode
      <4>3. v # None => HasTypePart(t[2], v[2])
        BY <2>2, <3>3, PartsOfType
      <4> QED
        BY <1>1, <3>1, <4>1, <4>2, <4>3 DEF Encloses
    <3>4. CASE t[1] = "inline"
      <4>1. CASE n = Refused
        BY <3>1, <3>2, <4>1
      <4>2. CASE n # Refused
        <5> DEFINE m == TomlEncoded(t[2], v)
        <5>0. m = TomlEncoded(t[2], v)
          OBVIOUS
        <5> HIDE DEF m
        <5>1. IsInline(n)
          BY <2>2, <3>4, <4>2, <5>0, InlineNode
        <5> QED
          BY <5>1, EnclosedWith DEF IsInline
      <4> QED
        BY <4>1, <4>2
    <3>5. CASE t[1] \in {"vector", "array"}
      <4>1. t[2] \in Inside(t)
        BY <3>5 DEF Inside
      <4> QED
        BY <1>1, <2>2, <3>5, <4>1, EnclosedElements
    <3>6. CASE t[1] \in {"map", "struct"}
      BY <1>1, <2>2, <3>6, EnclosedMembers
    <3>7. CASE t[1] \notin {"optional", "inline", "vector", "array", "map", "struct"}
      <4>1. n[1] \in {"refused", "int", "bool", "string", "double", "nan", "date"}
        BY <2>2, <3>7, ScalarNode
      <4> QED
        BY <3>1, <4>1
    <3> QED
      BY <3>3, <3>4, <3>5, <3>6, <3>7
  <2> QED
    BY <2>1, <2>2 DEF WritesParts, JudgesParts, Encloses
<1>2. B = {}
  BY <1>1, TypeInside, NoLeastType
<1> QED
  BY <1>2

-----------------------------------------------------------------------------
(* What is not written as TOML.                                            *)

\* A part that is left out is absent.
LeavesOut(t) == \A v : HasTypePart(t, v) /\ TomlEncoded(t, v) = Null => AbsentPart(t, v)

LEMMA AllLeftOut ==
  ASSUME Recursion
  PROVE  \A t \in AllTypes : LeavesOut(t)
<1> DEFINE B == {t \in AllTypes : ~ LeavesOut(t)}
<1>1. ASSUME NEW t \in AllTypes, \A u \in Inside(t) : LeavesOut(u) PROVE LeavesOut(t)
  <2>1. JudgesParts(t) /\ WritesParts(t)
    BY DEF Recursion
  <2>2. ASSUME NEW v, HasType(t, v), TomlEncode(t, v) = Null
        PROVE  Absent(t, v)
    <3>1. Null[1] = "null" /\ Refused[1] = "refused"
      BY DEF Null, Refused
    <3>2. CASE t[1] = "optional"
      <4>1. t[2] \in Inside(t)
        BY <3>2 DEF Inside
      <4>2. v = None \/ (v # None /\ TomlEncoded(t[2], v[2]) = Null)
        BY <2>2, <3>1, <3>2, WrapperNode
      <4>3. v # None => HasTypePart(t[2], v[2])
        BY <2>2, <3>2, PartsOfType
      <4> QED
        BY <1>1, <3>2, <4>1, <4>2, <4>3 DEF LeavesOut, Absent
    <3>3. CASE t[1] = "inline"
      <4> DEFINE n == TomlEncode(t, v)
                 m == TomlEncoded(t[2], v)
      <4>1. n # Refused
        BY <2>2, <3>1
      <4>2. n[1] = "table"
        BY <2>2, <3>3, <4>1, InlineNode
      <4> QED
        BY <2>2, <3>1, <4>2
    <3>4. CASE t[1] \in {"vector", "array"}
      BY <2>2, <3>1, <3>4, ElementNodes
    <3>5. CASE t[1] \in {"map", "struct"}
      <4> DEFINE n == TomlEncode(t, v)
      <4>1. n = Refused \/ TableOf(t, v, n)
        BY <2>2, <3>5, MemberNodes
      <4>2. n = Refused \/ n[1] = "table"
        BY <4>1, TableNamed
      <4> QED
        BY <2>2, <3>1, <4>2
    <3>6. CASE t[1] \notin {"optional", "inline", "vector", "array", "map", "struct"}
      BY <2>2, <3>1, <3>6, ScalarNode
    <3> QED
      BY <3>2, <3>3, <3>4, <3>5, <3>6
  <2> QED
    BY <2>1, <2>2 DEF WritesParts, JudgesParts, LeavesOut
<1>2. B = {}
  BY <1>1, TypeInside, NoLeastType
<1> QED
  BY <1>2

\* A value that validate_field_value() refuses is none that the field takes.
Rejects(t) ==
  \A v, options :
    HasTypePart(t, v) /\ options \in OptionMaps /\ ~ ValidPart(t, v, options) =>
      ~ KeepsPart(t, options, v) \/ UnwritablePart(t, v)

LEMMA RejectsPlain ==
  ASSUME NEW t \in AllTypes, t[1] # "optional", NEW v, HasType(t, v), NEW options \in OptionMaps,
         ~ ValidFieldValue(t, v, options), Keeps(t, options, v)
  PROVE  Unwritable(t, v)
<1> SUFFICES ASSUME ~ (t[1] = "enum" /\ Numbered(t, v[2]) = Refused) PROVE FALSE
  BY DEF Unwritable
<1>1. CASE options = <<>>
  <2>1. DOMAIN options = {}
    BY <1>1
  <2> QED
    BY <2>1 DEF ValidFieldValue, Between
<1>2. CASE options # <<>>
  <2>1. CASE t[1] \in {"int", "double", "enum"}
    <3>1. v # NotANumber /\ v[1] \in {"int", "double", "enum"}
      <4>1. v = NotANumber \/ v[1] \in {"int", "double", "enum"}
        BY <2>1, ScalarOfType
      <4> QED
        BY <1>2, <4>1 DEF Keeps
    <3>2. Between(v[2], options, "minimum", "maximum")
      BY <1>2, <3>1 DEF Keeps, Between
    <3> QED
      BY <2>1, <3>1, <3>2 DEF ValidFieldValue
  <2>2. CASE t[1] = "string"
    <3>1. v[1] = "string"
      BY <2>2, ScalarOfType
    <3>2. Between(Len(v[2]), options, "min_length", "max_length")
      BY <1>2, <3>1 DEF Keeps, Between
    <3> QED
      BY <2>2, <3>2 DEF ValidFieldValue
  <2>3. CASE t[1] \in {"vector", "array", "map"}
    <3>1. v[1] \in {"array", "object"}
      BY <2>3, PartsOfType
    <3>2. Between(Cardinality(DOMAIN v[2]), options, "min_items", "max_items")
      BY <1>2, <3>1 DEF Keeps, Between
    <3> QED
      BY <2>3, <3>2 DEF ValidFieldValue
  <2>4. CASE t[1] \notin {"int", "double", "enum", "string", "vector", "array", "map"}
    BY <2>4 DEF ValidFieldValue
  <2> QED
    BY <2>1, <2>2, <2>3, <2>4
<1> QED
  BY <1>1, <1>2

LEMMA AllReject ==
  ASSUME Recursion
  PROVE  \A t \in AllTypes : Rejects(t)
<1> DEFINE B == {t \in AllTypes : ~ Rejects(t)}
<1>1. ASSUME NEW t \in AllTypes, \A u \in Inside(t) : Rejects(u) PROVE Rejects(t)
  <2>1. JudgesParts(t) /\ ChecksParts(t)
    BY DEF Recursion
  <2>2. ASSUME NEW v, HasType(t, v), NEW options \in OptionMaps, ~ ValidFieldValue(t, v, options),
               Keeps(t, options, v)
        PROVE  Unwritable(t, v)
    <3>1. CASE t[1] = "optional"
      <4>1. t[2] \in Inside(t)
        BY <3>1 DEF Inside
      <4>2. v # None /\ ~ ValidPart(t[2], v[2], options)
        BY <2>2, <3>1 DEF ValidFieldValue
      <4>3. HasTypePart(t[2], v[2]) /\ KeepsPart(t[2], options, v[2])
        BY <2>2, <3>1, <4>2, PartsOfType DEF Keeps
      <4>4. UnwritablePart(t[2], v[2])
        BY <1>1, <4>1, <4>2, <4>3 DEF Rejects
      <4> QED
        BY <3>1, <4>2, <4>4 DEF Unwritable
    <3>2. CASE t[1] # "optional"
      BY <2>2, <3>2, RejectsPlain
    <3> QED
      BY <3>1, <3>2
  <2> QED
    BY <2>1, <2>2 DEF ChecksParts, JudgesParts, Rejects
<1>2. B = {}
  BY <1>1, TypeInside, NoLeastType
<1> QED
  BY <1>2

\* A part that is refused has no text.
RefusesOnly(t) == \A v : HasTypePart(t, v) /\ TomlEncoded(t, v) = Refused => UnwritablePart(t, v)

LEMMA ScalarRefused ==
  ASSUME Recursion, NEW t \in AllTypes,
         t[1] \notin {"optional", "inline", "vector", "array", "map", "struct"},
         NEW v, HasType(t, v), TomlEncode(t, v) = Refused
  PROVE  Unwritable(t, v)
<1>1. v # Refused
  BY ValuesAreReal DEF Recursion, JudgesParts
<1>2. CASE t[1] \in {"bool", "string", "double"}
  BY <1>1, <1>2 DEF TomlEncode
<1>3. CASE t[1] = "int"
  BY <1>1, <1>3 DEF TomlEncode, Unwritable
<1>4. CASE t[1] = "date"
  BY <1>1, <1>4 DEF TomlEncode, Unwritable
<1>5. CASE t[1] = "enum"
  <2>1. Numbered(t, v[2]) = Refused \/
          (~ t[3] /\ TomlEncoded(t[4], <<"int", v[2]>>) = Refused)
    BY <1>5 DEF TomlEncode, Refused
  <2>2. t[4] \in AllTypes /\ t[4] \in IntegerTypes /\ t[4][1] = "int"
    BY <1>5, TypeInside DEF Inside, IsType, IntegerTypes
  <2>3. TomlEncoded(t[4], <<"int", v[2]>>) = TomlEncode(t[4], <<"int", v[2]>>)
    BY <2>2 DEF Recursion, WritesParts
  <2>4. TomlEncode(t[4], <<"int", v[2]>>) = IF v[2] > Int64Max THEN Refused ELSE <<"int", v[2]>>
    BY <2>2 DEF TomlEncode
  <2> QED
    BY <1>5, <2>1, <2>3, <2>4 DEF Unwritable, Refused
<1>6. CASE t[1] \in {"variant", "raw", "json"}
  BY <1>6 DEF Unwritable
<1> QED
  BY <1>2, <1>3, <1>4, <1>5, <1>6, TypeNames

LEMMA StructRefused ==
  ASSUME Recursion, NEW t \in AllTypes, t[1] = "struct", \A u \in Inside(t) : RefusesOnly(u),
         NEW v, HasType(t, v), TomlEncode(t, v) = Refused
  PROVE  Unwritable(t, v)
<1>1. RefusesPart(t, v)
  BY MemberNodes, TableNamed
<1>2. PICK k \in DOMAIN v[2] : MemberNode(t, v, k) = Refused
  BY <1>1 DEF RefusesPart, PartNode
<1> DEFINE f == FieldOf(t, k)
           w == v[2][k]
<1>3. k \in FieldNames(t) /\ HasTypePart(f.type, w)
  BY <1>2, PartsOfType
<1>4. f.type \in AllTypes /\ f.type \in Inside(t) /\ f.options \in OptionMaps
  BY <1>3, FieldsInside DEF IsField, OptionMaps
<1>5. ~ ValidField(f, w) \/ TomlEncoded(f.type, w) = Refused
  BY <1>2 DEF MemberNode
<1>6. UnwritablePart(f.type, w) \/ ~ ValidOptions(f.type, f.options) \/ ~ Keeps(f.type, f.options, w)
  <2>1. CASE TomlEncoded(f.type, w) = Refused
    BY <1>3, <1>4, <2>1 DEF RefusesOnly
  <2>2. CASE ~ ValidField(f, w)
    <3>1. ~ ValidOptions(f.type, f.options) \/ ~ ValidFieldValue(f.type, w, f.options)
      BY <2>2 DEF ValidField
    <3>2. ~ ValidFieldValue(f.type, w, f.options) => ~ ValidPart(f.type, w, f.options)
      BY <1>4 DEF Recursion, ChecksParts
    <3>3. KeepsPart(f.type, f.options, w) <=> Keeps(f.type, f.options, w)
      BY <1>4 DEF Recursion, JudgesParts
    <3> HIDE DEF f, w
    <3> QED
      BY <1>3, <1>4, <3>1, <3>2, <3>3, AllReject DEF Rejects
  <2> QED
    BY <1>5, <2>1, <2>2
<1> QED
  BY <1>3, <1>6 DEF Unwritable

LEMMA AllRefusals ==
  ASSUME Recursion
  PROVE  \A t \in AllTypes : RefusesOnly(t)
<1> DEFINE B == {t \in AllTypes : ~ RefusesOnly(t)}
<1>1. ASSUME NEW t \in AllTypes, \A u \in Inside(t) : RefusesOnly(u) PROVE RefusesOnly(t)
  <2>1. JudgesParts(t) /\ WritesParts(t)
    BY DEF Recursion
  <2>2. ASSUME NEW v, HasType(t, v), TomlEncode(t, v) = Refused
        PROVE  Unwritable(t, v)
    <3>1. Null # Refused /\ Refused[1] = "refused"
      BY DEF Null, Refused
    <3>2. CASE t[1] = "optional"
      <4>1. t[2] \in Inside(t)
        BY <3>2 DEF Inside
      <4>2. ~ Sound(t[2]) \/ (v # None /\ TomlEncoded(t[2], v[2]) = Refused)
        BY <2>2, <3>1, <3>2, WrapperNode
      <4>3. v # None => HasTypePart(t[2], v[2])
        BY <2>2, <3>2, PartsOfType
      <4> QED
        BY <1>1, <3>2, <4>1, <4>2, <4>3 DEF RefusesOnly, Unwritable
    <3>3. CASE t[1] = "inline"
      <4> DEFINE m == TomlEncoded(t[2], v)
      <4>1. t[2] \in Inside(t) /\ t[2] \in AllTypes /\ HasTypePart(t[2], v)
        BY <2>2, <3>3, TypeInside, PartsOfType DEF Inside
      <4>2. m[1] # "table"
        <5>1. m[1] # "table" \/ (InlineOf(m) = Refused /\ m[1] = "table")
          BY <2>2, <3>3, WrapperNode
        <5>2. m[1] = "table" => m = <<"table", m[2], m[3]>>
          BY <4>1, AllTabular DEF Tabular
        <5> HIDE DEF m
        <5>3. m[1] = "table" => InlineOf(m) = <<"table", m[2], TRUE>>
          BY <5>2, ThirdSet
        <5>4. \A a, b : <<"table", a, b>>[1] = "table"
          OBVIOUS
        <5>5. m[1] = "table" => InlineOf(m)[1] = "table"
          BY <5>3, <5>4, Zenon
        <5> QED
          BY <3>1, <5>1, <5>5
      <4>3. CASE t[2][1] \in {"struct", "map"}
        <5>1. HasType(t[2], v) /\ m = TomlEncode(t[2], v)
          BY <4>1 DEF Recursion, JudgesParts, WritesParts
        <5>2. m = Refused \/ TableOf(t[2], v, m)
          BY <4>3, <5>1, MemberNodes
        <5>3. m = Refused
          BY <4>2, <5>2, TableNamed
        <5> QED
          BY <1>1, <3>3, <4>1, <5>3 DEF RefusesOnly, Unwritable
      <4>4. CASE t[2][1] \notin {"struct", "map"}
        BY <3>3, <4>4 DEF Unwritable
      <4> QED
        BY <4>3, <4>4
    <3>4. CASE t[1] \in {"vector", "array"}
      <4>1. t[2] \in Inside(t) /\ t[2] \in AllTypes
        BY <3>4, TypeInside DEF Inside
      <4>2. PICK i \in DOMAIN v[2] : TomlEncoded(t[2], v[2][i]) \in {Refused, Null}
        BY <2>2, <3>1, <3>4, ElementNodes DEF ElementNode
      <4>3. HasTypePart(t[2], v[2][i])
        BY <2>2, <3>4, <4>2, PartsOfType
      <4>4. UnwritablePart(t[2], v[2][i]) \/ AbsentPart(t[2], v[2][i])
        BY <1>1, <4>1, <4>2, <4>3, AllLeftOut DEF RefusesOnly, LeavesOut
      <4>5. UnwritablePart(t[2], v[2][i]) \/ Absent(t[2], v[2][i])
        BY <4>1, <4>4 DEF Recursion, JudgesParts
      <4> QED
        BY <3>4, <4>5 DEF Unwritable
    <3>5. CASE t[1] = "map"
      <4>1. t[2] \in Inside(t)
        BY <3>5 DEF Inside
      <4>2. RefusesPart(t, v)
        BY <2>2, <3>5, MemberNodes, TableNamed
      <4>3. PICK k \in DOMAIN v[2] : TomlEncoded(t[2], v[2][k]) = Refused
        BY <3>5, <4>2 DEF RefusesPart, PartNode, ElementNode
      <4>4. UnwritablePart(t[2], v[2][k])
        BY <1>1, <2>2, <3>5, <4>1, <4>3, PartsOfType DEF RefusesOnly
      <4> QED
        BY <3>5, <4>4 DEF Unwritable
    <3>6. CASE t[1] = "struct"
      BY <1>1, <2>2, <3>6, StructRefused
    <3>7. CASE t[1] \notin {"optional", "inline", "vector", "array", "map", "struct"}
      BY <2>2, <3>7, ScalarRefused
    <3> QED
      BY <3>2, <3>3, <3>4, <3>5, <3>6, <3>7
  <2> QED
    BY <2>1, <2>2 DEF WritesParts, JudgesParts, RefusesOnly
<1>2. B = {}
  BY <1>1, TypeInside, NoLeastType
<1> QED
  BY <1>2

-----------------------------------------------------------------------------
(* What is written as TOML is read as it was.                              *)

\* R has what has been read of the nodes that were written; a part is read as it was.
TomlBack(R, t) ==
  \A v, m : LET n == TomlEncoded(t, v)
            IN HasTypePart(t, v) /\ TomlKeepsPart(t) /\ n \notin {Refused, Null} /\ ReadAs(R, n, m) =>
                 TomlDecoded(t, m) = v

PartsTomlBack(R, t) == \A u \in Inside(t) : TomlBack(R, u)

LEMMA LeafRead ==
  ASSUME NEW R, Reflects(R), NEW n, n[1] \notin {"table", "array"}, NEW m, ReadAs(R, n, m)
  PROVE  m = Parsed(n)
<1>1. IsInline(n)
  BY DEF IsInline, IsSection, TableArray
<1> QED
  BY <1>1 DEF ReadAs, Reflects

\* An integer that has been written is read.
LEMMA IntegerRead ==
  ASSUME NEW t \in IntegerTypes, NEW x \in t[2] .. t[3], x <= Int64Max
  PROVE  /\ x \in Int /\ x \in - Int64Max - 1 .. Int64Max
         /\ ParseInteger(x) = <<"int", x>> /\ TomlInteger(t, x) = <<"int", x>>
<1>1. x \in Int /\ x \in - Int64Max - 1 .. Int64Max
  BY TypeEnds, Int64Assumption
<1>2. ParseInteger(x) = <<"int", x>>
  BY <1>1, Int64Assumption DEF ParseInteger, MagnitudeLimit
<1>3. <<"int", x>> # Refused /\ <<"int", x>>[2] = x
  BY DEF Refused
<1>4. TomlInteger(t, x) = Exactly(t, x, - Int64Max - 1, Int64Max)
  BY <1>1, <1>2, <1>3, TomlIntegers
<1>5. Exactly(t, x, - Int64Max - 1, Int64Max) = <<"int", x>>
  BY <1>1 DEF Exactly
<1> QED
  BY <1>1, <1>2, <1>4, <1>5

\* A double is twice its value; one that is whole is read as an integer.
LEMMA DoubleRead ==
  ASSUME NEW t, t[1] = "double", NEW v, HasType(t, v)
  PROVE  TomlDecode(t, Parsed(v)) = v
<1>1. CASE v = NotANumber
  BY <1>1 DEF NotANumber, Parsed, TomlDecode
<1>2. CASE v # NotANumber
  <2>1. v = <<"double", v[2]>> /\ v[2] \in Int
    BY <1>2, ScalarOfType
  <2> DEFINE x == v[2]
             h == x \div 2
  <2>2. CASE x % 2 = 0 /\ h \in - Int64Max .. Int64Max
    <3>1. Parsed(v) = ParseInteger(h)
      <4>1. v[1] = "double"
        BY <2>1
      <4> QED
        BY <2>2, <4>1 DEF Parsed
    <3>2. h \in Int /\ 2 * h = x
      BY <2>1, <2>2
    <3> HIDE DEF x, h
    <3>3. ParseInteger(h) = <<"int", h>>
      BY <2>2, <3>2, Int64Assumption DEF ParseInteger, MagnitudeLimit
    <3>4. TomlDecode(t, <<"int", h>>) = <<"double", 2 * h>>
      BY DEF TomlDecode, NotANumber
    <3> QED
      BY <2>1, <3>1, <3>2, <3>3, <3>4 DEF x
  <2>3. CASE ~ (x % 2 = 0 /\ h \in - Int64Max .. Int64Max)
    <3>1. v[1] = "double"
      BY <2>1
    <3>2. Parsed(v) = v
      BY <2>3, <3>1 DEF Parsed
    <3>3. TomlDecode(t, v) = v
      BY <3>1 DEF TomlDecode
    <3> QED
      BY <3>2, <3>3
  <2> QED
    BY <2>2, <2>3
<1> QED
  BY <1>1, <1>2

LEMMA ScalarReadBack ==
  ASSUME Recursion, NEW R, Reflects(R), NEW t \in AllTypes,
         t[1] \notin {"optional", "inline", "vector", "array", "map", "struct"},
         NEW v, HasType(t, v), NEW n, n = TomlEncode(t, v), n # Refused, NEW m, ReadAs(R, n, m)
  PROVE  TomlDecode(t, m) = v
<1>1. m = Parsed(n)
  <2>1. n[1] \in {"refused", "int", "bool", "string", "double", "nan", "date"}
    BY ScalarNode
  <2> QED
    BY <2>1, LeafRead
<1>2. /\ t[1] # "enum" => n = v /\ t[1] \in {"bool", "int", "double", "string", "date"}
      /\ t[1] = "enum" => /\ Numbered(t, v[2]) # Refused
                          /\ IF t[3] THEN n = <<"string", EntryName(t, v[2])>>
                             ELSE n = <<"int", v[2]>> /\ v[2] <= Int64Max
      /\ t[1] = "int" => v[2] <= Int64Max
      /\ t[1] = "date" => v[2] \in Dates
  BY ScalarNode
<1>3. CASE t[1] \in {"bool", "string"}
  <2>1. v[1] = t[1]
    BY <1>3, ScalarOfType
  <2>2. Parsed(v) = v
    BY <1>3, <2>1 DEF Parsed
  <2> QED
    BY <1>1, <1>2, <1>3, <2>1, <2>2 DEF TomlDecode
<1>4. CASE t[1] = "double"
  BY <1>1, <1>2, <1>4, DoubleRead
<1>5. CASE t[1] = "date"
  <2>1. v[1] = "date"
    BY <1>5, ScalarOfType
  <2>2. Parsed(v) = v
    BY <2>1 DEF Parsed
  <2> QED
    BY <1>1, <1>2, <1>5, <2>1, <2>2 DEF TomlDecode
<1>6. CASE t[1] = "int"
  <2>1. v = <<"int", v[2]>> /\ v[2] \in t[2] .. t[3] /\ t \in IntegerTypes
    BY <1>6, ScalarOfType, TypeInside DEF IsType
  <2> DEFINE x == v[2]
  <2>2. x \in - Int64Max - 1 .. Int64Max /\ ParseInteger(x) = <<"int", x>> /\ TomlInteger(t, x) = <<"int", x>>
    BY <1>2, <1>6, <2>1, IntegerRead
  <2>3. Parsed(v) = ParseInteger(x)
    <3>1. v[1] = "int"
      BY <2>1
    <3> QED
      BY <3>1 DEF Parsed
  <2> HIDE DEF x
  <2>4. TomlDecode(t, <<"int", x>>) = TomlInteger(t, x)
    BY <1>6, <2>2 DEF TomlDecode
  <2> QED
    BY <1>1, <1>2, <1>6, <2>1, <2>2, <2>3, <2>4 DEF x
<1>7. CASE t[1] = "enum"
  <2>1. v = <<"enum", v[2]>> /\ v[2] \in t[4][2] .. t[4][3]
    BY <1>7, ScalarOfType
  <2>2. t[4] \in AllTypes /\ t[4] \in IntegerTypes /\ t[4][1] = "int"
    BY <1>7, TypeInside DEF Inside, IsType, IntegerTypes
  <2>3. TomlDecode(t, m) = TomlDecodeEnum(t, m)
    BY <1>7 DEF TomlDecode
  <2>4. CASE t[3]
    <3>1. n = <<"string", EntryName(t, v[2])>>
      BY <1>2, <1>7, <2>4
    <3>2. n[1] = "string" /\ n[2] = EntryName(t, v[2])
      BY <3>1
    <3>3. m = n
      BY <1>1, <3>2 DEF Parsed
    <3> QED
      BY <1>2, <1>7, <2>1, <2>3, <2>4, <3>2, <3>3, NamedBack DEF TomlDecodeEnum
  <2>5. CASE ~ t[3]
    <3> DEFINE x == v[2]
    <3>1. n = <<"int", x>> /\ x <= Int64Max
      BY <1>2, <1>7, <2>5
    <3>2. x \in - Int64Max - 1 .. Int64Max /\ ParseInteger(x) = <<"int", x>> /\ TomlInteger(t[4], x) = <<"int", x>>
      BY <2>1, <2>2, <3>1, IntegerRead
    <3>3. Numbered(t, x) = <<"enum", x>>
      BY <1>2, <1>7 DEF Numbered
    <3> HIDE DEF x
    <3>4. Parsed(n) = ParseInteger(x)
      BY <3>1 DEF Parsed
    <3>5. TomlDecoded(t[4], m) = TomlDecode(t[4], <<"int", x>>)
      BY <1>1, <2>2, <3>2, <3>4 DEF Recursion, ReadsParts
    <3>6. TomlDecode(t[4], <<"int", x>>) = <<"int", x>>
      BY <2>2, <3>2 DEF TomlDecode
    <3>7. <<"int", x>> # Refused
      BY DEF Refused
    <3> QED
      BY <2>1, <2>3, <2>5, <3>3, <3>5, <3>6, <3>7 DEF TomlDecodeEnum, x
  <2> QED
    BY <2>4, <2>5
<1> QED
  BY <1>2, <1>3, <1>4, <1>5, <1>6, <1>7

\* The parts of what has been read of a table or an array have been read of its parts.
LEMMA PartsRead ==
  ASSUME NEW R, Reflects(R), NEW n, n[1] \in {"table", "array"}, IsMap(n[2]),
         n[1] = "array" => \E k \in Nat : DOMAIN n[2] = 1 .. k,
         \A i \in DOMAIN n[2] : TomlParsed(n[2][i]) = Parsed(n[2][i]), NEW m, ReadAs(R, n, m)
  PROVE  m[1] = n[1] /\ DOMAIN m[2] = DOMAIN n[2] /\ \A i \in DOMAIN m[2] : ReadAs(R, n[2][i], m[2][i])
<1>1. CASE m = Parsed(n)
  <2> DEFINE parts == [i \in DOMAIN n[2] |-> TomlParsed(n[2][i])]
  <2>1. /\ n[1] = "array" => m = <<"array", parts, FALSE>>
        /\ n[1] = "table" => m = <<"table", parts, TRUE>>
    BY <1>1 DEF Parsed
  <2>2. DOMAIN parts = DOMAIN n[2] /\ \A i \in DOMAIN n[2] : parts[i] = Parsed(n[2][i])
    OBVIOUS
  <2> HIDE DEF parts
  <2>3. m[1] = n[1] /\ m[2] = parts
    <3>1. CASE n[1] = "array"
      <4>1. m = <<"array", parts, FALSE>>
        BY <2>1, <3>1
      <4> QED
        BY <3>1, <4>1
    <3>2. CASE n[1] = "table"
      <4>1. m = <<"table", parts, TRUE>>
        BY <2>1, <3>2
      <4> QED
        BY <3>2, <4>1
    <3> QED
      BY <3>1, <3>2
  <2> QED
    BY <2>2, <2>3 DEF ReadAs
<1>2. CASE <<n, m>> \in R /\ m # Parsed(n)
  <2>1. /\ m = <<n[1], m[2], m[3]>>
        /\ DOMAIN m[2] = (IF n[1] = "table" THEN DOMAIN n[2] ELSE 1 .. Len(n[2]))
        /\ \A i \in DOMAIN m[2] : <<n[2][i], m[2][i]>> \in R
    BY <1>2 DEF Reflects
  <2>2. n[1] = "array" => DOMAIN n[2] = 1 .. Len(n[2])
    <3> SUFFICES ASSUME n[1] = "array" PROVE DOMAIN n[2] = 1 .. Len(n[2])
      OBVIOUS
    <3>1. PICK k \in Nat : DOMAIN n[2] = 1 .. k
      OBVIOUS
    <3> DEFINE f == n[2]
               S == {f[i] : i \in 1 .. k}
    <3>2. f = [i \in DOMAIN f |-> f[i]]
      BY DEF IsMap
    <3>3. f \in [1 .. k -> S]
      BY <3>1, <3>2
    <3> HIDE DEF f, S
    <3>4. f \in Seq(S)
      BY <3>3, IsASeq
    <3>5. DOMAIN f = 1 .. Len(f)
      BY <3>4
    <3> QED
      BY <3>5 DEF f
  <2>3. m[1] = n[1]
    <3>1. m = <<n[1], m[2], m[3]>>
      BY <2>1
    <3> QED
      BY <3>1
  <2> QED
    BY <2>1, <2>2, <2>3 DEF ReadAs
<1> QED
  BY <1>1, <1>2 DEF ReadAs

LEMMA WrapperBack ==
  ASSUME Recursion, NEW R, Reflects(R), NEW t \in AllTypes, t[1] \in {"optional", "inline"},
         PartsTomlBack(R, t), TomlKeeps(t), NEW v, HasType(t, v),
         NEW n, n = TomlEncode(t, v), n \notin {Refused, Null}, NEW m, ReadAs(R, n, m)
  PROVE  TomlDecode(t, m) = v
<1> DEFINE u == t[2]
<1>1. u \in AllTypes /\ TomlBack(R, u)
  BY TypeInside DEF Inside, PartsTomlBack
<1>2. TomlKeepsPart(u)
  BY DEF TomlKeeps
<1>3. CASE t[1] = "optional"
  <2>1. n = TomlEncoded(u, v[2]) /\ v # None /\ Sound(u)
    BY <1>3, WrapperNode
  <2>2. v = <<"some", v[2]>> /\ HasTypePart(u, v[2])
    BY <1>3, <2>1, PartsOfType
  <2>3. TomlDecoded(u, m) = v[2]
    BY <1>1, <1>2, <2>1, <2>2 DEF TomlBack
  <2>4. v[2] # Refused
    BY <1>1, <2>2, ValuesAreReal
  <2> HIDE DEF u
  <2>5. TomlDecode(t, m) = <<"some", TomlDecoded(t[2], m)>>
    BY <1>3, <2>1, <2>3, <2>4 DEF TomlDecode, u
  <2> QED
    BY <2>2, <2>3, <2>5 DEF u
<1>4. CASE t[1] = "inline"
  <2> DEFINE w == TomlEncoded(u, v)
  <2>1. HasTypePart(u, v)
    BY <1>4, PartsOfType
  <2>2. w = <<"table", w[2], w[3]>> /\ n[1] = "table" /\ n[2] = w[2] /\ IsInline(n)
    BY <1>4, InlineNode
  <2> HIDE DEF w
  <2>3. m = Parsed(n)
    BY <2>2 DEF ReadAs, Reflects
  <2>4. w[1] = "table"
    BY <2>2
  <2>5. Parsed(n) = Parsed(w)
    BY <2>2, <2>4 DEF Parsed
  <2>6. w \notin {Refused, Null}
    BY <2>4 DEF Refused, Null
  <2>7. TomlDecoded(u, m) = v
    BY <1>1, <1>2, <2>1, <2>3, <2>5, <2>6 DEF TomlBack, ReadAs, w
  <2> QED
    BY <1>4, <2>7 DEF TomlDecode
<1> QED
  BY <1>3, <1>4

\* What is written of a part parses to what it does as a whole.
LEMMA PartsParsed ==
  ASSUME Recursion, NEW t \in AllTypes, NEW v, HasTypePart(t, v)
  PROVE  TomlParsed(TomlEncoded(t, v)) = Parsed(TomlEncoded(t, v))
<1>1. HasType(t, v) /\ TomlEncoded(t, v) = TomlEncode(t, v)
  BY DEF Recursion, JudgesParts, WritesParts
<1> QED
  BY <1>1 DEF Recursion, WritesParts

LEMMA ElementsBack ==
  ASSUME Recursion, NEW R, Reflects(R), NEW t \in AllTypes, t[1] \in {"vector", "array"},
         PartsTomlBack(R, t), TomlKeeps(t), NEW v, HasType(t, v),
         NEW n, n = TomlEncode(t, v), n \notin {Refused, Null}, NEW m, ReadAs(R, n, m)
  PROVE  TomlDecode(t, m) = v
<1> DEFINE u == t[2]
           w == v[2]
<1>1. u \in AllTypes /\ TomlBack(R, u) /\ TomlKeepsPart(u)
  BY TypeInside DEF Inside, PartsTomlBack, TomlKeeps
<1>2. /\ v = <<"array", w>> /\ IsMap(w) /\ (t[1] = "array" => DOMAIN w = 1 .. t[3])
      /\ \A i \in DOMAIN w : HasTypePart(u, w[i])
  BY PartsOfType
<1>3. \E k \in Nat : DOMAIN w = 1 .. k
  <2>1. t[1] = "vector" => Len(w) \in Nat /\ DOMAIN w = 1 .. Len(w)
    BY DEF HasType
  <2>2. t[1] = "array" => t[3] \in Nat
    BY TypeInside DEF IsType
  <2> QED
    BY <1>2, <2>1, <2>2
<1>4. /\ n = <<"array", n[2], n[3]>> /\ IsMap(n[2]) /\ DOMAIN n[2] = DOMAIN w
      /\ \A i \in DOMAIN w : n[2][i] = TomlEncoded(u, w[i]) /\ n[2][i] \notin {Refused, Null}
  BY ElementNodes DEF ElementNode
<1> HIDE DEF u, w
<1>5. n[1] = "array"
  BY <1>4
<1>6. \A i \in DOMAIN n[2] : TomlParsed(n[2][i]) = Parsed(n[2][i])
  BY <1>1, <1>2, <1>4, PartsParsed
<1>7. m[1] = "array" /\ DOMAIN m[2] = DOMAIN w /\ \A i \in DOMAIN w : ReadAs(R, n[2][i], m[2][i])
  BY <1>3, <1>4, <1>5, <1>6, PartsRead
<1> DEFINE parts == [i \in DOMAIN m[2] |-> TomlDecoded(u, m[2][i])]
<1>8. TomlDecode(t, m) = All("array", parts)
  BY <1>2, <1>7 DEF TomlDecode, u
<1>9. \A i \in DOMAIN w : TomlDecoded(u, m[2][i]) = w[i] /\ w[i] # Refused
  BY <1>1, <1>2, <1>4, <1>7, ValuesAreReal DEF TomlBack
<1>10. DOMAIN parts = DOMAIN w /\ parts = [i \in DOMAIN w |-> parts[i]] /\ \A i \in DOMAIN w : parts[i] = w[i]
  BY <1>7, <1>9
<1> HIDE DEF parts
<1> QED
  BY <1>2, <1>8, <1>9, <1>10, WholeBack

LEMMA MapBack ==
  ASSUME Recursion, NEW R, Reflects(R), NEW t \in AllTypes, t[1] = "map",
         PartsTomlBack(R, t), TomlKeeps(t), NEW v, HasType(t, v),
         NEW n, n = TomlEncode(t, v), n \notin {Refused, Null}, NEW m, ReadAs(R, n, m)
  PROVE  TomlDecode(t, m) = v
<1> DEFINE u == t[2]
           w == v[2]
<1>1. u \in AllTypes /\ TomlBack(R, u) /\ TomlKeepsPart(u) /\ u[1] # "optional"
  BY TypeInside DEF Inside, PartsTomlBack, TomlKeeps
<1>2. v = <<"object", w>> /\ IsMap(w) /\ \A i \in DOMAIN w : HasTypePart(u, w[i])
  BY PartsOfType
<1>3. TableOf(t, v, n)
  BY MemberNodes
<1>4. \A k \in DOMAIN w : PartNode(t, v, k) = TomlEncoded(u, w[k])
  BY DEF PartNode, ElementNode
<1>5. \A k \in DOMAIN w : TomlEncoded(u, w[k]) # Null
  <2>1. ASSUME NEW k \in DOMAIN w, TomlEncoded(u, w[k]) = Null PROVE FALSE
    <3>1. AbsentPart(u, w[k])
      BY <1>1, <1>2, <2>1, AllLeftOut DEF LeavesOut
    <3>2. Absent(u, w[k])
      BY <1>1, <3>1 DEF Recursion, JudgesParts
    <3> QED
      BY <1>1, <3>2 DEF Absent
  <2> QED
    BY <2>1
<1>6. /\ IsMap(n[2]) /\ DOMAIN n[2] = DOMAIN w
      /\ \A k \in DOMAIN w : n[2][k] = TomlEncoded(u, w[k]) /\ n[2][k] \notin {Refused, Null}
  BY <1>3, <1>4, <1>5 DEF TableOf
<1> HIDE DEF u, w
<1>7. n[1] = "table"
  BY <1>3, TableNamed
<1>8. \A i \in DOMAIN n[2] : TomlParsed(n[2][i]) = Parsed(n[2][i])
  BY <1>1, <1>2, <1>6, PartsParsed
<1>9. m[1] = "table" /\ DOMAIN m[2] = DOMAIN w /\ \A i \in DOMAIN w : ReadAs(R, n[2][i], m[2][i])
  BY <1>6, <1>7, <1>8, PartsRead
<1> DEFINE parts == [k \in DOMAIN m[2] |-> TomlDecoded(u, m[2][k])]
<1>10. TomlDecode(t, m) = All("object", parts)
  BY <1>9 DEF TomlDecode, u
<1>11. \A i \in DOMAIN w : TomlDecoded(u, m[2][i]) = w[i] /\ w[i] # Refused
  BY <1>1, <1>2, <1>6, <1>9, ValuesAreReal DEF TomlBack
<1>12. DOMAIN parts = DOMAIN w /\ parts = [i \in DOMAIN w |-> parts[i]] /\ \A i \in DOMAIN w : parts[i] = w[i]
  BY <1>9, <1>11
<1> HIDE DEF parts
<1> QED
  BY <1>2, <1>10, <1>11, <1>12, WholeBack

\* A member of a struct.
LEMMA MemberReadBack ==
  ASSUME Recursion, NEW R, Reflects(R), NEW t \in AllTypes, t[1] = "struct",
         PartsTomlBack(R, t), TomlKeeps(t), NEW v, HasType(t, v), NEW k \in FieldNames(t),
         NEW n, n = MemberNode(t, v, k), n # Refused
  PROVE  /\ ValidField(FieldOf(t, k), v[2][k]) /\ v[2][k] # Refused
         /\ n = Null => FieldOf(t, k).type[1] = "optional" /\ v[2][k] = None
         /\ n # Null => \A m : ReadAs(R, n, m) => TomlDecoded(FieldOf(t, k).type, m) = v[2][k]
<1> DEFINE f == FieldOf(t, k)
           w == v[2][k]
<1>1. f.type \in AllTypes /\ TomlBack(R, f.type) /\ HasTypePart(f.type, w)
  BY FieldsInside, PartsOfType DEF PartsTomlBack
<1>2. TomlKeepsPart(f.type)
  <2>1. PICK i \in 1 .. Len(t[2]) : f = t[2][i]
    <3>1. \E i \in 1 .. Len(t[2]) : t[2][i].name = k
      BY DEF FieldNames
    <3> QED
      BY <3>1 DEF FieldOf
  <2> HIDE DEF f
  <2> QED
    BY <2>1 DEF TomlKeeps
<1>3. ValidField(f, w) /\ n = TomlEncoded(f.type, w)
  BY DEF MemberNode
<1> HIDE DEF f, w
<1>4. w # Refused
  BY <1>1, ValuesAreReal
<1>5. ASSUME n = Null PROVE f.type[1] = "optional" /\ w = None
  <2>1. AbsentPart(f.type, w)
    BY <1>1, <1>3, <1>5, AllLeftOut DEF LeavesOut
  <2>2. Absent(f.type, w) /\ TomlKeeps(f.type)
    BY <1>1, <1>2, <2>1 DEF Recursion, JudgesParts
  <2>3. f.type[1] = "optional" /\ f.type[2][1] # "optional" /\ f.type[2] \in AllTypes
    BY <1>1, <2>2, TypeInside DEF Absent, TomlKeeps, Inside
  <2>4. ~ AbsentPart(f.type[2], w[2])
    BY <2>3 DEF Absent, Recursion, JudgesParts
  <2> QED
    BY <2>2, <2>3, <2>4 DEF Absent
<1>6. ASSUME n # Null, NEW m, ReadAs(R, n, m) PROVE TomlDecoded(f.type, m) = w
  BY <1>1, <1>2, <1>3, <1>6 DEF TomlBack
<1> QED
  BY <1>3, <1>4, <1>5, <1>6 DEF f, w

LEMMA StructReadBack ==
  ASSUME Recursion, NEW R, Reflects(R), NEW t \in AllTypes, t[1] = "struct",
         PartsTomlBack(R, t), TomlKeeps(t), NEW v, HasType(t, v),
         NEW n, n = TomlEncode(t, v), n \notin {Refused, Null}, NEW m, ReadAs(R, n, m)
  PROVE  TomlDecode(t, m) = v
<1> DEFINE w == v[2]
<1>1. /\ v = <<"object", w>> /\ IsMap(w) /\ DOMAIN w = FieldNames(t)
      /\ \A k \in FieldNames(t) : HasTypePart(FieldOf(t, k).type, w[k])
  BY PartsOfType
<1>2. TableOf(t, v, n)
  BY MemberNodes
<1>3. \A k \in DOMAIN w : PartNode(t, v, k) = MemberNode(t, v, k)
  BY DEF PartNode
<1>4. /\ IsMap(n[2]) /\ DOMAIN n[2] = {k \in DOMAIN w : MemberNode(t, v, k) # Null}
      /\ \A k \in DOMAIN n[2] : n[2][k] = MemberNode(t, v, k) /\ n[2][k] \notin {Refused, Null}
  BY <1>2, <1>3 DEF TableOf
<1>5. n[1] = "table"
  BY <1>2, TableNamed
<1> HIDE DEF w
<1>6. \A k \in DOMAIN w : MemberNode(t, v, k) # Refused
  BY <1>4 DEF Refused, Null
<1>7. \A k \in DOMAIN n[2] : TomlParsed(n[2][k]) = Parsed(n[2][k])
  <2> SUFFICES ASSUME NEW k \in DOMAIN n[2] PROVE TomlParsed(n[2][k]) = Parsed(n[2][k])
    OBVIOUS
  <2>1. k \in FieldNames(t) /\ n[2][k] = TomlEncoded(FieldOf(t, k).type, w[k])
    BY <1>1, <1>4 DEF MemberNode, w
  <2> QED
    BY <1>1, <2>1, FieldsInside, PartsParsed
<1>8. m[1] = "table" /\ DOMAIN m[2] = DOMAIN n[2] /\ \A k \in DOMAIN n[2] : ReadAs(R, n[2][k], m[2][k])
  BY <1>4, <1>5, <1>7, PartsRead
<1> DEFINE Got(k) == IF k \in DOMAIN m[2] THEN TomlDecoded(FieldOf(t, k).type, m[2][k])
                     ELSE IF FieldOf(t, k).type[1] = "optional" THEN None ELSE Refused
           parts == [k \in FieldNames(t) |->
                       IF Got(k) # Refused /\ ValidField(FieldOf(t, k), Got(k)) THEN Got(k) ELSE Refused]
<1>9. TomlDecode(t, m) = All("object", parts)
  <2>1. TomlDecode(t, m) = TomlDecodeFields(t, m[2])
    BY <1>8 DEF TomlDecode
  <2> QED
    BY <2>1 DEF TomlDecodeFields
<1>10. ASSUME NEW k \in FieldNames(t)
       PROVE  Got(k) = w[k] /\ w[k] # Refused /\ ValidField(FieldOf(t, k), w[k])
  <2> DEFINE p == MemberNode(t, v, k)
  <2>1. k \in DOMAIN w /\ p # Refused
    BY <1>1, <1>6
  <2>2. /\ ValidField(FieldOf(t, k), w[k]) /\ w[k] # Refused
        /\ p = Null => FieldOf(t, k).type[1] = "optional" /\ w[k] = None
        /\ p # Null => \A q : ReadAs(R, p, q) => TomlDecoded(FieldOf(t, k).type, q) = w[k]
    BY <2>1, MemberReadBack DEF w
  <2>3. CASE p = Null
    <3>1. k \notin DOMAIN m[2]
      BY <1>4, <1>8, <2>3
    <3> QED
      BY <2>2, <2>3, <3>1
  <2>4. CASE p # Null
    <3>1. k \in DOMAIN m[2] /\ n[2][k] = p /\ ReadAs(R, p, m[2][k])
      BY <1>4, <1>8, <2>1, <2>4
    <3> QED
      BY <2>2, <2>4, <3>1
  <2> QED
    BY <2>3, <2>4
<1> HIDE DEF Got
<1>11. DOMAIN parts = DOMAIN w /\ parts = [k \in DOMAIN w |-> parts[k]]
       /\ \A k \in DOMAIN w : parts[k] = w[k] /\ w[k] # Refused
  BY <1>1, <1>10
<1> HIDE DEF parts
<1> QED
  BY <1>1, <1>9, <1>11, WholeBack

LEMMA AllTomlBack ==
  ASSUME Recursion, NEW R, Reflects(R)
  PROVE  \A t \in AllTypes : TomlBack(R, t)
<1> DEFINE B == {t \in AllTypes : ~ TomlBack(R, t)}
<1>1. ASSUME NEW t \in AllTypes, PartsTomlBack(R, t) PROVE TomlBack(R, t)
  <2>1. ReadsParts(t) /\ JudgesParts(t) /\ WritesParts(t)
    BY DEF Recursion
  <2>2. ASSUME NEW v, HasType(t, v), TomlKeeps(t), NEW n, n = TomlEncode(t, v), n \notin {Refused, Null},
               NEW m, ReadAs(R, n, m)
        PROVE  TomlDecode(t, m) = v
    <3>1. CASE t[1] \in {"optional", "inline"}
      BY <1>1, <2>2, <3>1, WrapperBack
    <3>2. CASE t[1] \in {"vector", "array"}
      BY <1>1, <2>2, <3>2, ElementsBack
    <3>3. CASE t[1] = "map"
      BY <1>1, <2>2, <3>3, MapBack
    <3>4. CASE t[1] = "struct"
      BY <1>1, <2>2, <3>4, StructReadBack
    <3>5. CASE t[1] \notin {"optional", "inline", "vector", "array", "map", "struct"}
      BY <2>2, <3>5, ScalarReadBack
    <3> QED
      BY <3>1, <3>2, <3>3, <3>4, <3>5
  <2> QED
    BY <2>1, <2>2 DEF ReadsParts, WritesParts, JudgesParts, TomlBack
<1>2. B = {}
  BY <1>1, TypeInside, NoLeastType DEF PartsTomlBack
<1> QED
  BY <1>2

-----------------------------------------------------------------------------
(* A document of one integer.                                              *)

LEMMA OneField ==
  ASSUME NEW t \in AllTypes, t[1] = "struct", Len(t[2]) = 1
  PROVE  LET f == t[2][1]
         IN /\ FieldNames(t) = {f.name} /\ FieldOf(t, f.name) = f
            /\ f.type \in AllTypes /\ f.name \in Keys /\ f.options \in OptionMaps
<1> DEFINE f == t[2][1]
<1>1. 1 .. Len(t[2]) = {1}
  OBVIOUS
<1>2. FieldNames(t) = {f.name}
  BY <1>1 DEF FieldNames
<1>3. FieldOf(t, f.name) = f
  BY <1>1 DEF FieldOf
<1>4. f.type \in AllTypes /\ IsField(f) /\ FieldNames(t) \subseteq Keys
  BY <1>2, <1>3, FieldsInside, TypesAssumption
<1> QED
  BY <1>2, <1>3, <1>4 DEF IsField, OptionMaps

LEMMA OnePart ==
  ASSUME NEW k, NEW x, NEW parts, parts = [j \in {k} |-> x]
  PROVE  All("object", parts) = IF x = Refused THEN Refused ELSE <<"object", parts>>
  BY DEF All

\* A field takes an integer of its type when its options are valid and it keeps to them.
LEMMA IntegerTaken ==
  ASSUME NEW f, f.type[1] = "int", f.options \in OptionMaps, NEW n \in f.type[2] .. f.type[3]
  PROVE  ValidField(f, <<"int", n>>) <=>
           ValidOptions(f.type, f.options) /\ Keeps(f.type, f.options, <<"int", n>>)
<1> DEFINE v == <<"int", n>>
           t == f.type
           options == f.options
<1>1. v[1] = "int" /\ v[2] = n /\ v # NotANumber
  BY DEF NotANumber
<1>2. OptionalValue(t) = t
  BY DEF OptionalValue
<1>3. Fits(t, v)
  BY <1>1 DEF Fits
<1> HIDE DEF v
<1>4. CASE options = <<>>
  <2>1. ValidField(f, v)
    BY <1>2, <1>4 DEF ValidField
  <2>2. Keeps(t, options, v)
    BY <1>4 DEF Keeps
  <2>3. ValidOptions(t, options)
    <3>1. DOMAIN options = {}
      BY <1>4
    <3> QED
      BY <1>2, <3>1 DEF ValidOptions, Bounds, Sound
  <2> QED
    BY <2>1, <2>2, <2>3 DEF v
<1>5. CASE options # <<>>
  <2>1. ValidField(f, v) <=> ValidOptions(t, options) /\ ValidFieldValue(t, v, options)
    BY <1>5 DEF ValidField
  <2>2. ValidOptions(t, options) /\ ValidFieldValue(t, v, options) => Keeps(t, options, v)
    BY <1>3, ValidKeepsPlain
  <2>3. Keeps(t, options, v) => ValidFieldValue(t, v, options)
    <3> SUFFICES ASSUME Keeps(t, options, v) PROVE ValidFieldValue(t, v, options)
      OBVIOUS
    <3>1. Between(v[2], options, "minimum", "maximum")
      BY <1>1, <1>5 DEF Keeps, Between
    <3> QED
      BY <1>1, <3>1 DEF ValidFieldValue
  <2> QED
    BY <2>1, <2>2, <2>3 DEF v
<1> QED
  BY <1>4, <1>5

\* What is read of one integer.
ReadInteger(t, n, least, greatest) ==
  LET f == t[2][1]
  IN IF /\ n \in (f.type[2] .. f.type[3]) \cap (least .. greatest)
        /\ ValidOptions(f.type, f.options) /\ Keeps(f.type, f.options, <<"int", n>>)
       THEN <<"object", [k \in {f.name} |-> <<"int", n>>]>> ELSE Refused

LEMMA OneInteger ==
  ASSUME NEW t \in AllTypes, t[1] = "struct", Len(t[2]) = 1, t[2][1].type[1] = "int",
         NEW n \in Int, NEW least \in Int, NEW greatest \in Int, NEW v,
         v = Exactly(t[2][1].type, n, least, greatest),
         NEW parts, parts = [k \in {t[2][1].name} |->
                               IF v # Refused /\ ValidField(t[2][1], v) THEN v ELSE Refused]
  PROVE  All("object", parts) = ReadInteger(t, n, least, greatest)
<1> DEFINE f == t[2][1]
           x == IF v # Refused /\ ValidField(f, v) THEN v ELSE Refused
           good == /\ n \in (f.type[2] .. f.type[3]) \cap (least .. greatest)
                   /\ ValidOptions(f.type, f.options) /\ Keeps(f.type, f.options, <<"int", n>>)
<1>1. f.options \in OptionMaps
  BY OneField
<1>2. <<"int", n>> # Refused
  BY DEF Refused
<1>3. x = IF good THEN <<"int", n>> ELSE Refused
  <2>1. CASE n \in (f.type[2] .. f.type[3]) \cap (least .. greatest)
    <3>1. v = <<"int", n>>
      BY <2>1 DEF Exactly
    <3>2. ValidField(f, v) <=> ValidOptions(f.type, f.options) /\ Keeps(f.type, f.options, <<"int", n>>)
      BY <1>1, <2>1, <3>1, IntegerTaken
    <3> QED
      BY <1>2, <2>1, <3>1, <3>2
  <2>2. CASE n \notin (f.type[2] .. f.type[3]) \cap (least .. greatest)
    BY <2>2 DEF Exactly
  <2> QED
    BY <2>1, <2>2
<1> HIDE DEF x, good
<1>4. parts = [k \in {f.name} |-> x]
  BY DEF x
<1>5. All("object", parts) = IF x = Refused THEN Refused ELSE <<"object", parts>>
  BY <1>4, OnePart
<1>6. ReadInteger(t, n, least, greatest) =
        IF good THEN <<"object", [k \in {f.name} |-> <<"int", n>>]>> ELSE Refused
  BY DEF ReadInteger, good
<1> QED
  BY <1>2, <1>3, <1>4, <1>5, <1>6

LEMMA JsonOneInteger ==
  ASSUME Recursion, NEW t \in AllTypes, t[1] = "struct", Len(t[2]) = 1,
         t[2][1].type[1] = "int", t[2][1].policy = {}, NEW n \in Int
  PROVE  JsonDecode(t, <<"object", [k \in {t[2][1].name} |-> <<"int", n>>]>>) =
           ReadInteger(t, n, - Int64Max - 1, UInt64Max)
<1> DEFINE f == t[2][1]
           m == [k \in {f.name} |-> <<"int", n>>]
           v == JsonDecoded(f.type, <<"int", n>>)
           parts == [k \in {f.name} |-> IF v # Refused /\ ValidField(f, v) THEN v ELSE Refused]
<1>1. FieldNames(t) = {f.name} /\ FieldOf(t, f.name) = f /\ f.type \in AllTypes
  BY OneField
<1>2. f.type \in IntegerTypes
  BY <1>1, TypeInside DEF IsType
<1>3. v = Exactly(f.type, n, - Int64Max - 1, UInt64Max)
  <2>1. v = JsonDecode(f.type, <<"int", n>>)
    BY <1>1 DEF Recursion, ReadsParts
  <2>2. JsonDecode(f.type, <<"int", n>>) = DecodeScalar(f.type, <<"int", n>>)
    BY DEF JsonDecode
  <2>3. DecodeScalar(f.type, <<"int", n>>) = JsonInteger(f.type, n)
    BY DEF DecodeScalar
  <2> QED
    BY <1>2, <2>1, <2>2, <2>3, JsonIntegers
<1>4. DecodeMember(f, <<"int", n>>) = IF v # Refused /\ ValidField(f, v) THEN v ELSE Refused
  <2>1. DecodeWireField(f, <<"int", n>>) = v
    BY DEF DecodeWireField, HasShape
  <2> HIDE DEF v
  <2> QED
    BY <2>1 DEF DecodeMember
<1> HIDE DEF v
<1>5. JsonDecodeFields(t, m) = All("object", parts)
  <2>1. \A k \in FieldNames(t) : k \in DOMAIN m /\ m[k] = <<"int", n>> /\ FieldOf(t, k) = f
    BY <1>1
  <2> HIDE DEF m
  <2>2. [k \in FieldNames(t) |->
           IF k \in DOMAIN m THEN DecodeMember(FieldOf(t, k), m[k])
           ELSE IF "optional" \in FieldOf(t, k).policy THEN Default(FieldOf(t, k).type)
           ELSE IF FieldOf(t, k).type[1] = "optional" /\ ValidField(FieldOf(t, k), None) THEN None
           ELSE Refused] = parts
    BY <1>1, <1>4, <2>1
  <2> HIDE DEF parts
  <2> QED
    BY <2>2, Zenon DEF JsonDecodeFields
<1>6. JsonDecode(t, <<"object", m>>) = JsonDecodeFields(t, m)
  <2> HIDE DEF m
  <2> QED
    BY DEF JsonDecode
<1>7. - Int64Max - 1 \in Int /\ UInt64Max \in Int
  BY Int64Assumption DEF UInt64Max
<1> HIDE DEF m
<1>8. All("object", parts) = ReadInteger(t, n, - Int64Max - 1, UInt64Max)
  <2> DEFINE top == UInt64Max
             bottom == - Int64Max - 1
  <2>1. v = Exactly(f.type, n, bottom, top) /\ bottom \in Int /\ top \in Int
    BY <1>3, <1>7
  <2>2. parts = [k \in {f.name} |-> IF v # Refused /\ ValidField(f, v) THEN v ELSE Refused]
    OBVIOUS
  <2> HIDE DEF top, bottom, parts
  <2>3. All("object", parts) = ReadInteger(t, n, bottom, top)
    BY <2>1, <2>2, OneInteger
  <2> QED
    BY <2>3 DEF top, bottom
<1> QED
  BY <1>5, <1>6, <1>8 DEF m

\* What has been read, for type t, of what was written of n.
Got(n, t, v) == \E R, m : Reflects(R) /\ <<n, m>> \in R /\ v = TomlDecode(t, m)

LEMMA SectionParts ==
  ASSUME NEW b, NEW n, n = TableNode(b)
  PROVE  n[1] = "table" /\ n[2] = b /\ ~ n[3]
<1>1. n = <<"table", b, FALSE>>
  BY DEF TableNode
<1>2. n[3] = FALSE
  BY <1>1
<1> QED
  BY <1>1, <1>2

LEMMA TomlOneInteger ==
  ASSUME Recursion, NEW t \in AllTypes, t[1] = "struct", Len(t[2]) = 1,
         t[2][1].type[1] = "int", NEW n \in Int,
         NEW root, root = TableNode([k \in {t[2][1].name} |-> <<"int", n>>]),
         NEW result1, Got(root, t, result1)
  PROVE  result1 = ReadInteger(t, n, - Int64Max - 1, Int64Max)
<1> DEFINE f == t[2][1]
           g == [k \in {f.name} |-> <<"int", n>>]
           p == ParseInteger(n)
           v == TomlDecoded(f.type, p)
           parts == [k \in {f.name} |-> IF v # Refused /\ ValidField(f, v) THEN v ELSE Refused]
<1>1. FieldNames(t) = {f.name} /\ FieldOf(t, f.name) = f /\ f.type \in AllTypes
  BY OneField
<1>2. f.type \in IntegerTypes
  BY <1>1, TypeInside DEF IsType
<1>3. v = Exactly(f.type, n, - Int64Max - 1, Int64Max)
  <2>1. v = TomlDecode(f.type, p)
    BY <1>1 DEF Recursion, ReadsParts
  <2>2. p = Refused \/ (p = <<"int", n>> /\ n \in - Int64Max - 1 .. Int64Max)
    BY Int64Assumption DEF ParseInteger, MagnitudeLimit
  <2>3. Refused[1] = "refused" /\ \A x : <<"int", x>>[1] = "int" /\ <<"int", x>>[2] = x
    BY DEF Refused
  <2>4. TomlDecode(f.type, p) = IF p = Refused THEN p ELSE TomlInteger(f.type, p[2])
    <3> HIDE DEF p
    <3> QED
      BY <2>2, <2>3 DEF TomlDecode
  <2> QED
    BY <1>2, <2>1, <2>4, TomlIntegers
<1>4. PICK R, m : Reflects(R) /\ <<root, m>> \in R /\ result1 = TomlDecode(t, m)
  BY DEF Got
<1>5. root = TableNode(g)
  OBVIOUS
<1>6. DOMAIN g = {f.name} /\ g[f.name] = <<"int", n>>
  OBVIOUS
<1> HIDE DEF g, v, p
<1>7. root[1] = "table" /\ root[2] = g /\ ~ root[3]
  BY <1>5, SectionParts
<1>8. ~ IsInline(root)
  BY <1>7 DEF IsInline, IsSection
<1>9. m = <<root[1], m[2], m[3]>> /\ DOMAIN m[2] = {f.name} /\ <<<<"int", n>>, m[2][f.name]>> \in R
  BY <1>4, <1>6, <1>7, <1>8 DEF Reflects
<1>10. m[1] = "table"
  BY <1>7, <1>9
<1>11. m[2][f.name] = p
  <2>1. <<"int", n>>[1] = "int" /\ <<"int", n>>[2] = n
    OBVIOUS
  <2>2. IsInline(<<"int", n>>)
    BY <2>1 DEF IsInline, IsSection, TableArray
  <2>3. Parsed(<<"int", n>>) = p
    BY <2>1 DEF Parsed, p
  <2> QED
    BY <1>4, <1>9, <2>2, <2>3 DEF Reflects
<1>12. TomlDecode(t, m) = TomlDecodeFields(t, m[2])
  BY <1>10 DEF TomlDecode
<1>13. TomlDecodeFields(t, m[2]) = All("object", parts)
  <2>1. \A k \in FieldNames(t) : /\ k \in DOMAIN m[2] /\ FieldOf(t, k) = f
                                 /\ TomlDecoded(FieldOf(t, k).type, m[2][k]) = v
    BY <1>1, <1>9, <1>11 DEF v
  <2> DEFINE Of(k) == IF k \in DOMAIN m[2] THEN TomlDecoded(FieldOf(t, k).type, m[2][k])
                      ELSE IF FieldOf(t, k).type[1] = "optional" THEN None ELSE Refused
  <2>2. \A k \in FieldNames(t) : Of(k) = v /\ FieldOf(t, k) = f
    BY <2>1
  <2>3. TomlDecodeFields(t, m[2]) =
          All("object", [k \in FieldNames(t) |->
                           IF Of(k) # Refused /\ ValidField(FieldOf(t, k), Of(k)) THEN Of(k) ELSE Refused])
    BY DEF TomlDecodeFields
  <2> HIDE DEF Of
  <2>4. [k \in FieldNames(t) |->
           IF Of(k) # Refused /\ ValidField(FieldOf(t, k), Of(k)) THEN Of(k) ELSE Refused] = parts
    BY <1>1, <2>2
  <2> HIDE DEF parts
  <2> QED
    BY <2>3, <2>4, Zenon
<1>14. - Int64Max - 1 \in Int /\ Int64Max \in Int
  BY Int64Assumption
<1>15. All("object", parts) = ReadInteger(t, n, - Int64Max - 1, Int64Max)
  BY <1>3, <1>14, OneInteger
<1> QED
  BY <1>4, <1>12, <1>13, <1>15

-----------------------------------------------------------------------------
(* A round trip in TOML.                                                   *)

\* What is serialized.
Root == IF ByHand THEN TableNode([k \in {Only} |-> Integer]) ELSE TomlEncode(type, value)

\* Node n is being written, and read.
Writing(n) ==
  /\ \E nodes : Closed(nodes) /\ IInv(nodes)
  /\ \E P : Placed(P, n, tree, todo)

LEMMA WritingBegun ==
  ASSUME NEW n, IsSection(n), Enclosed(n), Begin(n)
  PROVE  Writing(n)'
<1>1. PICK nodes : Closed(nodes) /\ n \in nodes
  BY DEF Enclosed
<1>2. IInv(nodes)'
  BY <1>1, KeptByBegin
<1>3. \E P : Placed(P, n, tree', todo')
  BY <1>1, PlacedBegin
<1> QED
  BY <1>1, <1>2, <1>3 DEF Writing

LEMMA WritingKept ==
  ASSUME NEW n, Writing(n), WriteText(Parsed(Head(todo).node))
  PROVE  Writing(n)'
<1>1. PICK nodes : Closed(nodes) /\ IInv(nodes)
  BY DEF Writing
<1>2. PICK P : Placed(P, n, tree, todo)
  BY DEF Writing
<1>3. IInv(nodes)'
  <2>1. PICK p : p = Parsed(Head(todo).node)
    OBVIOUS
  <2>2. WriteAssignment(p) \/ WriteHeader \/ WriteElementHeader
    BY <2>1 DEF WriteText
  <2> QED
    BY <1>1, <2>2, KeptByAssignment, KeptByHeader, KeptByElement
<1>4. \E R : Placed(R, n, tree', todo')
  <2>1. CASE WriteAssignment(Parsed(Head(todo).node))
    BY <1>1, <1>2, <2>1, PlacedAssignment
  <2>2. CASE WriteHeader
    BY <1>1, <1>2, <2>2, PlacedHeader
  <2>3. CASE WriteElementHeader
    BY <1>1, <1>2, <2>3, PlacedElement
  <2> QED
    BY <2>1, <2>2, <2>3 DEF WriteText
<1> QED
  BY <1>1, <1>3, <1>4 DEF Writing

LEMMA WritingRead ==
  ASSUME NEW n, Writing(n), todo = <<>>, NEW t, NEW v, v = TomlDecode(t, NodeAt[<<>>])
  PROVE  Got(n, t, v)
<1>1. PICK P : Placed(P, n, tree, <<>>)
  BY DEF Writing
<1>2. PICK R : Reflects(R) /\ <<n, NodeAt[<<>>]>> \in R
  BY <1>1, AllRead
<1> QED
  BY <1>2 DEF Got

\* The type that is written, and the one that is asked for.
Given == type \in Types /\ value \in Values(type) /\ reader \in Readers(type)

LEMMA GivenTypes ==
  ASSUME Given
  PROVE  /\ type \in AllTypes /\ type[1] = "struct" /\ reader \in AllTypes /\ reader[1] = "struct"
         /\ ~ ByHand => HasType(type, value)
         /\ ByHand => value[2] \in Int /\ Len(reader[2]) = 1
<1>1. type \in AllTypes /\ type[1] = "struct" /\ reader \in AllTypes /\ reader[1] = "struct"
  BY TypesAssumption DEF Given
<1>2. HasType(type, value) \/ (value \in {"written"} \X Int /\ Len(reader[2]) = 1)
  BY ValuesAssumption DEF Given
<1>3. HasType(type, value) => ~ ByHand
  <2> SUFFICES ASSUME HasType(type, value) PROVE value[1] # "written"
    BY DEF ByHand
  <2>1. PICK t : t = type
    OBVIOUS
  <2>2. PICK v : v = value
    OBVIOUS
  <2>3. v[1] = "object"
    BY <1>1, <2>1, <2>2, PartsOfType
  <2> QED
    BY <2>2, <2>3
<1>4. value \in {"written"} \X Int => ByHand /\ value[2] \in Int
  BY DEF ByHand
<1> QED
  BY <1>1, <1>2, <1>3, <1>4

LEMMA RootFits ==
  ASSUME Recursion, Given, Root # Refused
  PROVE  IsSection(Root) /\ Enclosed(Root)
<1>1. PICK n : n = Root
  OBVIOUS
<1>2. CASE ByHand
  <2>1. PICK k : k = Only
    OBVIOUS
  <2>2. PICK i : i = Integer
    OBVIOUS
  <2>3. k \in Keys
    <3>1. PICK t : t = reader
      OBVIOUS
    <3>2. t \in AllTypes /\ t[1] = "struct" /\ Len(t[2]) = 1
      BY <1>2, <3>1, GivenTypes
    <3>3. t[2][1].name \in Keys
      BY <3>2, OneField
    <3> QED
      BY <2>1, <3>1, <3>3 DEF Only
  <2>4. i[1] = "int"
    BY <2>2 DEF Integer
  <2> DEFINE g == [j \in {k} |-> i]
  <2>5. n = TableNode(g)
    BY <1>1, <1>2, <2>1, <2>2 DEF Root
  <2>6. DOMAIN g = {k} /\ g[k] = i
    OBVIOUS
  <2> HIDE DEF g
  <2>7. n[1] = "table" /\ n[2] = g /\ ~ n[3]
    BY <2>5, SectionParts
  <2>8. Enclosed(i)
    BY <2>4, EnclosedWith DEF IsInline, IsSection, TableArray
  <2>9. IsFiniteSet(DOMAIN n[2]) /\ DOMAIN n[2] \subseteq Keys
    BY <2>3, <2>6, <2>7, FS_Singleton
  <2>10. Enclosed(n) /\ IsSection(n)
    <3>1. \A j \in DOMAIN n[2] : Enclosed(n[2][j])
      BY <2>6, <2>7, <2>8
    <3>2. IsSection(n) /\ ~ TableArray(n)
      BY <2>7 DEF IsSection, TableArray
    <3> QED
      BY <2>9, <3>1, <3>2, EnclosedWith
  <2> QED
    BY <1>1, <2>10
<1>3. CASE ~ ByHand
  <2>1. PICK t : t = type
    OBVIOUS
  <2>2. PICK v : v = value
    OBVIOUS
  <2>3. t \in AllTypes /\ t[1] = "struct" /\ HasType(t, v)
    BY <1>3, <2>1, <2>2, GivenTypes
  <2>4. n = TomlEncode(t, v) /\ n # Refused
    BY <1>1, <1>3, <2>1, <2>2 DEF Root
  <2>5. TableOf(t, v, n)
    BY <2>3, <2>4, MemberNodes
  <2>6. IsSection(n)
    <3> DEFINE b == n[2]
    <3>1. n = <<"table", b, FALSE>>
      BY <2>5 DEF TableOf
    <3> HIDE DEF b
    <3>2. n = TableNode(b)
      BY <3>1 DEF TableNode
    <3> QED
      BY <3>2, SectionParts DEF IsSection
  <2>7. Enclosed(n)
    <3>1. HasTypePart(t, v) /\ TomlEncoded(t, v) = n
      BY <2>3, <2>4 DEF Recursion, JudgesParts, WritesParts
    <3> QED
      BY <2>3, <3>1, AllEnclosed DEF Encloses
  <2> QED
    BY <1>1, <2>6, <2>7
<1> QED
  BY <1>2, <1>3

\* How far a round trip has come.
TripInv ==
  /\ Given /\ format \in {"json", "toml"} /\ (stage = "write" => format = "toml")
  /\ format = "json" /\ ByHand /\ stage \in {"written", "read"} =>
       document = <<"object", [k \in {Only} |-> Integer]>>
  /\ format = "json" /\ stage = "read" => result = JsonDecode(reader, document)
  /\ format = "toml" /\ stage = "refused" => Root = Refused
  /\ format = "toml" /\ stage \in {"write", "written"} => Writing(Root)
  /\ stage # "write" => todo = <<>>
  /\ format = "toml" /\ stage \in {"write", "written", "read"} => Root # Refused
  /\ format = "toml" /\ stage = "read" => Got(Root, reader, result)

\* What is written stays as it is.
LEMMA SameTrip ==
  ASSUME UNCHANGED <<format, type, value, reader>>
  PROVE  Given' = Given /\ Root' = Root /\ ByHand' = ByHand /\ Only' = Only /\ Integer' = Integer
<1>1. Given' = Given
  BY DEF Given
<1>2. ByHand' = ByHand /\ Only' = Only /\ Integer' = Integer
  BY DEF ByHand, Only, Integer
<1>3. Root' = Root
  BY <1>2 DEF Root
<1> QED
  BY <1>1, <1>2, <1>3

LEMMA TripBegunJson ==
  ASSUME TripInv, SerializeJson
  PROVE  TripInv'
<1>1. /\ format = "json" /\ format' = "json" /\ stage' \in {"refused", "written"}
      /\ UNCHANGED <<format, type, value, reader>>
  BY DEF SerializeJson
<1>2. Given' /\ ByHand' = ByHand /\ Only' = Only /\ Integer' = Integer
  BY <1>1, SameTrip DEF TripInv
<1>3. ByHand => document' = <<"object", [k \in {Only} |-> Integer]>>
  BY DEF SerializeJson
<1>4. (format = "json" /\ ByHand /\ stage \in {"written", "read"} =>
         document = <<"object", [k \in {Only} |-> Integer]>>)'
  BY <1>2, <1>3
<1>5. todo' = <<>>
  BY DEF SerializeJson, TripInv, textVars
<1> QED
  BY <1>1, <1>2, <1>4, <1>5 DEF TripInv

LEMMA TripBegunToml ==
  ASSUME Recursion, TripInv, SerializeToml
  PROVE  TripInv'
<1>1. /\ format = "toml" /\ format' = "toml" /\ stage' \in {"refused", "write"}
      /\ UNCHANGED <<format, type, value, reader>>
  BY DEF SerializeToml
<1>2. Given' /\ Root' = Root
  BY <1>1, SameTrip DEF TripInv
<1>3. IF Root = Refused THEN stage' = "refused" ELSE stage' = "write" /\ Begin(Root)
  BY DEF SerializeToml, Root
<1>4. PICK n : n = Root
  OBVIOUS
<1>5. n # Refused => Writing(n)'
  <2> SUFFICES ASSUME n # Refused PROVE Writing(n)'
    OBVIOUS
  <2>1. IsSection(Root) /\ Enclosed(Root)
    BY <1>4, RootFits DEF TripInv
  <2>2. Begin(Root)
    BY <1>3, <1>4
  <2>3. IsSection(n) /\ Enclosed(n) /\ Begin(n)
    BY <1>4, <2>1, <2>2
  <2> QED
    BY <2>3, WritingBegun
<1>6. n # Refused => Writing(Root)'
  BY <1>2, <1>4, <1>5
<1>7. (stage # "write" => todo = <<>>)'
  BY <1>1 DEF SerializeToml, TripInv, textVars
<1> QED
  BY <1>1, <1>2, <1>3, <1>4, <1>6, <1>7 DEF TripInv

LEMMA TripWritten ==
  ASSUME TripInv, WriteLine
  PROVE  TripInv'
<1>1. /\ stage = "write" /\ format = "toml" /\ stage' = "write" /\ format' = "toml"
      /\ UNCHANGED <<format, type, value, reader>> /\ WriteText(Parsed(Head(todo).node))
  BY DEF WriteLine, TripInv
<1>2. Given' /\ Root' = Root
  BY <1>1, SameTrip DEF TripInv
<1>3. Writing(Root) /\ Root # Refused
  BY <1>1 DEF TripInv
<1>4. PICK n : n = Root
  OBVIOUS
<1>5. Writing(n)
  BY <1>3, <1>4
<1>6. Writing(n)'
  BY <1>1, <1>5, WritingKept
<1>7. Writing(Root)'
  BY <1>2, <1>4, <1>6
<1> QED
  BY <1>1, <1>2, <1>3, <1>7 DEF TripInv

LEMMA WritingSame ==
  ASSUME NEW n, Writing(n), UNCHANGED textVars
  PROVE  Writing(n)'
  BY DEF Writing, IInv, textVars

LEMMA TripEnded ==
  ASSUME TripInv, WrittenToml
  PROVE  TripInv'
<1>1. /\ stage = "write" /\ format = "toml" /\ stage' = "written" /\ format' = "toml" /\ todo' = <<>>
      /\ UNCHANGED <<format, type, value, reader, textVars>>
  BY DEF WrittenToml, TripInv, textVars
<1>2. Given' /\ Root' = Root
  BY <1>1, SameTrip DEF TripInv
<1>3. Writing(Root) /\ Root # Refused
  BY <1>1 DEF TripInv
<1>4. PICK n : n = Root
  OBVIOUS
<1>5. Writing(n)'
  BY <1>1, <1>3, <1>4, WritingSame
<1>6. Writing(Root)'
  BY <1>2, <1>4, <1>5
<1> QED
  BY <1>1, <1>2, <1>3, <1>6 DEF TripInv

LEMMA TripRead ==
  ASSUME TripInv, Deserialize
  PROVE  TripInv'
<1>1. /\ stage = "written" /\ stage' = "read" /\ UNCHANGED <<format, type, value, reader, document>>
      /\ todo' = <<>>
      /\ result' = IF format = "json" THEN JsonDecode(reader, document)
                   ELSE TomlDecode(reader, NodeAt[<<>>])
  BY DEF Deserialize, TripInv, textVars
<1>2. Given' /\ Root' = Root /\ ByHand' = ByHand /\ Only' = Only /\ Integer' = Integer
  BY <1>1, SameTrip DEF TripInv
<1>3. CASE format = "json"
  <2>1. ByHand => document = <<"object", [k \in {Only} |-> Integer]>>
    BY <1>1, <1>3 DEF TripInv
  <2>2. (format = "json" /\ ByHand /\ stage \in {"written", "read"} =>
           document = <<"object", [k \in {Only} |-> Integer]>>)'
    BY <1>1, <1>2, <2>1
  <2>3. (format = "json" /\ stage = "read" => result = JsonDecode(reader, document))'
    BY <1>1, <1>3
  <2> QED
    BY <1>1, <1>2, <1>3, <2>2, <2>3 DEF TripInv
<1>4. CASE format = "toml"
  <2>1. Writing(Root) /\ Root # Refused /\ todo = <<>>
    BY <1>1, <1>4 DEF TripInv
  <2>2. PICK n : n = Root
    OBVIOUS
  <2>3. PICK t : t = reader
    OBVIOUS
  <2>4. PICK v : v = TomlDecode(t, NodeAt[<<>>])
    OBVIOUS
  <2>5. Got(n, t, v)
    BY <2>1, <2>2, <2>4, WritingRead
  <2>6. Root' = n /\ reader' = t /\ result' = v
    BY <1>1, <1>2, <1>4, <2>2, <2>3, <2>4
  <2>7. Got(Root, reader, result)'
    BY <2>5, <2>6
  <2> QED
    BY <1>1, <1>2, <1>4, <2>1, <2>7 DEF TripInv
<1> QED
  BY <1>3, <1>4 DEF TripInv

LEMMA TripKept ==
  ASSUME Recursion, TripInv, [Next]_vars
  PROVE  TripInv'
<1>1. CASE UNCHANGED vars
  <2>1. UNCHANGED <<format, type, value, reader, stage, document, result, textVars, todo>>
    BY <1>1 DEF vars, textVars
  <2>2. Given' = Given /\ Root' = Root /\ ByHand' = ByHand /\ Only' = Only /\ Integer' = Integer
    BY <2>1, SameTrip
  <2>3. PICK n : n = Root
    OBVIOUS
  <2>4. Writing(n) => Writing(n)'
    BY <2>1, WritingSame
  <2>5. Writing(Root) => Writing(Root)'
    BY <2>2, <2>3, <2>4
  <2>6. Got(Root, reader, result)' <=> Got(Root, reader, result)
    BY <2>1, <2>2
  <2> QED
    BY <2>1, <2>2, <2>5, <2>6 DEF TripInv
<1>2. CASE SerializeJson
  BY <1>2, TripBegunJson
<1>3. CASE SerializeToml
  BY <1>3, TripBegunToml
<1>4. CASE WriteLine
  BY <1>4, TripWritten
<1>5. CASE WrittenToml
  BY <1>5, TripEnded
<1>6. CASE Deserialize
  BY <1>6, TripRead
<1> QED
  BY <1>1, <1>2, <1>3, <1>4, <1>5, <1>6 DEF Next

LEMMA TripStarts == Init => TripInv
<1> SUFFICES ASSUME Init PROVE TripInv
  OBVIOUS
<1>1. Given /\ stage = "begin" /\ format \in {"json", "toml"} /\ todo = <<>>
  BY DEF Init, InitText, Given
<1> QED
  BY <1>1 DEF TripInv

LEMMA TomlReadOf ==
  ASSUME Recursion, NEW t \in AllTypes, t[1] = "struct", TomlKeeps(t), NEW v, HasType(t, v),
         NEW n, n = TomlEncode(t, v), n # Refused, NEW w, Got(n, t, w)
  PROVE  w = v
<1>1. PICK R, m : Reflects(R) /\ <<n, m>> \in R /\ w = TomlDecode(t, m)
  BY DEF Got
<1>2. TomlBack(R, t)
  BY <1>1, AllTomlBack
<1>3. TableOf(t, v, n)
  BY MemberNodes
<1>4. n[1] = "table" /\ n # Null
  BY <1>3, TableNamed DEF Null
<1>5. /\ HasTypePart(t, v) /\ TomlKeepsPart(t) /\ TomlEncoded(t, v) = n
      /\ TomlDecoded(t, m) = TomlDecode(t, m)
  BY DEF Recursion, JudgesParts, WritesParts, ReadsParts
<1> QED
  BY <1>1, <1>2, <1>4, <1>5 DEF TomlBack, ReadAs

\* A value that TOML has a text for is written, and read back as it was, for all types,
\* values, orders of keys and widths of integers: no line is refused, none is read into
\* another table, and absent members, inline and empty arrays and whole doubles are what
\* they were (toml.hpp:1728-1745, 2635, 2780).
THEOREM TomlReadBack ==
  ASSUME Recursion
  PROVE  Spec => []TomlRoundTrip
<1>1. TripInv => TomlRoundTrip
  <2> SUFFICES ASSUME TripInv, format = "toml", ~ ByHand
               PROVE  /\ stage = "refused" => Unwritable(type, value)
                      /\ stage = "read" /\ reader = type /\ TomlKeeps(type) => result = value
    BY DEF TomlRoundTrip
  <2>1. PICK t : t = type
    OBVIOUS
  <2>2. PICK v : v = value
    OBVIOUS
  <2>3. t \in AllTypes /\ t[1] = "struct" /\ HasType(t, v)
    BY <2>1, <2>2, GivenTypes DEF TripInv
  <2>4. Root = TomlEncode(t, v)
    BY <2>1, <2>2 DEF Root
  <2>5. stage = "refused" => Unwritable(t, v)
    <3> SUFFICES ASSUME stage = "refused" PROVE Unwritable(t, v)
      OBVIOUS
    <3>1. TomlEncode(t, v) = Refused
      BY <2>4 DEF TripInv
    <3>2. HasTypePart(t, v) /\ TomlEncoded(t, v) = Refused
      BY <2>3, <3>1 DEF Recursion, JudgesParts, WritesParts
    <3>3. UnwritablePart(t, v)
      BY <2>3, <3>2, AllRefusals DEF RefusesOnly
    <3> QED
      BY <2>3, <3>3 DEF Recursion, JudgesParts
  <2>6. stage = "read" /\ reader = type /\ TomlKeeps(type) => result = v
    <3> SUFFICES ASSUME stage = "read", reader = type, TomlKeeps(type) PROVE result = v
      OBVIOUS
    <3>1. PICK n : n = Root
      OBVIOUS
    <3>2. PICK w : w = result
      OBVIOUS
    <3>3. n # Refused /\ Got(n, t, w) /\ n = TomlEncode(t, v) /\ TomlKeeps(t)
      BY <2>1, <2>4, <3>1, <3>2 DEF TripInv
    <3>4. w = v
      BY <2>3, <3>3, TomlReadOf
    <3> QED
      BY <3>2, <3>4
  <2> QED
    BY <2>1, <2>2, <2>5, <2>6
<1> QED
  BY <1>1, TripStarts, TripKept, PTL DEF Spec

\* An integer that stands in a document is read exactly when the type has it and the
\* field takes it, for every width of integers, every type and all options; in TOML, when
\* it has no more than 64 bits and a sign (json.hpp:1587-1640, toml.hpp:1728-1745, 2757).
THEOREM ReadingIntegers ==
  ASSUME Recursion
  PROVE  Spec => []IntegersExact
<1>1. TripInv => IntegersExact
  <2> DEFINE f == reader[2][1]
             greatest == IF format = "json" THEN UInt64Max ELSE Int64Max
  <2>1. ASSUME TripInv, ByHand, stage = "read", f.type[1] = "int", f.policy = {}
        PROVE  result = ReadInteger(reader, value[2], - Int64Max - 1, greatest)
    <3>1. PICK t : t = reader
      OBVIOUS
    <3>2. PICK n : n = value[2]
      OBVIOUS
    <3>3. t \in AllTypes /\ t[1] = "struct" /\ Len(t[2]) = 1 /\ n \in Int
      BY <2>1, <3>1, <3>2, GivenTypes DEF TripInv
    <3>4. t[2][1].type[1] = "int" /\ t[2][1].policy = {}
      BY <2>1, <3>1
    <3>5. Only = t[2][1].name /\ Integer = <<"int", n>>
      BY <3>1, <3>2 DEF Only, Integer
    <3>6. CASE format = "json"
      <4>1. document = <<"object", [k \in {t[2][1].name} |-> <<"int", n>>]>> /\ result = JsonDecode(t, document)
        BY <2>1, <3>1, <3>5, <3>6 DEF TripInv
      <4>2. JsonDecode(t, <<"object", [k \in {t[2][1].name} |-> <<"int", n>>]>>) =
              ReadInteger(t, n, - Int64Max - 1, UInt64Max)
        BY <3>3, <3>4, JsonOneInteger
      <4> QED
        BY <3>1, <3>2, <3>6, <4>1, <4>2
    <3>7. CASE format = "toml"
      <4>1. PICK r : r = Root
        OBVIOUS
      <4>2. PICK w : w = result
        OBVIOUS
      <4>3. r = TableNode([k \in {t[2][1].name} |-> <<"int", n>>])
        BY <2>1, <3>5, <4>1 DEF Root
      <4>4. Got(r, t, w)
        BY <2>1, <3>1, <3>7, <4>1, <4>2 DEF TripInv
      <4>5. w = ReadInteger(t, n, - Int64Max - 1, Int64Max)
        BY <3>3, <3>4, <4>3, <4>4, TomlOneInteger
      <4> QED
        BY <3>1, <3>2, <3>7, <4>2, <4>5
    <3>8. format \in {"json", "toml"}
      BY <2>1 DEF TripInv
    <3> QED
      BY <3>6, <3>7, <3>8
  <2>2. ReadInteger(reader, value[2], - Int64Max - 1, greatest) =
          IF /\ value[2] \in (f.type[2] .. f.type[3]) \cap (- Int64Max - 1 .. greatest)
             /\ ValidOptions(f.type, f.options) /\ Keeps(f.type, f.options, Integer)
            THEN <<"object", [k \in {Only} |-> Integer]>> ELSE Refused
    BY DEF ReadInteger, Only, Integer
  <2> QED
    BY <2>1, <2>2, Zenon DEF IntegersExact
<1> QED
  BY <1>1, TripStarts, TripKept, PTL DEF Spec

\* The parser takes every line that is written of a struct, each assignment into the
\* table it was written for, for all types, values and orders of keys
\* (toml.hpp:2635-2686).
THEOREM TakingTexts ==
  ASSUME Recursion
  PROVE  Spec => [](LinesAccepted /\ TableOfLine)
<1>1. TripInv => LinesAccepted /\ TableOfLine
  <2> SUFFICES ASSUME TripInv PROVE LinesAccepted /\ TableOfLine
    OBVIOUS
  <2>1. CASE stage = "write"
    <3>1. PICK nodes : IInv(nodes)
      BY <2>1 DEF TripInv, Writing
    <3> QED
      BY <3>1, NextTaken
  <2>2. CASE stage # "write"
    BY <2>2 DEF TripInv, LinesAccepted, TableOfLine
  <2> QED
    BY <2>1, <2>2
<1> QED
  BY <1>1, TripStarts, TripKept, PTL DEF Spec

-----------------------------------------------------------------------------
(* Sums over a finite set, as they are folded, and maxima.                 *)

\* The element that is taken first, and the sum of c over s, f having those of less.
Taken(s) == CHOOSE x \in s : TRUE
Summed(c, f, s) == IF s = {} THEN 0 ELSE c[Taken(s)] + f[s \ {Taken(s)}]

UpTo(D, h) == {s \in SUBSET D : Cardinality(s) <= h}
SumsUpTo(c, D, h) == \E f : f = [s \in UpTo(D, h) |-> Summed(c, f, s)]
IsSums(f, c, D) == f = [s \in SUBSET D |-> Summed(c, f, s)]

LEMMA TakenIs ==
  ASSUME NEW s, s # {}
  PROVE  Taken(s) \in s
  BY DEF Taken

\* What is left when an element has been taken.
LEMMA Lessened ==
  ASSUME NEW D, IsFiniteSet(D), NEW s \in SUBSET D, NEW x \in s
  PROVE  /\ s \ {x} \in SUBSET D
         /\ Cardinality(s) \in Nat /\ Cardinality(s \ {x}) \in Nat
         /\ Cardinality(s \ {x}) = Cardinality(s) - 1
<1>1. IsFiniteSet(s)
  BY FS_Subset
<1>2. IsFiniteSet(s \ {x}) /\ Cardinality(s \ {x}) = Cardinality(s) - 1
  BY <1>1, FS_RemoveElement
<1> QED
  BY <1>1, <1>2, FS_CardinalityType

\* Of sets that are not as they should be, there is one that is as it should be without
\* any one of its elements.
LEMMA LeastSubset ==
  ASSUME NEW D, IsFiniteSet(D), NEW B \in SUBSET (SUBSET D), B # {}
  PROVE  \E s \in B : \A x \in s : s \ {x} \notin B
<1> DEFINE N == {Cardinality(s) : s \in B}
<1>1. \A s \in B : Cardinality(s) \in Nat
  BY FS_Subset, FS_CardinalityType
<1>2. N \in SUBSET Nat /\ N # {}
  BY <1>1
<1>3. PICK s \in B : Cardinality(s) = Min(N)
  BY <1>2, LeastOf
<1>4. ASSUME NEW x \in s, s \ {x} \in B PROVE FALSE
  <2>1. Cardinality(s \ {x}) \in N
    BY <1>4
  <2>2. Min(N) <= Cardinality(s \ {x})
    <3>1. \A m \in N : Min(N) <= m
      BY <1>2, LeastOf
    <3> QED
      BY <2>1, <3>1
  <2>3. /\ Cardinality(s) \in Nat /\ Cardinality(s \ {x}) \in Nat
        /\ Cardinality(s \ {x}) = Cardinality(s) - 1
    BY Lessened
  <2> QED
    BY <1>3, <2>2, <2>3
<1> QED
  BY <1>4

LEMMA SumsNext ==
  ASSUME NEW D, IsFiniteSet(D), NEW c, NEW h \in Nat, SumsUpTo(c, D, h)
  PROVE  SumsUpTo(c, D, h + 1)
<1>1. PICK f : f = [s \in UpTo(D, h) |-> Summed(c, f, s)]
  BY DEF SumsUpTo
<1> DEFINE g == [s \in UpTo(D, h + 1) |-> Summed(c, f, s)]
<1>2. ASSUME NEW s \in UpTo(D, h + 1) PROVE Summed(c, f, s) = Summed(c, g, s)
  <2>1. CASE s = {}
    BY <2>1 DEF Summed
  <2>2. CASE s # {}
    <3> DEFINE r == s \ {Taken(s)}
    <3>1. s \in SUBSET D /\ Cardinality(s) <= h + 1 /\ Taken(s) \in s
      BY <2>2, TakenIs DEF UpTo
    <3>2. /\ r \in SUBSET D /\ Cardinality(s) \in Nat /\ Cardinality(r) \in Nat
          /\ Cardinality(r) = Cardinality(s) - 1
      BY <3>1, Lessened
    <3> HIDE DEF r
    <3>3. Cardinality(r) <= h /\ Cardinality(r) <= h + 1
      BY <3>1, <3>2
    <3>4. r \in UpTo(D, h) /\ r \in UpTo(D, h + 1)
      BY <3>2, <3>3 DEF UpTo
    <3>5. f[r] = Summed(c, f, r)
      BY <1>1, <3>4
    <3>6. g[r] = Summed(c, f, r)
      BY <3>4
    <3> HIDE DEF g
    <3> QED
      BY <2>2, <3>5, <3>6 DEF Summed, r
  <2> QED
    BY <2>1, <2>2
<1>3. g = [s \in UpTo(D, h + 1) |-> Summed(c, g, s)]
  <2> DEFINE e == [s \in UpTo(D, h + 1) |-> Summed(c, g, s)]
  <2>1. DOMAIN g = UpTo(D, h + 1) /\ DOMAIN e = UpTo(D, h + 1) /\ g = [s \in DOMAIN g |-> g[s]]
        /\ e = [s \in DOMAIN e |-> e[s]]
    OBVIOUS
  <2>2. \A s \in UpTo(D, h + 1) : g[s] = Summed(c, f, s) /\ e[s] = Summed(c, g, s)
    OBVIOUS
  <2>3. \A s \in UpTo(D, h + 1) : g[s] = e[s]
    <3> HIDE DEF g, e
    <3> QED
      BY <1>2, <2>2
  <2> HIDE DEF g, e
  <2>4. g = e
    BY <2>1, <2>3
  <2> QED
    BY <2>4 DEF e
<1> HIDE DEF g
<1> QED
  BY <1>3 DEF SumsUpTo

LEMMA SumsExist ==
  ASSUME NEW D, IsFiniteSet(D), NEW c
  PROVE  \E f : IsSums(f, c, D)
<1>1. SumsUpTo(c, D, 0)
  <2> DEFINE f == [s \in UpTo(D, 0) |-> 0]
  <2>1. ASSUME NEW s \in UpTo(D, 0) PROVE s = {}
    <3>1. IsFiniteSet(s) /\ Cardinality(s) <= 0
      BY FS_Subset DEF UpTo
    <3>2. Cardinality(s) = 0
      BY <3>1, FS_CardinalityType
    <3> QED
      BY <3>1, <3>2, FS_EmptySet
  <2>2. \A s \in UpTo(D, 0) : Summed(c, f, s) = 0
    BY <2>1 DEF Summed
  <2>3. f = [s \in UpTo(D, 0) |-> Summed(c, f, s)]
    BY <2>2
  <2> HIDE DEF f
  <2> QED
    BY <2>3 DEF SumsUpTo
<1>2. \A h \in Nat : SumsUpTo(c, D, h)
  <2> DEFINE B == {h \in Nat : ~ SumsUpTo(c, D, h)}
  <2> SUFFICES ASSUME B # {} PROVE FALSE
    OBVIOUS
  <2>1. PICK h \in B : \A m \in B : h <= m
    BY LeastOf
  <2>2. h \in Nat /\ h # 0
    BY <1>1
  <2>3. h - 1 \in Nat /\ h - 1 \notin B /\ (h - 1) + 1 = h
    BY <2>1, <2>2
  <2>4. SumsUpTo(c, D, (h - 1) + 1)
    BY <2>3, SumsNext
  <2> QED
    BY <2>3, <2>4
<1>3. Cardinality(D) \in Nat
  BY FS_CardinalityType
<1>4. UpTo(D, Cardinality(D)) = SUBSET D
  BY FS_Subset DEF UpTo
<1> QED
  BY <1>2, <1>3, <1>4 DEF SumsUpTo, IsSums

\* The greater the summands, the greater the sum.
LEMMA SumsCompare ==
  ASSUME NEW D, IsFiniteSet(D), NEW c, NEW d,
         \A x \in D : c[x] \in Nat /\ d[x] \in Nat /\ d[x] <= c[x],
         NEW f, IsSums(f, c, D), NEW g, IsSums(g, d, D)
  PROVE  f[D] \in Nat /\ g[D] \in Nat /\ g[D] <= f[D]
<1> DEFINE B == {s \in SUBSET D : ~ (f[s] \in Nat /\ g[s] \in Nat /\ g[s] <= f[s])}
<1>1. B = {}
  <2> SUFFICES ASSUME B # {} PROVE FALSE
    OBVIOUS
  <2>1. PICK s \in B : \A x \in s : s \ {x} \notin B
    BY LeastSubset
  <2>2. f[s] = Summed(c, f, s) /\ g[s] = Summed(d, g, s)
    BY DEF IsSums
  <2>3. s # {}
    BY <2>2 DEF Summed
  <2> DEFINE x == Taken(s)
             r == s \ {x}
  <2>4. x \in s /\ x \in D
    BY <2>3, TakenIs
  <2>5. r \in SUBSET D /\ r \notin B
    BY <2>1, <2>4
  <2>6. f[r] \in Nat /\ g[r] \in Nat /\ g[r] <= f[r]
    BY <2>5
  <2>7. f[s] = c[x] + f[r] /\ g[s] = d[x] + g[r]
    BY <2>2, <2>3 DEF Summed
  <2>8. c[x] \in Nat /\ d[x] \in Nat /\ d[x] <= c[x]
    BY <2>4
  <2>9. s \in B
    OBVIOUS
  <2>10. ~ (f[s] \in Nat /\ g[s] \in Nat /\ g[s] <= f[s])
    BY <2>9
  <2> HIDE DEF x, r, B
  <2> QED
    BY <2>6, <2>7, <2>8, <2>10
<1> QED
  BY <1>1

\* There is a greatest of finitely many numbers.
Tops(h, s) == {0} \cup {h[x] : x \in s}
HasTop(h, s) == \E m \in Tops(h, s) : \A k \in Tops(h, s) : m >= k

LEMMA Greatest ==
  ASSUME NEW D, IsFiniteSet(D), NEW h, \A x \in D : h[x] \in Nat
  PROVE  /\ Max(Tops(h, D)) \in Tops(h, D) /\ Max(Tops(h, D)) \in Nat
         /\ \A x \in D : h[x] <= Max(Tops(h, D))
<1> DEFINE B == {s \in SUBSET D : ~ HasTop(h, s)}
<1>1. B = {}
  <2> SUFFICES ASSUME B # {} PROVE FALSE
    OBVIOUS
  <2>1. PICK s \in B : \A x \in s : s \ {x} \notin B
    BY LeastSubset
  <2>2. s # {}
    <3>1. Tops(h, {}) = {0}
      BY DEF Tops
    <3>2. HasTop(h, {})
      BY <3>1 DEF HasTop
    <3> QED
      BY <3>2
  <2>3. PICK x \in s : TRUE
    BY <2>2
  <2>4. HasTop(h, s \ {x})
    BY <2>1
  <2>5. PICK m \in Tops(h, s \ {x}) : \A k \in Tops(h, s \ {x}) : m >= k
    BY <2>4 DEF HasTop
  <2>6. Tops(h, s) = Tops(h, s \ {x}) \cup {h[x]}
    BY DEF Tops
  <2>7. h[x] \in Nat /\ \A k \in Tops(h, s \ {x}) : k \in Nat
    BY DEF Tops
  <2>10. ~ HasTop(h, s)
    OBVIOUS
  <2> HIDE DEF B
  <2>8. CASE m >= h[x]
    <3>1. m \in Tops(h, s) /\ \A k \in Tops(h, s) : m >= k
      BY <2>5, <2>6, <2>8
    <3> QED
      BY <2>10, <3>1 DEF HasTop
  <2>9. CASE ~ (m >= h[x])
    <3>1. m \in Nat /\ h[x] >= m
      BY <2>5, <2>7, <2>9
    <3>2. \A k \in Tops(h, s \ {x}) : h[x] >= k
      BY <2>5, <2>7, <3>1
    <3>3. h[x] \in Tops(h, s) /\ \A k \in Tops(h, s) : h[x] >= k
      BY <2>6, <2>7, <3>2
    <3> QED
      BY <2>10, <3>3 DEF HasTop
  <2> QED
    BY <2>8, <2>9
<1>2. HasTop(h, D)
  BY <1>1
<1>3. Max(Tops(h, D)) \in Tops(h, D) /\ \A k \in Tops(h, D) : Max(Tops(h, D)) >= k
  BY <1>2, Zenon DEF HasTop, Max
<1>4. \A k \in Tops(h, D) : k \in Nat
  BY DEF Tops
<1>5. \A x \in D : h[x] \in Tops(h, D)
  BY DEF Tops
<1> HIDE DEF B
<1> QED
  BY <1>3, <1>4, <1>5

-----------------------------------------------------------------------------
(* What is counted for a text covers it.                                   *)

\* What encodeValue() has counted is no less than what is in the text.
CountCovers(r) ==
  /\ DOMAIN r = {"node", "count", "height"}
  /\ r.node # Refused =>
       /\ r.count \in Nat /\ r.height \in Nat
       /\ LevelsPart(r.node) \in Nat /\ LevelsPart(r.node) <= r.height
       /\ SizePart(r.node) \in Nat /\ SizePart(r.node) <= r.count

LEMMA FoldedCounts ==
  ASSUME NEW parts, IsFiniteSet(DOMAIN parts)
  PROVE  \E f : IsSums(f, [x \in DOMAIN parts |-> parts[x].count], DOMAIN parts) /\ Total(parts) = 1 + f[DOMAIN parts]
<1> DEFINE D == DOMAIN parts
           c == [x \in D |-> parts[x].count]
           Sum(g, s) == IF s = {} THEN 0 ELSE parts[CHOOSE x \in s : TRUE].count + g[s \ {CHOOSE x \in s : TRUE}]
           Folds(g) == g = [s \in SUBSET D |-> Sum(g, s)]
           f == CHOOSE g : Folds(g)
<1>1. Total(parts) = 1 + f[D]
  BY DEF Total, FoldFunction, FoldFunctionOnSet, MapThenFoldSet
<1>2. ASSUME NEW g, NEW s \in SUBSET D PROVE Summed(c, g, s) = Sum(g, s)
  <2>1. s # {} => Taken(s) \in D
    BY TakenIs
  <2>2. s # {} => c[Taken(s)] = parts[Taken(s)].count
    BY <2>1
  <2> HIDE DEF c
  <2> QED
    BY <2>2, Zenon DEF Summed, Taken
<1>3. ASSUME NEW g PROVE IsSums(g, c, D) <=> Folds(g)
  <2>1. [s \in SUBSET D |-> Summed(c, g, s)] = [s \in SUBSET D |-> Sum(g, s)]
    <3> HIDE DEF c, D, Sum
    <3> QED
      BY <1>2, Zenon
  <2> HIDE DEF c, D, Sum
  <2> QED
    BY <2>1, Zenon DEF IsSums
<1> HIDE DEF Folds
<1>4. PICK g : Folds(g)
  <2> HIDE DEF c
  <2> QED
    BY <1>3, SumsExist DEF D
<1>5. Folds(f)
  BY <1>4, Zenon
<1>6. IsSums(f, c, D)
  BY <1>3, <1>5
<1> HIDE DEF f
<1> QED
  BY <1>1, <1>6

LEMMA FoldedSizes ==
  ASSUME NEW n, n[1] \in {"array", "object"}, IsFiniteSet(DOMAIN n[2])
  PROVE  \E f : IsSums(f, [x \in DOMAIN n[2] |-> SizePart(n[2][x])], DOMAIN n[2]) /\ Size(n) = 1 + f[DOMAIN n[2]]
<1> DEFINE D == DOMAIN n[2]
           c == [x \in D |-> SizePart(n[2][x])]
           Sum(g, s) == IF s = {} THEN 0 ELSE SizePart(n[2][CHOOSE x \in s : TRUE]) + g[s \ {CHOOSE x \in s : TRUE}]
           Folds(g) == g = [s \in SUBSET D |-> Sum(g, s)]
           f == CHOOSE g : Folds(g)
<1>1. Size(n) = 1 + f[D]
  BY DEF Size, FoldFunction, FoldFunctionOnSet, MapThenFoldSet
<1>2. ASSUME NEW g, NEW s \in SUBSET D PROVE Summed(c, g, s) = Sum(g, s)
  <2>1. s # {} => Taken(s) \in D
    BY TakenIs
  <2>2. s # {} => c[Taken(s)] = SizePart(n[2][Taken(s)])
    BY <2>1
  <2> HIDE DEF c
  <2> QED
    BY <2>2, Zenon DEF Summed, Taken
<1>3. ASSUME NEW g PROVE IsSums(g, c, D) <=> Folds(g)
  <2>1. [s \in SUBSET D |-> Summed(c, g, s)] = [s \in SUBSET D |-> Sum(g, s)]
    <3> HIDE DEF c, D, Sum
    <3> QED
      BY <1>2, Zenon
  <2> HIDE DEF c, D, Sum
  <2> QED
    BY <2>1, Zenon DEF IsSums
<1> HIDE DEF Folds
<1>4. PICK g : Folds(g)
  <2> HIDE DEF c
  <2> QED
    BY <1>3, SumsExist DEF D
<1>5. Folds(f)
  BY <1>4, Zenon
<1>6. IsSums(f, c, D)
  BY <1>3, <1>5
<1> HIDE DEF f
<1> QED
  BY <1>1, <1>6

LEMMA CompoundCovers ==
  ASSUME NEW tag \in {"array", "object"}, NEW parts, IsFiniteSet(DOMAIN parts),
         \A i \in DOMAIN parts : CountCovers(parts[i]),
         NEW r, r = Compound(tag, parts), Measured(r.node)
  PROVE  CountCovers(r)
<1>1. CASE r = Refusal
  BY <1>1 DEF CountCovers, Refusal
<1>2. CASE r # Refusal
  <2> DEFINE D == DOMAIN parts
             nodes == [i \in D |-> parts[i].node]
             n == <<tag, nodes>>
             counts == [x \in D |-> parts[x].count]
             sizes == [x \in D |-> SizePart(n[2][x])]
             heights == [x \in D |-> parts[x].height]
             levels == [x \in D |-> LevelsPart(n[2][x])]
  <2>1. /\ \A i \in D : parts[i].node # Refused
        /\ r = [node |-> n, count |-> Total(parts), height |-> Height(parts)]
    BY <1>2 DEF Compound
  <2>2. n[1] \in {"array", "object"} /\ n[2] = nodes /\ DOMAIN n[2] = D /\ \A i \in D : n[2][i] = parts[i].node
    OBVIOUS
  <2>3. \A i \in D : /\ parts[i].count \in Nat /\ parts[i].height \in Nat
                     /\ LevelsPart(n[2][i]) \in Nat /\ LevelsPart(n[2][i]) <= parts[i].height
                     /\ SizePart(n[2][i]) \in Nat /\ SizePart(n[2][i]) <= parts[i].count
    <3> HIDE DEF n, D, nodes
    <3> QED
      BY <2>1, <2>2 DEF CountCovers, D
  <2>4. LevelsPart(n) = Levels(n) /\ SizePart(n) = Size(n)
    <3>1. r.node = n
      BY <2>1
    <3> HIDE DEF n
    <3> QED
      BY <3>1 DEF Measured
  <2>5. PICK f : IsSums(f, counts, D) /\ Total(parts) = 1 + f[D]
    BY FoldedCounts
  <2> HIDE DEF n
  <2>6. PICK g : IsSums(g, sizes, D) /\ Size(n) = 1 + g[D]
    <3>1. IsFiniteSet(DOMAIN n[2])
      BY <2>2
    <3>2. \E g : IsSums(g, [x \in DOMAIN n[2] |-> SizePart(n[2][x])], DOMAIN n[2]) /\ Size(n) = 1 + g[DOMAIN n[2]]
      BY <2>2, <3>1, FoldedSizes
    <3>3. DOMAIN n[2] = D
      BY <2>2
    <3> HIDE DEF D
    <3> QED
      BY <3>2, <3>3
  <2>7. \A x \in D : counts[x] \in Nat /\ sizes[x] \in Nat /\ sizes[x] <= counts[x]
    BY <2>3
  <2>8. f[D] \in Nat /\ g[D] \in Nat /\ g[D] <= f[D]
    <3>1. IsFiniteSet(D)
      OBVIOUS
    <3> HIDE DEF counts, sizes, D
    <3> QED
      BY <2>5, <2>6, <2>7, <3>1, SumsCompare
  <2>9. Total(parts) \in Nat /\ SizePart(n) \in Nat /\ SizePart(n) <= Total(parts)
    <3> HIDE DEF counts, sizes, D
    <3> QED
      BY <2>4, <2>5, <2>6, <2>8
  <2>10. \A x \in D : heights[x] \in Nat /\ levels[x] \in Nat /\ levels[x] <= heights[x]
    BY <2>3
  <2>11. Height(parts) = 1 + Max(Tops(heights, D))
    <3>1. {parts[i].height : i \in D} = {heights[x] : x \in D}
      OBVIOUS
    <3> HIDE DEF heights
    <3> QED
      BY <3>1 DEF Height, Tops
  <2>12. Levels(n) = 1 + Max(Tops(levels, D))
    <3>1. {LevelsPart(n[2][i]) : i \in D} = {levels[x] : x \in D}
      OBVIOUS
    <3> HIDE DEF levels
    <3> QED
      BY <2>2, <3>1 DEF Levels, Tops
  <2> HIDE DEF heights, levels
  <2>13. /\ Max(Tops(heights, D)) \in Nat /\ Max(Tops(levels, D)) \in Tops(levels, D)
         /\ Max(Tops(levels, D)) \in Nat
         /\ \A x \in D : heights[x] <= Max(Tops(heights, D))
    BY <2>10, Greatest
  <2>14. Max(Tops(levels, D)) <= Max(Tops(heights, D))
    <3>1. CASE Max(Tops(levels, D)) = 0
      BY <2>13, <3>1
    <3>2. CASE Max(Tops(levels, D)) # 0
      <4>1. PICK x \in D : Max(Tops(levels, D)) = levels[x]
        BY <2>13, <3>2 DEF Tops
      <4> QED
        BY <2>10, <2>13, <4>1
    <3> QED
      BY <3>1, <3>2
  <2>15. Height(parts) \in Nat /\ LevelsPart(n) \in Nat /\ LevelsPart(n) <= Height(parts)
    BY <2>4, <2>11, <2>12, <2>13, <2>14
  <2> QED
    BY <2>1, <2>9, <2>15 DEF CountCovers
<1> QED
  BY <1>1, <1>2

\* A text that has no parts counts for one.
LEMMA OneCovers ==
  ASSUME NEW n, n[1] \notin {"array", "object"}, Measured(One(n).node)
  PROVE  CountCovers(One(n))
<1>1. One(n) = [node |-> Text(n), count |-> 1, height |-> 1]
  BY DEF One
<1>2. Text(n)[1] \notin {"array", "object"}
  <2>1. Text(n) = n \/ Text(n)[1] = "int"
    BY DEF Text
  <2> QED
    BY <2>1
<1>3. Levels(Text(n)) = 1 /\ Size(Text(n)) = 1
  BY <1>2 DEF Levels, Size
<1>4. LevelsPart(Text(n)) = 1 /\ SizePart(Text(n)) = 1
  BY <1>1, <1>3 DEF Measured
<1> QED
  BY <1>1, <1>4 DEF CountCovers

LEMMA WithinCovers ==
  ASSUME NEW r, CountCovers(r)
  PROVE  CountCovers(Within(r))
<1>1. /\ DOMAIN Within(r) = {"node", "count", "height"} /\ Within(r).node = r.node
      /\ Within(r).count = r.count + 1 /\ Within(r).height = r.height + 1
  BY DEF CountCovers, Within
<1> QED
  BY <1>1 DEF CountCovers

LEMMA RefusalCovers == CountCovers(Refusal)
  BY DEF CountCovers, Refusal

\* A document that a Json holds.
LEMMA JsonsCover ==
  ASSUME Recursion
  PROVE  \A n \in Jsons : CountCovers(NodeEncoded(n))
<1> DEFINE B == {m \in Jsons : ~ CountCovers(NodeEncoded(m))}
           N == {NodeNesting(m) : m \in B}
<1>1. N \in SUBSET Nat
  BY JsonsAssumption
<1>2. ASSUME NEW m \in B PROVE \E k \in B : NodeNesting(k) < NodeNesting(m)
  <2>1. NodeEncoded(m) = EncodeJson(m) /\ Measured(EncodeJson(m).node)
    BY DEF Recursion
  <2>2. ~ CountCovers(EncodeJson(m))
    BY <2>1
  <2>3. m[1] \in {"array", "object"}
    <3>1. CASE m[1] \in {"bad", "empty"}
      BY <2>2, <3>1, RefusalCovers DEF EncodeJson
    <3>2. CASE m[1] \notin {"array", "object", "bad", "empty"}
      <4>1. EncodeJson(m) = One(m)
        BY <3>2 DEF EncodeJson
      <4> QED
        BY <2>1, <2>2, <3>2, <4>1, OneCovers
    <3> QED
      BY <3>1, <3>2
  <2> DEFINE parts == [i \in DOMAIN m[2] |-> NodeEncoded(m[2][i])]
  <2>4. EncodeJson(m) = Compound(m[1], parts)
    BY <2>3 DEF EncodeJson
  <2>5. /\ IsFiniteSet(DOMAIN m[2])
        /\ \A i \in DOMAIN m[2] : m[2][i] \in Jsons /\ NodeNesting(m[2][i]) < NodeNesting(m)
    BY <2>3, JsonsAssumption
  <2>6. DOMAIN parts = DOMAIN m[2] /\ \A i \in DOMAIN parts : parts[i] = NodeEncoded(m[2][i])
    OBVIOUS
  <2> HIDE DEF parts
  <2>7. ~ \A i \in DOMAIN parts : CountCovers(parts[i])
    BY <2>1, <2>2, <2>3, <2>4, <2>5, <2>6, CompoundCovers
  <2>8. PICK i \in DOMAIN m[2] : ~ CountCovers(NodeEncoded(m[2][i]))
    BY <2>6, <2>7
  <2>9. m[2][i] \in B
    BY <2>5, <2>8
  <2> QED
    BY <2>5, <2>9
<1>3. B = {}
  <2> SUFFICES ASSUME N # {} PROVE FALSE
    OBVIOUS
  <2>1. PICK m \in B : NodeNesting(m) = Min(N)
    BY <1>1, LeastOf
  <2>2. PICK k \in B : NodeNesting(k) < NodeNesting(m)
    BY <1>2
  <2>3. NodeNesting(k) \in N /\ NodeNesting(m) \in Nat /\ NodeNesting(k) \in Nat
    BY JsonsAssumption
  <2>4. \A i \in N : Min(N) <= i
    BY <1>1, LeastOf
  <2> HIDE DEF B, N
  <2> QED
    BY <2>1, <2>2, <2>3, <2>4
<1> QED
  BY <1>3

LEMMA PartsFinite ==
  ASSUME NEW t \in AllTypes, t[1] \in {"vector", "array", "map"}, NEW v, HasType(t, v)
  PROVE  IsFiniteSet(DOMAIN v[2])
<1>1. CASE t[1] = "vector"
  <2>1. Len(v[2]) \in Nat /\ DOMAIN v[2] = 1 .. Len(v[2])
    BY <1>1 DEF HasType
  <2> QED
    BY <2>1, FS_Interval
<1>2. CASE t[1] = "array"
  <2>1. t[3] \in Nat /\ DOMAIN v[2] = 1 .. t[3]
    BY <1>2, TypeInside DEF HasType, IsType
  <2> QED
    BY <2>1, FS_Interval
<1>3. CASE t[1] = "map"
  BY <1>3, PartsOfType
<1> QED
  BY <1>1, <1>2, <1>3

\* Members with the policy raw.
LEMMA RawsCover ==
  ASSUME Recursion
  PROVE  \A t \in AllTypes : \A v : HasTypePart(t, v) => CountCovers(RawEncoded(t, v))
<1> DEFINE B == {t \in AllTypes : \E v : HasTypePart(t, v) /\ ~ CountCovers(RawEncoded(t, v))}
<1>1. ASSUME NEW t \in AllTypes, t \in B PROVE \E u \in Inside(t) : u \in B
  <2>1. PICK v : HasTypePart(t, v) /\ ~ CountCovers(RawEncoded(t, v))
    BY <1>1
  <2>2. HasType(t, v) /\ RawEncoded(t, v) = EncodeRaw(t, v)
    BY <2>1 DEF Recursion, JudgesParts, WritesParts
  <2>3. Measured(EncodeRaw(t, v).node)
    BY <2>2 DEF Recursion, MeasuresParts
  <2>4. ~ CountCovers(EncodeRaw(t, v))
    BY <2>1, <2>2
  <2> DEFINE Uncovered(u, w) == HasTypePart(u, w) /\ ~ CountCovers(RawEncoded(u, w))
  <2>5. CASE t[1] = "optional"
    <3>1. CASE v = None
      <4>1. EncodeRaw(t, v) = One(Null)
        BY <2>5, <3>1 DEF EncodeRaw
      <4>2. Null[1] \notin {"array", "object"}
        BY DEF Null
      <4> QED
        BY <2>3, <2>4, <4>1, <4>2, OneCovers
    <3>2. CASE v # None
      <4>1. EncodeRaw(t, v) = RawEncoded(t[2], v[2]) /\ HasTypePart(t[2], v[2])
        BY <2>2, <2>5, <3>2, PartsOfType DEF EncodeRaw
      <4>2. t[2] \in Inside(t) /\ t[2] \in AllTypes
        BY <2>5, TypeInside DEF Inside
      <4> QED
        BY <2>4, <4>1, <4>2
    <3> QED
      BY <3>1, <3>2
  <2>6. CASE t[1] = "vector"
    <3> DEFINE parts == [i \in DOMAIN v[2] |-> RawEncoded(t[2], v[2][i])]
    <3>1. EncodeRaw(t, v) = Compound("array", parts)
      BY <2>6 DEF EncodeRaw
    <3>2. /\ DOMAIN parts = DOMAIN v[2] /\ IsFiniteSet(DOMAIN v[2])
          /\ \A i \in DOMAIN parts : parts[i] = RawEncoded(t[2], v[2][i])
      BY <2>2, <2>6, PartsFinite
    <3>3. \A i \in DOMAIN v[2] : HasTypePart(t[2], v[2][i])
      BY <2>2, <2>6, PartsOfType
    <3>4. t[2] \in Inside(t) /\ t[2] \in AllTypes
      BY <2>6, TypeInside DEF Inside
    <3> HIDE DEF parts
    <3>5. ~ \A i \in DOMAIN parts : CountCovers(parts[i])
      BY <2>3, <2>4, <3>1, <3>2, CompoundCovers
    <3>6. PICK i \in DOMAIN v[2] : ~ CountCovers(RawEncoded(t[2], v[2][i]))
      BY <3>2, <3>5
    <3> QED
      BY <3>3, <3>4, <3>6
  <2>7. CASE t[1] = "raw"
    <3>1. EncodeRaw(t, v) = NodeEncoded(v[2]) /\ v[2] \in Jsons
      BY <2>2, <2>7, ScalarOfType DEF EncodeRaw
    <3> QED
      BY <2>4, <3>1, JsonsCover
  <2>8. CASE t[1] \notin {"optional", "vector", "raw"}
    <3>1. EncodeRaw(t, v) = Refusal
      BY <2>8 DEF EncodeRaw
    <3> QED
      BY <2>4, <3>1, RefusalCovers
  <2> QED
    BY <2>5, <2>6, <2>7, <2>8
<1>2. B = {}
  BY <1>1, NoLeastType
<1> QED
  BY <1>2

\* What is written of each value of the type t.
WritesCovered(t) == \A v : HasTypePart(t, v) => \A b : CountCovers(JsonEncoded(t, v, b))
PartsCovered(t) == \A u \in Inside(t) : WritesCovered(u)

LEMMA ScalarCovers ==
  ASSUME NEW t, t[1] \in {"bool", "int", "double", "string", "date"}, NEW v, HasType(t, v),
         NEW b, Measured(JsonEncode(t, v, b).node)
  PROVE  CountCovers(JsonEncode(t, v, b))
<1>1. JsonEncode(t, v, b) = EncodeScalar(t, v, b)
  BY DEF JsonEncode
<1>2. v[1] \in {"bool", "int", "double", "string", "date", "nan"}
  BY ScalarOfType DEF NotANumber
<1>3. Null[1] = "null" /\ <<"string", v[2]>>[1] = "string"
  BY DEF Null
<1>4. EncodeScalar(t, v, b) \in {Refusal, One(Null), One(<<"string", v[2]>>), One(v)}
  BY DEF EncodeScalar
<1>5. CASE EncodeScalar(t, v, b) = Refusal
  BY <1>1, <1>5, RefusalCovers
<1>6. CASE EncodeScalar(t, v, b) = One(Null)
  BY <1>1, <1>3, <1>6, OneCovers
<1>7. CASE EncodeScalar(t, v, b) = One(<<"string", v[2]>>)
  <2> DEFINE n == <<"string", v[2]>>
  <2>1. n[1] \notin {"array", "object"}
    OBVIOUS
  <2> HIDE DEF n
  <2>2. EncodeScalar(t, v, b) = One(n)
    BY <1>7 DEF n
  <2> QED
    BY <1>1, <2>1, <2>2, OneCovers
<1>8. CASE EncodeScalar(t, v, b) = One(v)
  BY <1>1, <1>2, <1>8, OneCovers
<1> QED
  BY <1>4, <1>5, <1>6, <1>7, <1>8

LEMMA EnumCovers ==
  ASSUME NEW t, t[1] = "enum", NEW v, NEW b, Measured(JsonEncode(t, v, b).node)
  PROVE  CountCovers(JsonEncode(t, v, b))
<1> DEFINE n == IF t[3] THEN <<"string", EntryName(t, v[2])>> ELSE <<"int", v[2]>>
<1>1. JsonEncode(t, v, b) = EncodeEnum(t, v[2])
  BY DEF JsonEncode
<1>2. EncodeEnum(t, v[2]) \in {Refusal, Within(One(n))}
  BY DEF EncodeEnum
<1>3. n[1] \notin {"array", "object"}
  OBVIOUS
<1> HIDE DEF n
<1>4. Within(One(n)).node = One(n).node
  BY DEF Within, One
<1> QED
  BY <1>1, <1>2, <1>3, <1>4, OneCovers, WithinCovers, RefusalCovers

LEMMA ContainerCovers ==
  ASSUME NEW t \in AllTypes, t[1] \in {"vector", "array", "map"}, PartsCovered(t),
         NEW v, HasType(t, v), NEW b, Measured(JsonEncode(t, v, b).node)
  PROVE  CountCovers(JsonEncode(t, v, b))
<1> DEFINE parts == [i \in DOMAIN v[2] |-> JsonEncoded(t[2], v[2][i], b)]
<1>1. JsonEncode(t, v, b) = Compound(v[1], parts)
  BY DEF JsonEncode, EncodeContainer
<1>2. /\ DOMAIN parts = DOMAIN v[2] /\ IsFiniteSet(DOMAIN v[2])
      /\ \A i \in DOMAIN parts : parts[i] = JsonEncoded(t[2], v[2][i], b)
  BY PartsFinite
<1>3. v[1] \in {"array", "object"} /\ \A i \in DOMAIN v[2] : HasTypePart(t[2], v[2][i])
  BY PartsOfType
<1>4. WritesCovered(t[2])
  BY DEF PartsCovered, Inside
<1> HIDE DEF parts
<1>5. \A i \in DOMAIN parts : CountCovers(parts[i])
  BY <1>2, <1>3, <1>4 DEF WritesCovered
<1> QED
  BY <1>1, <1>2, <1>3, <1>5, CompoundCovers

LEMMA MemberCovers ==
  ASSUME Recursion, NEW f, f.type \in AllTypes, ~ WritesEmpty(f), WritesCovered(f.type),
         NEW v, HasTypePart(f.type, v), NEW b
  PROVE  CountCovers(EncodeField(f, v, b))
<1> DEFINE r == RawEncoded(f.type, v)
<1>1. EncodeField(f, v, b) \in {Refusal, r, JsonEncoded(f.type, v, b)}
  BY DEF EncodeField, WritesEmpty
<1>2. CountCovers(r)
  BY RawsCover
<1> QED
  BY <1>1, <1>2, RefusalCovers DEF WritesCovered

LEMMA StructCovers ==
  ASSUME Recursion, NEW t \in AllTypes, t[1] = "struct", PartsCovered(t),
         \A i \in 1 .. Len(t[2]) : ~ WritesEmpty(t[2][i]),
         NEW v, HasType(t, v), NEW b, Measured(JsonEncode(t, v, b).node)
  PROVE  CountCovers(JsonEncode(t, v, b))
<1> DEFINE w == v[2]
           K == {n \in FieldNames(t) : ~ Omits(FieldOf(t, n), w[n])}
           Part(k) == IF ValidField(FieldOf(t, k), w[k]) THEN EncodeField(FieldOf(t, k), w[k], b) ELSE Refusal
           parts == [k \in K |-> Part(k)]
<1>1. JsonEncode(t, v, b) = Compound("object", parts)
  BY DEF JsonEncode, JsonEncodeFields
<1>2. IsFiniteSet(K)
  BY NamesFinite, FS_Subset
<1>3. ASSUME NEW k \in K PROVE CountCovers(Part(k))
  <2> DEFINE f == FieldOf(t, k)
  <2>1. k \in FieldNames(t)
    OBVIOUS
  <2>2. f.type \in AllTypes /\ f.type \in Inside(t)
    BY <2>1, FieldsInside
  <2>3. ~ WritesEmpty(f)
    <3>1. \E i \in 1 .. Len(t[2]) : t[2][i].name = k
      BY <2>1 DEF FieldNames
    <3>2. PICK i \in 1 .. Len(t[2]) : f = t[2][i]
      BY <3>1 DEF FieldOf
    <3> QED
      BY <3>2
  <2>4. HasTypePart(f.type, w[k])
    BY <2>1, PartsOfType
  <2>5. WritesCovered(f.type)
    BY <2>2 DEF PartsCovered
  <2> HIDE DEF f, w
  <2>6. CountCovers(EncodeField(f, w[k], b))
    BY <2>2, <2>3, <2>4, <2>5, MemberCovers
  <2> QED
    BY <2>6, RefusalCovers DEF f
<1>4. DOMAIN parts = K /\ \A k \in K : parts[k] = Part(k)
  OBVIOUS
<1> HIDE DEF parts, K, Part
<1> QED
  BY <1>1, <1>2, <1>3, <1>4, CompoundCovers

\* What is written, of any type that has no members that are not counted.
LEMMA AllCovered ==
  ASSUME Recursion
  PROVE  \A t \in AllTypes : ~ UncountedPart(t) => WritesCovered(t)
<1> DEFINE B == {t \in AllTypes : ~ UncountedPart(t) /\ ~ WritesCovered(t)}
<1>1. ASSUME NEW t \in AllTypes, ~ UncountedPart(t), PartsCovered(t) PROVE WritesCovered(t)
  <2>1. ASSUME NEW v, HasTypePart(t, v), NEW b PROVE CountCovers(JsonEncoded(t, v, b))
    <3>1. HasType(t, v) /\ JsonEncoded(t, v, b) = JsonEncode(t, v, b)
      BY <2>1 DEF Recursion, JudgesParts, WritesParts
    <3>2. Measured(JsonEncode(t, v, b).node)
      BY <3>1 DEF Recursion, MeasuresParts
    <3>3. CASE t[1] \in {"bool", "int", "double", "string", "date"}
      BY <3>1, <3>2, <3>3, ScalarCovers
    <3>4. CASE t[1] = "enum"
      BY <3>1, <3>2, <3>4, EnumCovers
    <3>5. CASE t[1] \in {"raw", "json"}
      <4>1. JsonEncode(t, v, b) = NodeEncoded(v[2]) /\ v[2] \in Jsons
        BY <3>1, <3>5, ScalarOfType DEF JsonEncode
      <4> QED
        BY <3>1, <4>1, JsonsCover
    <3>6. CASE t[1] = "optional"
      <4>1. WritesCovered(t[2])
        BY <1>1, <3>6 DEF PartsCovered, Inside
      <4>2. v # None => HasTypePart(t[2], v[2])
        BY <3>1, <3>6, PartsOfType
      <4>3. JsonEncode(t, v, b) \in {Refusal, One(Null)} \/
              (v # None /\ JsonEncode(t, v, b) = Within(JsonEncoded(t[2], v[2], b)))
        BY <3>6 DEF JsonEncode
      <4>4. Null[1] \notin {"array", "object"}
        BY DEF Null
      <4> QED
        BY <3>1, <3>2, <4>1, <4>2, <4>3, <4>4, OneCovers, WithinCovers, RefusalCovers DEF WritesCovered
    <3>7. CASE t[1] = "inline"
      <4>1. WritesCovered(t[2]) /\ HasTypePart(t[2], v)
        BY <1>1, <3>1, <3>7, PartsOfType DEF PartsCovered, Inside
      <4>2. JsonEncode(t, v, b) = Within(JsonEncoded(t[2], v, b))
        BY <3>7 DEF JsonEncode
      <4> QED
        BY <3>1, <4>1, <4>2, WithinCovers DEF WritesCovered
    <3>8. CASE t[1] = "variant"
      <4>1. HasTypePart(t[2][v[2]], v[3]) /\ v[2] \in 1 .. Len(t[2])
        BY <3>1, <3>8, PartsOfType
      <4>2. t[2][v[2]] \in Inside(t)
        <5>1. t[2] \in Seq(Range(t[2]))
          BY <3>8, TypeInside DEF IsType
        <5>2. t[2][v[2]] \in Range(t[2])
          BY <4>1, <5>1
        <5> QED
          BY <3>8, <5>2 DEF Inside
      <4>3. JsonEncode(t, v, b) = JsonEncoded(t[2][v[2]], v[3], b)
        BY <3>8 DEF JsonEncode
      <4> QED
        BY <1>1, <3>1, <4>1, <4>2, <4>3 DEF WritesCovered, PartsCovered
    <3>9. CASE t[1] \in {"vector", "array", "map"}
      BY <1>1, <3>1, <3>2, <3>9, ContainerCovers
    <3>10. CASE t[1] = "struct"
      <4>1. \A i \in 1 .. Len(t[2]) : ~ WritesEmpty(t[2][i])
        BY <1>1, <3>10 DEF Recursion, MeasuresParts, Uncounted
      <4> QED
        BY <1>1, <3>1, <3>2, <3>10, <4>1, StructCovers
    <3> QED
      BY <3>3, <3>4, <3>5, <3>6, <3>7, <3>8, <3>9, <3>10, TypeNames
  <2> QED
    BY <2>1 DEF WritesCovered
<1>2. ASSUME NEW t \in B PROVE \E u \in Inside(t) : u \in B
  <2>1. t \in AllTypes /\ ~ UncountedPart(t) /\ ~ PartsCovered(t)
    BY <1>1
  <2>2. PICK u \in Inside(t) : ~ WritesCovered(u)
    BY <2>1 DEF PartsCovered
  <2>3. u \in AllTypes
    BY <2>1, TypeInside
  <2>4. ~ UncountedPart(u)
    BY <2>1 DEF Recursion, MeasuresParts, Uncounted
  <2> QED
    BY <2>2, <2>3, <2>4
<1>3. B = {}
  BY <1>2, NoLeastType
<1> QED
  BY <1>3

\* A text that is written as JSON has no more levels and values than its limits say, for
\* all types but those with members that are written as {} and not counted
\* (json.hpp:656-682, 714, 803).
THEOREM TextsWithinLimits ==
  ASSUME Recursion
  PROVE  Spec => []JsonWithinLimits
<1>1. Init => JsonInv
  BY DEF Init, JsonInv, TypeInv, TypeOK
<1>2. JsonInv => JsonWithinLimits
  <2> SUFFICES ASSUME JsonInv, format = "json", ~ ByHand, stage = "written", ~ Uncounted(type)
               PROVE  Levels(document) <= MaxDepth /\ Size(document) <= MaxNodes
    BY DEF JsonWithinLimits
  <2>1. type \in Types /\ value \in Values(type) /\ type \in AllTypes
    BY TypesAssumption DEF JsonInv, TypeInv, TypeOK
  <2>2. HasType(type, value)
    <3>1. value \notin {"written"} \X Int
      BY DEF ByHand
    <3> QED
      BY <2>1, <3>1, ValuesAssumption
  <2>3. PICK t, v, b : t = type /\ v = value /\ b = nulls
    OBVIOUS
  <2>4. PICK r : r = JsonEncode(t, v, b)
    OBVIOUS
  <2>5. /\ document = r.node /\ r.node # Refused
        /\ ~ (r.count > MaxNodes) /\ ~ (r.height > MaxDepth)
    BY <2>3, <2>4 DEF JsonInv, Serialize
  <2>6. t \in AllTypes /\ HasType(t, v) /\ ~ Uncounted(t)
    BY <2>1, <2>2, <2>3
  <2>7. CountCovers(r) /\ Measured(r.node)
    BY <2>4, <2>6, AllCovered DEF WritesCovered, Recursion, WritesParts, JudgesParts, MeasuresParts
  <2>8. /\ r.count \in Nat /\ r.height \in Nat /\ Levels(r.node) \in Nat /\ Size(r.node) \in Nat
        /\ Levels(r.node) <= r.height /\ Size(r.node) <= r.count
    BY <2>5, <2>7 DEF CountCovers, Measured
  <2>9. MaxDepth \in Nat /\ MaxNodes \in Nat
    BY SerializeAssumption
  <2>10. Levels(r.node) <= MaxDepth /\ Size(r.node) <= MaxNodes
    BY <2>5, <2>8, <2>9
  <2> QED
    BY <2>5, <2>10
<1> QED
  BY <1>1, <1>2, JsonKept, PTL DEF Spec
=============================================================================
