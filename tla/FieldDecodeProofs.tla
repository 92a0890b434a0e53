-------------------------- MODULE FieldDecodeProofs --------------------------
(***************************************************************************)
(* decodeFieldsInto() assigns what it should and accepts what it should:   *)
(* proofs for any members, registrations, adapters, inputs and objects,    *)
(* given that the names known at compile time are the names of the fields  *)
(* (NamesRegistered).                                                      *)
(***************************************************************************)
EXTENDS FieldDecodeProps, FiniteSetTheorems, WellFoundedInduction, TLAPS

\* v is the value of the first of n members that has the key, if one has it.
FirstIs(v, key, n) ==
  \/ v = Absent /\ \A j \in 1 .. n : input.members[j].key # key
  \/ \E j \in 1 .. n : /\ input.members[j].key = key /\ v = input.members[j].value
                       /\ \A h \in 1 .. j - 1 : input.members[h].key # key

Typed ==
  /\ TypeOK
  /\ input \in Inputs
  /\ descriptors \in {type.order, type.switched}
  /\ stage = "begin" => index = 1
  /\ stage = "collect" => index <= Len(input.members) + 1

\* What the index holds of each field.
FoundOK ==
  \A i \in 1 .. Count :
    /\ stage = "begin" => found[i] = Absent
    /\ stage = "collect" /\ Selected(i) => FirstIs(found[i], Name(descriptors[i]), index - 1)
    /\ stage = "decode" /\ type.indexed /\ Selected(i) =>
         FirstIs(found[i], Name(descriptors[i]), Len(input.members))

AllKnown ==
  \A i \in 1 .. Len(input.members) :
    \E m \in Members : Wanted(m) /\ Name(m) = input.members[i].key

\* What is known of the verdict so far.
Judged ==
  /\ stage \notin {"begin", "missing", "refused", "unknown"} => input.object
  /\ valid /\ stage \in {"decode", "check", "decoded"} =>
       \A i \in 1 .. Count : i < index /\ Selected(i) => Fits(descriptors[i])
  /\ stage \in {"check", "decoded"} => index > Count
  /\ stage = "check" => strict
  /\ stage = "decoded" /\ valid /\ strict => AllKnown
  /\ valid /\ stage \in {"missing", "refused", "unknown"} => ~ Acceptable

-----------------------------------------------------------------------------
(* The table of the names known at compile time.                           *)

LEMMA LeastPlace ==
  ASSUME NEW T \in SUBSET Nat, T # {}
  PROVE  Min(T) \in T /\ \A y \in T : Min(T) <= y
<1> DEFINE Less == {ss \in Nat \X Nat : ss[1] < ss[2]}
<1>1. IsWellFoundedOn(Less, Nat)
  BY NatLessThanWellFounded DEF OpToRel
<1>2. \A x, y \in Nat : <<y, x>> \in Less <=> y < x
  OBVIOUS
<1> HIDE DEF Less
<1>3. \E x \in T : \A y \in T : ~ (<<y, x>> \in Less)
  BY <1>1, WFMin
<1>4. PICK x \in T : \A y \in T : ~ (<<y, x>> \in Less)
  BY <1>3
<1>5. x \in Nat /\ \A y \in T : y \in Nat /\ ~ (y < x)
  BY <1>2, <1>4
<1>6. \A y \in T : x <= y
  BY <1>5
<1> QED
  BY <1>6 DEF Min

\* f holds the buckets once the first i names are in, for i up to n.
IsFilling(f, names, hash, n, none) ==
  f = [i \in 0 .. n |-> IF i = 0 THEN none ELSE Filled(f[i - 1], names, hash, i)]

\* Such an f is there, however many names.
LEMMA FillingExists ==
  ASSUME NEW names, NEW hash, NEW n \in Nat, NEW none
  PROVE  \E f : IsFilling(f, names, hash, n, none)
<1> DEFINE T == {m \in Nat : ~ \E f : IsFilling(f, names, hash, m, none)}
<1>1. SUFFICES ASSUME T # {} PROVE FALSE
  OBVIOUS
<1>2. PICK m \in T : \A y \in T : m <= y
  BY <1>1, LeastPlace
<1>3. m \in Nat /\ ~ \E f : IsFilling(f, names, hash, m, none)
  OBVIOUS
<1>4. CASE m = 0
  <2> DEFINE f == [i \in 0 .. 0 |-> none]
  <2>1. \A i \in 0 .. 0 : i = 0
    OBVIOUS
  <2>2. IsFilling(f, names, hash, 0, none)
    BY <2>1 DEF IsFilling
  <2> QED
    BY <1>3, <1>4, <2>2
<1>5. CASE m # 0
  <2>1. m - 1 \in Nat /\ m - 1 \notin T
    BY <1>2, <1>3, <1>5
  <2>2. PICK f : IsFilling(f, names, hash, m - 1, none)
    BY <2>1
  <2> DEFINE g == [i \in 0 .. m |-> IF i = m THEN Filled(f[m - 1], names, hash, m) ELSE f[i]]
  <2>3. \A i \in 0 .. m - 1 : g[i] = f[i]
    BY <1>3
  <2>4. \A i \in 0 .. m : g[i] = IF i = 0 THEN none ELSE Filled(g[i - 1], names, hash, i)
    <3> TAKE i \in 0 .. m
    <3>1. CASE i = 0
      BY <1>3, <1>5, <2>1, <2>2, <3>1 DEF IsFilling
    <3>2. CASE i # 0 /\ i = m
      BY <1>3, <2>3, <3>2
    <3>3. CASE i # 0 /\ i # m
      <4>1. i \in 0 .. m - 1 /\ i - 1 \in 0 .. m - 1
        BY <1>3, <3>3
      <4>2. g[i] = f[i] /\ g[i - 1] = f[i - 1]
        BY <2>3, <4>1
      <4>3. f[i] = Filled(f[i - 1], names, hash, i)
        BY <2>2, <3>3, <4>1 DEF IsFilling
      <4> QED
        BY <3>3, <4>2, <4>3
    <3> QED
      BY <3>1, <3>2, <3>3
  <2>5. IsFilling(g, names, hash, m, none)
    BY <2>4 DEF IsFilling
  <2> QED
    BY <1>3, <2>5
<1> QED
  BY <1>4, <1>5

\* The buckets are filled name by name.
LEMMA BucketsBuilt ==
  ASSUME NEW names, NEW hash, Len(names) \in Nat
  PROVE  \E f : /\ f[0] = [b \in 0 .. Capacity(Len(names)) - 1 |-> Empty]
                /\ \A i \in 1 .. Len(names) : f[i] = Filled(f[i - 1], names, hash, i)
                /\ Buckets(names, hash) = f[Len(names)]
<1> DEFINE n == Len(names)
           none == [b \in 0 .. Capacity(n) - 1 |-> Empty]
           after == CHOOSE f : IsFilling(f, names, hash, n, none)
<1>1. Buckets(names, hash) = after[n]
  BY DEF Buckets, IsFilling
<1> HIDE DEF none
<1>2. \E f : IsFilling(f, names, hash, n, none)
  BY FillingExists
<1>3. IsFilling(after, names, hash, n, none)
  BY <1>2
<1> HIDE DEF after
<1>4. after[0] = none
  BY <1>3 DEF IsFilling
<1>5. \A i \in 1 .. n : after[i] = Filled(after[i - 1], names, hash, i)
  BY <1>3 DEF IsFilling
<1> QED
  BY <1>1, <1>4, <1>5 DEF none

\* The first n powers of two.
ArePowers(f, n) == f = [i \in 0 .. n |-> IF i = 0 THEN 1 ELSE 2 * f[i - 1]]

LEMMA PowersExist ==
  ASSUME NEW n \in Nat
  PROVE  \E f : ArePowers(f, n)
<1> DEFINE T == {m \in Nat : ~ \E f : ArePowers(f, m)}
<1>1. SUFFICES ASSUME T # {} PROVE FALSE
  OBVIOUS
<1>2. PICK m \in T : \A y \in T : m <= y
  BY <1>1, LeastPlace
<1>3. m \in Nat /\ ~ \E f : ArePowers(f, m)
  OBVIOUS
<1>4. CASE m = 0
  <2> DEFINE f == [i \in 0 .. 0 |-> 1]
  <2>1. \A i \in 0 .. 0 : i = 0
    OBVIOUS
  <2>2. ArePowers(f, 0)
    BY <2>1 DEF ArePowers
  <2> QED
    BY <1>3, <1>4, <2>2
<1>5. CASE m # 0
  <2>1. m - 1 \in Nat /\ m - 1 \notin T
    BY <1>2, <1>3, <1>5
  <2>2. PICK f : ArePowers(f, m - 1)
    BY <2>1
  <2> DEFINE g == [i \in 0 .. m |-> IF i = m THEN 2 * f[m - 1] ELSE f[i]]
  <2>3. \A i \in 0 .. m - 1 : g[i] = f[i]
    BY <1>3
  <2>4. \A i \in 0 .. m : g[i] = IF i = 0 THEN 1 ELSE 2 * g[i - 1]
    <3> TAKE i \in 0 .. m
    <3>1. CASE i = 0
      BY <1>3, <1>5, <2>1, <2>2, <3>1 DEF ArePowers
    <3>2. CASE i # 0 /\ i = m
      BY <1>3, <2>3, <3>2
    <3>3. CASE i # 0 /\ i # m
      <4>1. i \in 0 .. m - 1 /\ i - 1 \in 0 .. m - 1
        BY <1>3, <3>3
      <4>2. g[i] = f[i] /\ g[i - 1] = f[i - 1]
        BY <2>3, <4>1
      <4>3. f[i] = 2 * f[i - 1]
        BY <2>2, <3>3, <4>1 DEF ArePowers
      <4> QED
        BY <3>3, <4>2, <4>3
    <3> QED
      BY <3>1, <3>2, <3>3
  <2>5. ArePowers(g, m)
    BY <2>4 DEF ArePowers
  <2> QED
    BY <1>3, <2>5
<1> QED
  BY <1>4, <1>5

LEMMA PowersGrow ==
  ASSUME NEW n \in Nat, NEW f, ArePowers(f, n)
  PROVE  \A i \in 0 .. n : f[i] \in Nat /\ i + 1 <= f[i]
<1> DEFINE T == {i \in 0 .. n : ~ (f[i] \in Nat /\ i + 1 <= f[i])}
<1>1. SUFFICES ASSUME T # {} PROVE FALSE
  OBVIOUS
<1>2. T \in SUBSET Nat
  OBVIOUS
<1>3. PICK m \in T : \A y \in T : m <= y
  BY <1>1, <1>2, LeastPlace
<1>4. m \in 0 .. n /\ ~ (f[m] \in Nat /\ m + 1 <= f[m])
  OBVIOUS
<1>5. m # 0
  BY <1>4 DEF ArePowers
<1>6. m - 1 \in 0 .. n /\ m - 1 \notin T
  BY <1>3, <1>4, <1>5
<1>7. f[m] = 2 * f[m - 1]
  BY <1>4, <1>5 DEF ArePowers
<1> QED
  BY <1>4, <1>6, <1>7

\* The table has more than twice as many buckets as there are names.
LEMMA CapacityLarge ==
  ASSUME NEW n \in Nat
  PROVE  Capacity(n) \in Nat /\ 2 * n < Capacity(n)
<1> DEFINE power == CHOOSE f : ArePowers(f, n + 1)
           large == {power[i] : i \in 0 .. n + 1} \ 0 .. 2 * n
<1>1. Capacity(n) = Min(large)
  BY DEF Capacity, ArePowers
<1>2. n + 1 \in Nat
  OBVIOUS
<1>3. ArePowers(power, n + 1)
  BY <1>2, PowersExist
<1> HIDE DEF power
<1>4. \A i \in 0 .. n + 1 : power[i] \in Nat /\ i + 1 <= power[i]
  BY <1>2, <1>3, PowersGrow
<1>5. power[n + 1] = 2 * power[n]
  BY <1>2, <1>3 DEF ArePowers
<1>6. power[n + 1] \in Nat /\ 2 * n < power[n + 1]
  BY <1>4, <1>5
<1>7. large # {} /\ large \in SUBSET Nat
  BY <1>4, <1>6
<1>8. Min(large) \in large
  BY <1>7, LeastPlace
<1> QED
  BY <1>1, <1>7, <1>8

\* A key hashes to a bucket, and from there every bucket is reached.
LEMMA EveryBucketReached ==
  ASSUME NEW hash, NEW key, hash[key] \in Nat, NEW c \in Nat
  PROVE  /\ \A d \in 0 .. c - 1 : Bucket(hash, key, d, c) \in 0 .. c - 1
         /\ \A x \in 0 .. c - 1 : \E d \in 0 .. c - 1 : Bucket(hash, key, d, c) = x
<1> DEFINE h == hash[key]
<1>1. ASSUME NEW d \in 0 .. c - 1
      PROVE  Bucket(hash, key, d, c) \in 0 .. c - 1
  BY <1>1 DEF Bucket
<1>2. ASSUME NEW x \in 0 .. c - 1
      PROVE  \E d \in 0 .. c - 1 : Bucket(hash, key, d, c) = x
  <2> DEFINE q == h \div c
             r == h % c
  <2>1. c \in Nat \ {0} /\ h \in Nat
    BY <1>2
  <2>2. q \in Int /\ r \in 0 .. c - 1 /\ h = c * q + r
    BY <2>1
  <2> HIDE DEF q, r, h
  <2>3. CASE r <= x
    <3>1. x - r \in 0 .. c - 1 /\ h + (x - r) = q * c + x
      BY <2>1, <2>2, <2>3
    <3>2. (q * c + x) % c = x
      BY <2>1, <2>2
    <3> QED
      BY <3>1, <3>2 DEF Bucket, h
  <2>4. CASE x < r
    <3>1. x - r + c \in 0 .. c - 1 /\ h + (x - r + c) = (q + 1) * c + x
      BY <2>1, <2>2, <2>4
    <3>2. ((q + 1) * c + x) % c = x
      BY <2>1, <2>2
    <3> QED
      BY <3>1, <3>2 DEF Bucket, h
  <2> QED
    BY <2>1, <2>2, <2>3, <2>4
<1> QED
  BY <1>1, <1>2

\* From where its key hashes to, place j comes before an empty bucket and before all
\* other places of that key.
Reached(b, names, hash, j) ==
  \E d \in 0 .. Capacity(Len(names)) - 1 :
    /\ b[Bucket(hash, names[j], d, Capacity(Len(names)))] = j
    /\ \A e \in 0 .. d - 1 :
         LET v == b[Bucket(hash, names[j], e, Capacity(Len(names)))]
         IN v # Empty /\ names[v] # names[j]

Taken(b, c) == {x \in 0 .. c - 1 : b[x] # Empty}

\* b are the buckets once the first i names are in.
IsTable(b, names, hash, i) ==
  LET c == Capacity(Len(names))
  IN /\ b \in [0 .. c - 1 -> 0 .. i]
     /\ Cardinality(Taken(b, c)) <= i
     /\ \A j \in 1 .. i : (\A h \in 1 .. j - 1 : names[h] # names[j]) => Reached(b, names, hash, j)

LEMMA IntervalSize ==
  ASSUME NEW c \in Nat
  PROVE  IsFiniteSet(0 .. c - 1) /\ Cardinality(0 .. c - 1) = c
<1>1. 0 \in Int /\ c - 1 \in Int
  OBVIOUS
<1>2. /\ IsFiniteSet(0 .. c - 1)
      /\ Cardinality(0 .. c - 1) = IF 0 > c - 1 THEN 0 ELSE c - 1 - 0 + 1
  BY <1>1, FS_Interval
<1>3. c = IF 0 > c - 1 THEN 0 ELSE c - 1 - 0 + 1
  OBVIOUS
<1> QED
  BY <1>2, <1>3

LEMMA TakenFinite ==
  ASSUME NEW c \in Nat, NEW b
  PROVE  IsFiniteSet(Taken(b, c)) /\ Cardinality(Taken(b, c)) \in Nat
<1>1. IsFiniteSet(0 .. c - 1) /\ Taken(b, c) \in SUBSET (0 .. c - 1)
  BY IntervalSize DEF Taken
<1>2. IsFiniteSet(Taken(b, c))
  BY <1>1, FS_Subset
<1> QED
  BY <1>2, FS_CardinalityType

\* There is room for one more.
LEMMA FreeBucket ==
  ASSUME NEW c \in Nat, NEW b, NEW i \in Nat, i < c, Cardinality(Taken(b, c)) <= i,
         NEW hash, NEW key, hash[key] \in Nat
  PROVE  \E d \in 0 .. c - 1 : b[Bucket(hash, key, d, c)] = Empty
<1>1. Cardinality(0 .. c - 1) = c
  BY IntervalSize
<1>2. Taken(b, c) # 0 .. c - 1
  BY <1>1
<1>3. PICK x \in 0 .. c - 1 : b[x] = Empty
  BY <1>2 DEF Taken
<1>4. PICK d \in 0 .. c - 1 : Bucket(hash, key, d, c) = x
  BY EveryBucketReached
<1> QED
  BY <1>3, <1>4

\* Another name finds its bucket, and the others are still found.
LEMMA TableFilled ==
  ASSUME NEW names \in Seq(Keys), NEW hash \in [Keys -> Nat], NEW i \in 1 .. Len(names),
         NEW b, IsTable(b, names, hash, i - 1)
  PROVE  IsTable(Filled(b, names, hash, i), names, hash, i)
<1> DEFINE n == Len(names)
           c == Capacity(n)
           key == names[i]
           At(d) == Bucket(hash, key, d, c)
           free == {d \in 0 .. c - 1 : b[At(d)] = Empty}
           x == At(Min(free))
           u == Filled(b, names, hash, i)
<1>1. n \in Nat /\ c \in Nat /\ 2 * n < c
  BY CapacityLarge
<1>2. \A j \in 1 .. n : names[j] \in Keys /\ hash[names[j]] \in Nat
  BY <1>1
<1>3. /\ b \in [0 .. c - 1 -> 0 .. i - 1]
      /\ Cardinality(Taken(b, c)) <= i - 1
      /\ \A j \in 1 .. i - 1 : (\A h \in 1 .. j - 1 : names[h] # names[j]) => Reached(b, names, hash, j)
  BY DEF IsTable
<1>4. u = IF IsFirst(names, i) THEN [b EXCEPT ![x] = i] ELSE b
  BY DEF Filled
<1>5. SUFFICES /\ u \in [0 .. c - 1 -> 0 .. i]
               /\ Cardinality(Taken(u, c)) <= i
               /\ \A j \in 1 .. i : (\A h \in 1 .. j - 1 : names[h] # names[j]) => Reached(u, names, hash, j)
  BY DEF IsTable
<1>6. CASE ~ IsFirst(names, i)
  <2>1. u = b
    BY <1>4, <1>6
  <2>2. i - 1 \in 1 .. i - 1 /\ names[i - 1] = names[i]
    BY <1>6 DEF IsFirst
  <2>3. \A j \in 1 .. i : (\A h \in 1 .. j - 1 : names[h] # names[j]) => j \in 1 .. i - 1
    BY <2>2
  <2>4. u \in [0 .. c - 1 -> 0 .. i]
    BY <1>3, <2>1
  <2>5. Cardinality(Taken(b, c)) \in Nat
    BY <1>1, TakenFinite
  <2>6. Cardinality(Taken(u, c)) <= i
    BY <1>3, <2>1, <2>5
  <2> QED
    BY <1>3, <2>1, <2>3, <2>4, <2>6
<1>7. CASE IsFirst(names, i)
  <2>1. u = [b EXCEPT ![x] = i]
    BY <1>4, <1>7
  <2>2. free # {}
    <3>1. i - 1 \in Nat /\ i - 1 < c /\ hash[key] \in Nat
      BY <1>1, <1>2
    <3>2. \E d \in 0 .. c - 1 : b[Bucket(hash, key, d, c)] = Empty
      BY <1>1, <1>3, <3>1, FreeBucket
    <3> QED
      BY <3>2
  <2>3. free \in SUBSET Nat
    BY <1>1
  <2>4. Min(free) \in free /\ \A d \in free : Min(free) <= d
    BY <2>2, <2>3, LeastPlace
  <2>5. x \in 0 .. c - 1 /\ b[x] = Empty
    BY <1>1, <1>2, <2>4, EveryBucketReached
  <2>6. \A y \in 0 .. c - 1 : u[y] = IF y = x THEN i ELSE b[y]
    BY <1>3, <2>1
  <2>7. u \in [0 .. c - 1 -> 0 .. i]
    <3>1. i \in 0 .. i /\ 0 .. i - 1 \subseteq 0 .. i
      BY <1>1
    <3> QED
      BY <1>3, <2>1, <3>1
  <2>8. Cardinality(Taken(u, c)) <= i
    <3>1. Taken(u, c) = Taken(b, c) \cup {x}
      <4>1. i # Empty
        BY <1>1 DEF Empty
      <4> HIDE DEF u, x
      <4> QED
        BY <2>5, <2>6, <4>1 DEF Taken
    <3>2. IsFiniteSet(Taken(b, c)) /\ Cardinality(Taken(b, c)) \in Nat
      BY <1>1, TakenFinite
    <3>3. Cardinality(Taken(b, c) \cup {x}) =
            IF x \in Taken(b, c) THEN Cardinality(Taken(b, c)) ELSE Cardinality(Taken(b, c)) + 1
      BY <3>2, FS_AddElement
    <3>4. Cardinality(Taken(u, c)) <= Cardinality(Taken(b, c)) + 1
      BY <3>1, <3>2, <3>3
    <3>5. Cardinality(Taken(u, c)) \in Nat
      BY <1>1, TakenFinite
    <3> QED
      BY <1>1, <1>3, <3>2, <3>4, <3>5
  <2> HIDE DEF u, x, free
  <2>9. ASSUME NEW j \in 1 .. i - 1, Reached(b, names, hash, j)
        PROVE  Reached(u, names, hash, j)
    <3> DEFINE To(d) == Bucket(hash, names[j], d, c)
    <3>1. PICK d \in 0 .. c - 1 :
            /\ b[To(d)] = j
            /\ \A e \in 0 .. d - 1 : b[To(e)] # Empty /\ names[b[To(e)]] # names[j]
      BY <2>9 DEF Reached
    <3>2. \A e \in 0 .. c - 1 : To(e) \in 0 .. c - 1
      <4>1. hash[names[j]] \in Nat
        BY <1>1, <1>2
      <4> QED
        BY <1>1, <4>1, EveryBucketReached
    <3>3. \A e \in 0 .. c - 1 : b[To(e)] # Empty => u[To(e)] = b[To(e)]
      BY <2>5, <2>6, <3>2
    <3>4. u[To(d)] = j
      BY <3>1, <3>3 DEF Empty
    <3>5. \A e \in 0 .. d - 1 : e \in 0 .. c - 1
      BY <1>1
    <3>6. \A e \in 0 .. d - 1 : u[To(e)] # Empty /\ names[u[To(e)]] # names[j]
      BY <3>1, <3>3, <3>5
    <3> QED
      BY <3>4, <3>6 DEF Reached
  <2>10. ASSUME \A h \in 1 .. i - 1 : names[h] # names[i]
         PROVE  Reached(u, names, hash, i)
    <3> DEFINE d == Min(free)
    <3>1. d \in 0 .. c - 1 /\ u[At(d)] = i
      BY <2>4, <2>5, <2>6 DEF free, x
    <3>2. ASSUME NEW e \in 0 .. d - 1
          PROVE  u[At(e)] # Empty /\ names[u[At(e)]] # names[i]
      <4>1. e \in 0 .. c - 1 /\ ~ (d <= e)
        BY <1>1, <3>1
      <4>2. b[At(e)] # Empty
        BY <2>4, <4>1 DEF free
      <4>3. At(e) \in 0 .. c - 1
        BY <1>1, <1>2, <4>1, EveryBucketReached
      <4>4. u[At(e)] = b[At(e)] /\ b[At(e)] \in 1 .. i - 1
        BY <1>3, <2>5, <2>6, <4>2, <4>3 DEF Empty
      <4> QED
        BY <2>10, <4>2, <4>4
    <3> QED
      BY <3>1, <3>2 DEF Reached
  <2>11. \A j \in 1 .. i : j = i \/ j \in 1 .. i - 1
    OBVIOUS
  <2> QED
    BY <1>3, <2>7, <2>8, <2>9, <2>10, <2>11
<1> QED
  BY <1>6, <1>7

\* StaticFieldLookup(names) is a table of all names.
LEMMA BucketsTable ==
  ASSUME NEW names \in Seq(Keys), NEW hash \in [Keys -> Nat]
  PROVE  IsTable(Buckets(names, hash), names, hash, Len(names))
<1> DEFINE n == Len(names)
           c == Capacity(n)
<1>1. n \in Nat /\ c \in Nat
  BY CapacityLarge
<1>2. PICK f : /\ f[0] = [x \in 0 .. c - 1 |-> Empty]
               /\ \A i \in 1 .. n : f[i] = Filled(f[i - 1], names, hash, i)
               /\ Buckets(names, hash) = f[n]
  BY <1>1, BucketsBuilt
<1> DEFINE T == {i \in 0 .. n : ~ IsTable(f[i], names, hash, i)}
<1>3. IsTable(f[0], names, hash, 0)
  <2>1. f[0] \in [0 .. c - 1 -> 0 .. 0]
    BY <1>2 DEF Empty
  <2>2. Taken(f[0], c) = {}
    BY <1>2 DEF Taken
  <2>3. Cardinality(Taken(f[0], c)) <= 0
    BY <2>2, FS_EmptySet
  <2> QED
    BY <2>1, <2>3 DEF IsTable
<1>4. ASSUME T # {} PROVE FALSE
  <2>1. T \in SUBSET Nat
    BY <1>1
  <2>2. PICK i \in T : \A y \in T : i <= y
    BY <1>4, <2>1, LeastPlace
  <2>3. i \in 1 .. n /\ ~ IsTable(f[i], names, hash, i)
    BY <1>1, <1>3
  <2>4. i - 1 \in 0 .. n /\ i - 1 \notin T
    BY <1>1, <2>2, <2>3
  <2>5. IsTable(f[i - 1], names, hash, i - 1)
    BY <2>4
  <2> QED
    BY <1>2, <2>3, <2>5, TableFilled
<1> QED
  BY <1>1, <1>2, <1>4

\* find() finds the first place of a key, or the place after the last.
LEMMA FindsFirst ==
  ASSUME NEW names \in Seq(Keys), NEW hash \in [Keys -> Nat], NEW key \in Keys
  PROVE  LET first == Find(Buckets(names, hash), names, hash, key)
         IN /\ first \in 1 .. Len(names) + 1
            /\ first <= Len(names) => names[first] = key
            /\ \A j \in 1 .. Len(names) : names[j] = key => first <= j
<1> DEFINE n == Len(names)
           c == Capacity(n)
           b == Buckets(names, hash)
           To(d) == Bucket(hash, key, d, c)
           ends == {d \in 0 .. c - 1 : b[To(d)] = Empty \/ names[b[To(d)]] = key}
           last == b[To(Min(ends))]
           first == Find(b, names, hash, key)
<1>1. n \in Nat /\ c \in Nat /\ hash[key] \in Nat
  BY CapacityLarge
<1>2. first = IF ends = {} \/ last = Empty THEN n + 1 ELSE last
  BY DEF Find
<1>3. /\ b \in [0 .. c - 1 -> 0 .. n]
      /\ \A j \in 1 .. n : (\A h \in 1 .. j - 1 : names[h] # names[j]) => Reached(b, names, hash, j)
  BY BucketsTable DEF IsTable
<1>4. \A d \in 0 .. c - 1 : To(d) \in 0 .. c - 1
  BY <1>1, EveryBucketReached
<1> HIDE DEF b, first
<1>5. ends # {} => Min(ends) \in ends /\ \A d \in ends : Min(ends) <= d
  <2>1. ends \in SUBSET Nat
    BY <1>1
  <2> QED
    BY <2>1, LeastPlace
<1>6. ends # {} => last \in 0 .. n /\ (last = Empty \/ names[last] = key)
  BY <1>3, <1>4, <1>5
<1>7. first \in 1 .. n + 1 /\ (first <= n => names[first] = key)
  <2>1. CASE ends = {} \/ last = Empty
    BY <1>1, <1>2, <2>1
  <2>2. CASE ends # {} /\ last # Empty
    <3>1. first = last /\ last \in 1 .. n /\ names[last] = key
      BY <1>1, <1>2, <1>6, <2>2 DEF Empty
    <3> QED
      BY <1>1, <3>1
  <2> QED
    BY <2>1, <2>2
<1>8. ASSUME NEW j \in 1 .. n, names[j] = key PROVE first <= j
  <2> DEFINE places == {i \in 1 .. n : names[i] = key}
             i == Min(places)
  <2>1. places # {} /\ places \in SUBSET Nat
    BY <1>1, <1>8
  <2>2. i \in places /\ \A h \in places : i <= h
    BY <2>1, LeastPlace
  <2> HIDE DEF i
  <2>3. i \in 1 .. n /\ names[i] = key /\ i <= j
    BY <1>8, <2>2
  <2>4. \A h \in 1 .. i - 1 : names[h] # names[i]
    <3>1. \A h \in 1 .. i - 1 : h \in 1 .. n /\ ~ (i <= h)
      BY <1>1, <2>3
    <3> QED
      BY <2>2, <2>3, <3>1
  <2>5. PICK d \in 0 .. c - 1 :
          /\ b[To(d)] = i
          /\ \A e \in 0 .. d - 1 : b[To(e)] # Empty /\ names[b[To(e)]] # key
    BY <1>3, <2>3, <2>4 DEF Reached
  <2>6. d \in ends
    BY <2>3, <2>5
  <2>7. \A e \in ends : ~ (e \in 0 .. d - 1)
    BY <2>5
  <2>8. Min(ends) \in 0 .. c - 1 /\ Min(ends) <= d /\ ~ (Min(ends) \in 0 .. d - 1)
    BY <1>5, <2>6, <2>7
  <2>9. Min(ends) = d
    BY <1>1, <2>8
  <2>10. last = i /\ i # Empty
    BY <1>1, <2>3, <2>5, <2>9 DEF Empty
  <2> QED
    BY <1>2, <2>3, <2>6, <2>10
<1> QED
  BY <1>7, <1>8 DEF first, b

-----------------------------------------------------------------------------
(* Sorting.                                                                *)

\* At each place there is one, each is at some place, and they are in order.
LEMMA SortingPermutes ==
  ASSUME NEW names \in [1 .. Count -> Keys]
  PROVE  /\ Count \in Nat
         /\ Sorted(names) \in [1 .. Count -> 1 .. Count]
         /\ \A i \in 1 .. Count : \E j \in 1 .. Count : Sorted(names)[j] = i
         /\ \A i, j \in 1 .. Count :
              i < j => Rank[SortedNames(names)[i]] <= Rank[SortedNames(names)[j]]
<1> DEFINE N == 1 .. Count
           Below(i) == {j \in N : Precedes(names, j, i)}
           Size(i) == Cardinality(Below(i))
           at == [i \in N |-> Size(i) + 1]
<1>1. Count \in Nat
  BY FieldsAssumption, FS_CardinalityType DEF Count
<1>2. IsFiniteSet(N) /\ Cardinality(N) = Count
  <2>1. 1 \in Int /\ Count \in Int
    BY <1>1
  <2>2. IsFiniteSet(N) /\ Cardinality(N) = IF 1 > Count THEN 0 ELSE Count - 1 + 1
    BY <2>1, FS_Interval
  <2> QED
    BY <1>1, <2>2
<1>3. \A i \in N : Rank[names[i]] \in Nat
  BY FieldsAssumption
<1>4. \A i \in N : IsFiniteSet(Below(i)) /\ Size(i) \in Nat
  <2>1. \A i \in N : Below(i) \in SUBSET N
    OBVIOUS
  <2>2. \A i \in N : IsFiniteSet(Below(i))
    BY <1>2, <2>1, FS_Subset
  <2> QED
    BY <2>2, FS_CardinalityType
<1>5. \A i \in N : Size(i) \in Nat
  BY <1>4
<1>6. ASSUME NEW i \in N, NEW j \in N, Precedes(names, i, j)
      PROVE  Size(i) < Size(j)
  <2>1. i \notin Below(i)
    BY <1>1, <1>3 DEF Precedes
  <2>2. Below(i) \cup {i} \subseteq Below(j)
    <3>1. ASSUME NEW h \in N, Precedes(names, h, i) PROVE Precedes(names, h, j)
      BY <1>1, <1>3, <1>6, <3>1 DEF Precedes
    <3> QED
      BY <1>6, <3>1
  <2>3. Cardinality(Below(i) \cup {i}) = Size(i) + 1
    BY <1>4, <2>1, FS_AddElement
  <2>4. Cardinality(Below(i) \cup {i}) <= Size(j)
    BY <1>4, <2>2, FS_Subset
  <2>5. Size(i) \in Nat /\ Size(j) \in Nat
    BY <1>5
  <2> HIDE DEF Size
  <2> QED
    BY <2>3, <2>4, <2>5
<1>7. \A i, j \in N : i = j \/ Precedes(names, i, j) \/ Precedes(names, j, i)
  BY <1>1, <1>3 DEF Precedes
<1> HIDE DEF Size
<1>8. \A i, j \in N : Size(i) = Size(j) => i = j
  <2> SUFFICES ASSUME NEW i \in N, NEW j \in N, Size(i) = Size(j), i # j
               PROVE  FALSE
    OBVIOUS
  <2>1. Size(i) < Size(j) \/ Size(j) < Size(i)
    BY <1>6, <1>7
  <2> QED
    BY <1>5, <2>1
<1>9. \A i \in N : Size(i) + 1 \in N
  <2> TAKE i \in N
  <2>1. Below(i) \in SUBSET N /\ i \notin Below(i)
    BY <1>1, <1>3 DEF Precedes
  <2>2. Size(i) <= Cardinality(N) /\ (Cardinality(N) = Size(i) => N = Below(i))
    BY <1>2, <2>1, FS_Subset DEF Size
  <2>3. Size(i) <= Count /\ Size(i) # Count
    BY <1>2, <2>1, <2>2 DEF Size
  <2>4. Size(i) \in Nat
    BY <1>5
  <2> QED
    BY <1>1, <2>3, <2>4
<1>10. at \in Injection(N, N)
  <2>1. at \in [N -> N]
    BY <1>9
  <2>2. \A i, j \in N : at[i] = at[j] => i = j
    BY <1>5, <1>8
  <2> QED
    BY <2>1, <2>2 DEF Injection, IsInjective
<1>11. at \in Surjection(N, N)
  BY <1>2, <1>10, FS_Injection
<1>12. \A p \in N : \E i \in N : at[i] = p
  BY <1>11 DEF Surjection
<1>13. \A p \in N : \E i \in N : Size(i) = p - 1
  <2> TAKE p \in N
  <2>1. PICK i \in N : at[i] = p
    BY <1>12
  <2>2. Size(i) + 1 = p /\ Size(i) \in Nat /\ p \in Nat
    BY <1>1, <1>5, <2>1
  <2>3. Size(i) = p - 1
    BY <2>2
  <2> QED
    BY <2>3
<1>14. Sorted(names) = [p \in N |-> CHOOSE i \in N : Size(i) = p - 1]
  BY DEF Sorted, Size
<1>15. \A p \in N : Sorted(names)[p] \in N /\ Size(Sorted(names)[p]) = p - 1
  BY <1>13, <1>14
<1>16. Sorted(names) \in [N -> N]
  BY <1>14, <1>15
<1>17. ASSUME NEW i \in N PROVE \E p \in N : Sorted(names)[p] = i
  <2> DEFINE p == Size(i) + 1
  <2>1. p \in N /\ p - 1 = Size(i)
    BY <1>5, <1>9
  <2>2. Size(Sorted(names)[p]) = Size(i) /\ Sorted(names)[p] \in N
    BY <1>15, <2>1
  <2> QED
    BY <1>8, <2>1, <2>2
<1>18. ASSUME NEW i \in N, NEW j \in N, i < j
       PROVE  Rank[SortedNames(names)[i]] <= Rank[SortedNames(names)[j]]
  <2> DEFINE a == Sorted(names)[i]
             z == Sorted(names)[j]
  <2>1. a \in N /\ z \in N /\ Size(a) = i - 1 /\ Size(z) = j - 1
    BY <1>15
  <2>2. SortedNames(names)[i] = names[a] /\ SortedNames(names)[j] = names[z]
    BY DEF SortedNames
  <2> HIDE DEF a, z
  <2>3. Rank[names[z]] < Rank[names[a]] => Size(z) < Size(a)
    BY <1>6, <2>1 DEF Precedes
  <2>4. ~ (Size(z) < Size(a))
    BY <1>1, <1>18, <2>1
  <2> QED
    BY <1>3, <2>1, <2>2, <2>3, <2>4
<1> QED
  BY <1>1, <1>16, <1>17, <1>18

\* indexedFieldNames() sorts, and StaticFieldLookup finds the first place of a name
\* (json.hpp:1267-1319).
THEOREM Finding == IndexesFind
<1>1. ASSUME NEW t \in Types, t.static, NEW key \in Keys
      PROVE  LET sorted == SortedNames(t.staticNames)
                 first == Find(StaticFieldLookups[t], sorted, t.hash, key)
             IN /\ first \in 1 .. Count + 1
                /\ first <= Count => sorted[first] = key
                /\ \A j \in 1 .. Count : sorted[j] = key => first <= j
  <2> DEFINE names == t.staticNames
             sorted == SortedNames(names)
             first == Find(StaticFieldLookups[t], sorted, t.hash, key)
  <2>1. names \in Seq(Keys) /\ Len(names) = Count /\ t.hash \in [Keys -> Nat]
    BY <1>1, FieldsAssumption DEF Type, Count
  <2>2. names \in [1 .. Count -> Keys]
    BY <2>1
  <2>3. Count \in Nat /\ Sorted(names) \in [1 .. Count -> 1 .. Count]
    BY <2>2, SortingPermutes
  <2>4. sorted = [i \in 1 .. Count |-> names[Sorted(names)[i]]]
    BY DEF SortedNames
  <2>5. sorted \in [1 .. Count -> Keys]
    BY <2>2, <2>3, <2>4
  <2>6. sorted \in Seq(Keys) /\ Len(sorted) = Count
    BY <2>3, <2>5
  <2>7. StaticFieldLookups[t] = Buckets(sorted, t.hash)
    BY <1>1 DEF StaticFieldLookups
  <2> HIDE DEF sorted
  <2>8. /\ first \in 1 .. Count + 1
        /\ first <= Count => sorted[first] = key
        /\ \A j \in 1 .. Count : sorted[j] = key => first <= j
    BY <2>1, <2>6, <2>7, FindsFirst
  <2> QED
    BY <2>3, <2>8 DEF sorted
<1> QED
  BY <1>1, SortingPermutes DEF IndexesFind

-----------------------------------------------------------------------------
(* Fields and members.                                                     *)

\* An order of the fields has every member once.
LEMMA OrderComplete ==
  ASSUME NEW d \in Order
  PROVE  /\ Count \in Nat
         /\ \A i \in 1 .. Count : d[i] \in Members
         /\ \A i, j \in 1 .. Count : d[i] = d[j] => i = j
         /\ \A m \in Members : \E i \in 1 .. Count : d[i] = m
<1>1. IsFiniteSet(Members) /\ Count \in Nat
  BY FieldsAssumption, FS_CardinalityType DEF Count
<1>2. d \in [1 .. Count -> Members] /\ \A i, j \in 1 .. Count : d[i] = d[j] => i = j
  BY DEF Order, Count, IsInjective
<1>3. d \in Injection(1 .. Count, Members)
  BY <1>2 DEF Injection, IsInjective
<1>4. Cardinality(1 .. Count) = Cardinality(Members)
  BY <1>1, FS_Interval DEF Count
<1>5. d \in Surjection(1 .. Count, Members)
  BY <1>1, <1>3, <1>4, FS_Injection
<1>6. \A m \in Members : \E i \in 1 .. Count : d[i] = m
  BY <1>5 DEF Surjection
<1> QED
  BY <1>1, <1>2, <1>6

LEMMA TypeFields ==
  ASSUME type \in Types
  PROVE  /\ type.optional \in SUBSET Members /\ type.names \in [Members -> Keys]
         /\ type.order \in Order /\ type.switched \in Order
         /\ type.static \in BOOLEAN /\ type.indexed \in BOOLEAN
  BY FieldsAssumption DEF Type

LEMMA InputMembers ==
  ASSUME input \in Inputs
  PROVE  /\ Len(input.members) \in Nat
         /\ \A j \in 1 .. Len(input.members) :
              /\ input.members[j].key \in Keys /\ input.members[j].value \in Value
              /\ input.members[j].value # Absent
<1>1. input.members \in Seq(Member)
  BY FieldsAssumption
<1>2. \A j \in 1 .. Len(input.members) : input.members[j] \in Member
  BY <1>1
<1> QED
  BY <1>1, <1>2 DEF Member, Value, Absent

\* at() finds the first member of a key.
LEMMA FirstFound ==
  ASSUME input \in Inputs, NEW key
  PROVE  FirstIs(FirstValue(key), key, Len(input.members))
<1> DEFINE places == {i \in 1 .. Len(input.members) : input.members[i].key = key}
<1>1. Len(input.members) \in Nat
  BY InputMembers
<1>2. FirstValue(key) = IF places = {} THEN Absent ELSE input.members[Min(places)].value
  BY DEF FirstValue
<1>3. CASE places = {}
  <2>1. \A j \in 1 .. Len(input.members) : input.members[j].key # key
    BY <1>3
  <2> QED
    BY <1>2, <1>3, <2>1 DEF FirstIs
<1>4. CASE places # {}
  <2>1. places \in SUBSET Nat
    OBVIOUS
  <2>2. Min(places) \in places /\ \A y \in places : Min(places) <= y
    BY <1>4, <2>1, LeastPlace
  <2> DEFINE j == Min(places)
  <2>3. j \in 1 .. Len(input.members) /\ input.members[j].key = key
    BY <2>2
  <2>4. \A h \in 1 .. j - 1 : input.members[h].key # key
    <3> SUFFICES ASSUME NEW h \in 1 .. j - 1, input.members[h].key = key PROVE FALSE
      OBVIOUS
    <3>1. h \in 1 .. Len(input.members) /\ h < j
      BY <1>1, <2>3
    <3>2. h \in places
      BY <3>1
    <3>3. j <= h
      BY <2>2, <3>2
    <3> QED
      BY <2>3, <3>1, <3>3
  <2>5. FirstValue(key) = input.members[j].value
    BY <1>2, <1>4
  <2> HIDE DEF j
  <2> QED
    BY <2>3, <2>4, <2>5 DEF FirstIs
<1> QED
  BY <1>3, <1>4

LEMMA FirstOnly ==
  ASSUME input \in Inputs, NEW key, NEW v, FirstIs(v, key, Len(input.members))
  PROVE  v = FirstValue(key)
<1> DEFINE n == Len(input.members)
<1>1. FirstIs(FirstValue(key), key, n) /\ n \in Nat
  BY FirstFound, InputMembers
<1> HIDE DEF n
<1>2. FirstIs(v, key, n)
  BY DEF n
<1>3. ASSUME NEW i \in 1 .. n, NEW j \in 1 .. n,
             input.members[i].key = key, \A h \in 1 .. i - 1 : input.members[h].key # key,
             input.members[j].key = key, \A h \in 1 .. j - 1 : input.members[h].key # key
      PROVE  i = j
  <2>1. ~ (i < j) /\ ~ (j < i)
    BY <1>3
  <2> QED
    BY <2>1
<1> QED
  BY <1>1, <1>2, <1>3 DEF FirstIs

LEMMA FirstValues ==
  ASSUME input \in Inputs, NEW key
  PROVE  FirstValue(key) \in Value \cup {Absent}
  BY FirstFound, InputMembers DEF FirstIs

\* One member more, as the index meets it.
LEMMA FirstOfMore ==
  ASSUME input \in Inputs, NEW key, NEW n \in 1 .. Len(input.members), NEW i, 
         FirstIs(found[i], key, n - 1)
  PROVE  FirstIs(IF input.members[n].key = key THEN Collected(i, input.members[n]) ELSE found[i],
                 key, n)
<1>1. n \in Nat /\ n - 1 \in Nat /\ \A j \in 1 .. n : j \in 1 .. n - 1 \/ j = n
  BY InputMembers
<1>2. \A j \in 1 .. n - 1 : j \in 1 .. n /\ input.members[j].value # Absent
  <2>1. \A j \in 1 .. n - 1 : j \in 1 .. n /\ j \in 1 .. Len(input.members)
    BY InputMembers
  <2> QED
    BY <2>1, InputMembers
<1>3. CASE found[i] = Absent
  <2>1. \A j \in 1 .. n - 1 : input.members[j].key # key
    BY <1>2, <1>3 DEF FirstIs
  <2>2. CASE input.members[n].key = key
    <3>1. Collected(i, input.members[n]) = input.members[n].value
      BY <1>3 DEF Collected
    <3>2. n \in 1 .. n
      BY <1>1
    <3> QED
      BY <2>1, <2>2, <3>1, <3>2 DEF FirstIs
  <2>3. CASE input.members[n].key # key
    BY <1>1, <1>3, <2>1, <2>3 DEF FirstIs
  <2> QED
    BY <2>2, <2>3
<1>4. CASE found[i] # Absent
  <2>1. PICK j \in 1 .. n - 1 :
          /\ input.members[j].key = key /\ found[i] = input.members[j].value
          /\ \A h \in 1 .. j - 1 : input.members[h].key # key
    BY <1>4 DEF FirstIs
  <2>2. Collected(i, input.members[n]) = found[i]
    BY <1>4 DEF Collected
  <2> QED
    BY <1>2, <2>1, <2>2 DEF FirstIs
<1> QED
  BY <1>3, <1>4

-----------------------------------------------------------------------------
(* The types.                                                              *)

LEMMA TypedFields ==
  ASSUME Typed
  PROVE  /\ type \in Types /\ input \in Inputs /\ output \in Object /\ Holds(output)
         /\ descriptors \in Order /\ Fields(output) \in {type.order, type.switched}
         /\ Fields(output) \in Order /\ Count \in Nat /\ Len(input.members) \in Nat
         /\ index \in Nat \ {0}
<1>1. type \in Types /\ input \in Inputs /\ output \in Object /\ descriptors \in Order /\ Holds(output)
  BY DEF Typed, TypeOK
<1>2. Fields(output) \in {type.order, type.switched} /\ Fields(output) \in Order
  BY <1>1, TypeFields DEF Fields
<1>3. Count \in Nat /\ Len(input.members) \in Nat
  BY <1>1, OrderComplete, InputMembers
<1>4. index \in Nat \ {0}
  BY <1>3 DEF Typed, TypeOK
<1> QED
  BY <1>1, <1>2, <1>3, <1>4

LEMMA AllWanted ==
  ASSUME Typed
  PROVE  /\ wanted.all => wanted.members = Members
         /\ wanted.members \subseteq Members
<1>1. wanted \in Selection
  BY DEF Typed, TypeOK
<1>2. CASE wanted = [all |-> TRUE, members |-> Members]
  BY <1>2
<1>3. CASE wanted \in [all : {FALSE}, members : SUBSET Members]
  <2>1. wanted.all = FALSE /\ wanted.members \in SUBSET Members
    BY <1>3
  <2> QED
    BY <2>1
<1> QED
  BY <1>1, <1>2, <1>3 DEF Selection

\* The field whose turn it is.
LEMMA TurnField ==
  ASSUME Typed, NEW m \in Members, Turn(m)
  PROVE  /\ index \in 1 .. Count /\ descriptors[index] = m
         /\ Selected(index) <=> Wanted(m)
<1>1. index \in 1 .. Count
  BY TypedFields DEF Turn
<1>2. descriptors[index] = m
  BY DEF Turn
<1> QED
  BY <1>1, <1>2, AllWanted DEF Selected, Wanted

LEMMA SelectedWanted ==
  ASSUME Typed, NEW i \in 1 .. Count
  PROVE  Selected(i) <=> Wanted(descriptors[i])
<1>1. descriptors[i] \in Members
  BY TypedFields, OrderComplete
<1> QED
  BY <1>1, AllWanted DEF Selected, Wanted

LEMMA FieldJsonTyped ==
  ASSUME Typed, NEW i \in 1 .. Count
  PROVE  FieldJson(i) \in Value \cup {Absent}
<1>1. found[i] \in Value \cup {Absent}
  BY DEF Typed, TypeOK
<1>2. FirstValue(Name(descriptors[i])) \in Value \cup {Absent}
  BY TypedFields, FirstValues
<1> QED
  BY <1>1, <1>2 DEF FieldJson

\* What stays in every step.
SettingsStay == /\ type' = type /\ input' = input /\ onThread' = onThread /\ strict' = strict
                /\ wanted' = wanted /\ initial' = initial

LEMMA Initially == Init => Typed /\ FoundOK /\ OutputExact /\ Judged
<1> SUFFICES ASSUME Init PROVE Typed /\ FoundOK /\ OutputExact /\ Judged
  OBVIOUS
<1>1. /\ type \in Types /\ input \in Inputs /\ wanted \in Selection
      /\ initial \in Object /\ Holds(initial) /\ output = initial
      /\ descriptors = type.order /\ stage = "begin" /\ index = 1 /\ valid = TRUE
      /\ found = [i \in 1 .. Count |-> Absent] /\ onThread \in BOOLEAN /\ strict \in BOOLEAN
  BY FieldsAssumption DEF Init
<1>2. descriptors \in Order
  BY <1>1, TypeFields
<1>3. Count \in Nat /\ Len(input.members) \in Nat
  BY <1>1, <1>2, OrderComplete, InputMembers
<1>4. index \in 1 .. Count + Len(input.members) + 1
  BY <1>1, <1>3
<1>5. stage \in Stages
  BY <1>1 DEF Stages
<1>6. Typed
  BY <1>1, <1>2, <1>4, <1>5 DEF Typed, TypeOK
<1>7. FoundOK
  BY <1>1 DEF FoundOK
<1>8. OutputExact
  BY <1>1 DEF OutputExact, Passed
<1>9. Judged
  BY <1>1 DEF Judged
<1> QED
  BY <1>6, <1>7, <1>8, <1>9

\* A step that goes to another stage, the object as it was.
LEMMA StageTyped ==
  ASSUME Typed, SettingsStay, stage' \in Stages \ {"begin", "collect"},
         UNCHANGED <<output, descriptors, found>>, valid' \in BOOLEAN,
         index' \in 1 .. Count + Len(input.members) + 1
  PROVE  Typed'
<1>1. TypeOK'
  BY DEF Typed, TypeOK, SettingsStay, Holds
<1> QED
  BY <1>1 DEF Typed, SettingsStay

LEMMA FailTyped ==
  ASSUME Typed, NEW verdict \in {"decoded", "missing", "refused", "unknown"}, Fail(verdict)
  PROVE  Typed' /\ SettingsStay
<1>1. SettingsStay /\ stage' = verdict /\ UNCHANGED <<output, descriptors, index, found, valid>>
  BY DEF Fail, SettingsStay, settings
<1>2. index' \in 1 .. Count + Len(input.members) + 1 /\ valid' \in BOOLEAN
  BY <1>1 DEF Typed, TypeOK
<1>3. stage' \in Stages \ {"begin", "collect"}
  BY <1>1 DEF Stages
<1> QED
  BY <1>1, <1>2, <1>3, StageTyped

LEMMA NextFieldTyped ==
  ASSUME Typed, NEW m \in Members, Turn(m), NextField, valid' \in BOOLEAN,
         output' \in Object, Holds(output)'
  PROVE  Typed' /\ SettingsStay
<1>1. /\ SettingsStay /\ index' = index + 1 /\ descriptors' = descriptors /\ stage' = stage
      /\ found' = found
  BY DEF NextField, SettingsStay, settings
<1>2. index \in 1 .. Count /\ Count \in Nat /\ Len(input.members) \in Nat /\ stage = "decode"
  BY TurnField, TypedFields DEF Turn
<1>3. index' \in 1 .. Count + Len(input.members) + 1
  BY <1>1, <1>2
<1>4. Holds(initial)'
  BY <1>1 DEF Typed, TypeOK, SettingsStay, Holds
<1>5. TypeOK'
  BY <1>1, <1>3, <1>4 DEF Typed, TypeOK, SettingsStay
<1> QED
  BY <1>1, <1>2, <1>5 DEF Typed, SettingsStay

LEMMA TypedStep ==
  ASSUME Typed, [Next]_vars
  PROVE  Typed' /\ SettingsStay
<1>1. CASE Begin
  <2>1. /\ SettingsStay /\ descriptors' = Fields(output)
        /\ stage' = IF type.indexed THEN "collect" ELSE "decode"
        /\ output' = output /\ index' = index /\ found' = found /\ valid' = valid /\ stage = "begin"
    BY <1>1 DEF Begin, SettingsStay, settings
  <2>2. Fields(output) \in {type.order, type.switched} /\ Fields(output) \in Order
        /\ Len(input.members) \in Nat
    BY TypedFields
  <2>3. stage' \in Stages
    BY <2>1 DEF Stages
  <2>4. TypeOK'
    BY <2>1, <2>2, <2>3 DEF Typed, TypeOK, SettingsStay, Holds
  <2>5. index = 1 /\ stage' # "begin"
    BY <2>1 DEF Typed
  <2> QED
    BY <2>1, <2>2, <2>4, <2>5 DEF Typed, SettingsStay
<1>2. CASE NotAnObject
  BY <1>2, FailTyped DEF NotAnObject
<1>3. CASE Collect
  <2> DEFINE member == input.members[index]
             places == {i \in Indexed(member.key) : Selected(i)}
  <2>1. /\ SettingsStay /\ output' = output /\ descriptors' = descriptors
        /\ stage' = stage /\ valid' = valid /\ index' = index + 1
        /\ found' = [i \in 1 .. Count |-> IF i \in places THEN Collected(i, member) ELSE found[i]]
        /\ stage = "collect" /\ index <= Len(input.members)
    BY <1>3 DEF Collect, SettingsStay, settings
  <2>2. index \in 1 .. Len(input.members) /\ Count \in Nat /\ Len(input.members) \in Nat
    BY <2>1, TypedFields
  <2>3. member.value \in Value
    BY <2>2, TypedFields, InputMembers
  <2> HIDE DEF member, places
  <2>4. \A i \in 1 .. Count : found[i] \in Value \cup {Absent}
    BY DEF Typed, TypeOK
  <2>5. \A i \in 1 .. Count : Collected(i, member) \in Value \cup {Absent}
    BY <2>3, <2>4 DEF Collected
  <2>6. found' \in [1 .. Count -> Value \cup {Absent}]
    BY <2>1, <2>4, <2>5
  <2>7. index' \in 1 .. Count + Len(input.members) + 1
    BY <2>1, <2>2
  <2>8. TypeOK'
    BY <2>1, <2>6, <2>7 DEF Typed, TypeOK, SettingsStay, Holds
  <2>9. index' <= Len(input.members) + 1
    BY <2>1, <2>2
  <2> QED
    BY <2>1, <2>8, <2>9 DEF Typed, SettingsStay
<1>4. CASE CollectEnds
  <2>1. /\ SettingsStay /\ stage' = "decode" /\ index' = 1
        /\ UNCHANGED <<output, descriptors, found, valid>>
    BY <1>4 DEF CollectEnds, SettingsStay, settings
  <2>2. index' \in 1 .. Count + Len(input.members) + 1
    BY <2>1, TypedFields
  <2>3. stage' \in Stages \ {"begin", "collect"} /\ valid' \in BOOLEAN
    BY <2>1 DEF Stages, Typed, TypeOK
  <2> QED
    BY <2>1, <2>2, <2>3, StageTyped
<1>5. ASSUME NEW m \in Members, Skip(m) \/ Keep(m)
      PROVE  Typed' /\ SettingsStay
  <2>1. Turn(m) /\ NextField /\ output' = output /\ valid' = valid
    BY <1>5 DEF Skip, Keep, Decoding
  <2>2. output' \in Object /\ valid' \in BOOLEAN /\ type' = type
    BY <2>1 DEF Typed, TypeOK, NextField, settings
  <2>3. Holds(output)'
    BY <2>1, <2>2 DEF Typed, TypeOK, Holds
  <2> QED
    BY <2>1, <2>2, <2>3, NextFieldTyped
<1>6. ASSUME NEW m \in Members, NotAssignable(m) \/ BadDefault(m) \/ Missing(m) \/ Refuse(m)
      PROVE  Typed' /\ SettingsStay
  <2>1. Fail("refused") \/ Fail("missing")
    BY <1>6 DEF NotAssignable, BadDefault, Missing, Refuse
  <2> QED
    BY <2>1, FailTyped
<1>7. ASSUME NEW m \in Members, Assign(m)
      PROVE  Typed' /\ SettingsStay
  <2> DEFINE v == FieldJson(index)
  <2>1. /\ Turn(m) /\ NextField /\ v # Absent /\ Decodes(m, v)
        /\ output' = [output EXCEPT ![m] = v]
        /\ valid' \in {TRUE} \cup (IF onThread /\ m \in type.adapted /\ v # "none" THEN {FALSE} ELSE {})
    BY <1>7 DEF Assign, Decoding
  <2>2. v \in Value
    BY <2>1, TurnField, FieldJsonTyped
  <2> HIDE DEF v
  <2>3. output \in Object /\ Holds(output)
    BY TypedFields
  <2>4. output' \in Object /\ valid' \in BOOLEAN /\ type' = type
    BY <2>1, <2>2, <2>3 DEF Object, NextField, settings
  <2>5. \A n \in Members : output'[n] = IF n = m THEN v ELSE output[n]
    BY <2>1, <2>3 DEF Object
  <2>6. Holds(output)'
    BY <2>1, <2>3, <2>4, <2>5 DEF Holds, Decodes
  <2> QED
    BY <2>1, <2>4, <2>6, NextFieldTyped
<1>8. CASE FieldsEnd
  <2>1. /\ SettingsStay /\ stage' = (IF strict THEN "check" ELSE "decoded")
        /\ UNCHANGED <<output, descriptors, index, found, valid>>
    BY <1>8 DEF FieldsEnd, SettingsStay, settings
  <2>2. index' \in 1 .. Count + Len(input.members) + 1 /\ valid' \in BOOLEAN
    BY <2>1 DEF Typed, TypeOK
  <2>3. stage' \in Stages \ {"begin", "collect"}
    BY <2>1 DEF Stages
  <2> QED
    BY <2>1, <2>2, <2>3, StageTyped
<1>9. CASE Check
  <2>1. Fail("refused") \/ Fail("decoded") \/ Fail("unknown")
    BY <1>9 DEF Check
  <2> QED
    BY <2>1, FailTyped
<1>10. CASE UNCHANGED vars
  BY <1>10 DEF vars, settings, SettingsStay, Typed, TypeOK, Holds
<1> QED
  BY <1>1, <1>2, <1>3, <1>4, <1>5, <1>6, <1>7, <1>8, <1>9, <1>10 DEF Next

-----------------------------------------------------------------------------
(* The look-up of keys.                                                    *)

LEMMA NamesOfFields ==
  ASSUME NamesRegistered, Typed, NEW f \in {type.order, type.switched}
  PROVE  Names(f) = [i \in 1 .. Count |-> Name(f[i])] /\ Names(f) \in [1 .. Count -> Keys]
<1>1. type \in Types /\ f \in Order
  BY TypedFields, TypeFields
<1>2. Names(f) = [i \in 1 .. Count |-> Name(f[i])]
  <2>1. CASE type.static
    <3>1. /\ type.switched = type.order
          /\ type.staticNames = [i \in 1 .. Count |-> type.names[type.order[i]]]
      BY <1>1, <2>1 DEF NamesRegistered
    <3>2. f = type.order
      BY <3>1
    <3>3. Names(f) = type.staticNames
      BY <2>1 DEF Names
    <3> QED
      BY <3>1, <3>2, <3>3 DEF Name
  <2>2. CASE ~ type.static
    BY <2>2 DEF Names
  <2> QED
    BY <2>1, <2>2
<1>3. \A i \in 1 .. Count : Name(f[i]) \in Keys
  BY <1>1, OrderComplete, TypeFields DEF Name
<1> QED
  BY <1>2, <1>3

\* std::lower_bound() finds the first place of a key, if it has one.
LEMMA BoundFound ==
  ASSUME NEW sorted \in [1 .. Count -> Keys], NEW key \in Keys,
         \A i, j \in 1 .. Count : i < j => Rank[sorted[i]] <= Rank[sorted[j]]
  PROVE  /\ LowerBound(sorted, key) \in 1 .. Count + 1
         /\ \A j \in 1 .. Count : sorted[j] = key => LowerBound(sorted, key) <= j
         /\ \A j \in 1 .. Count : LowerBound(sorted, key) <= j => Rank[key] <= Rank[sorted[j]]
<1> DEFINE places == {j \in 1 .. Count : Rank[key] <= Rank[sorted[j]]} \cup {Count + 1}
           first == LowerBound(sorted, key)
<1>1. Count \in Nat
  BY FieldsAssumption, FS_CardinalityType DEF Count
<1>2. Rank[key] \in Nat /\ \A j \in 1 .. Count : Rank[sorted[j]] \in Nat
  BY FieldsAssumption
<1>3. places # {} /\ places \in SUBSET Nat
  BY <1>1
<1>4. first \in places /\ \A h \in places : first <= h
  BY <1>3, LeastPlace DEF LowerBound
<1> HIDE DEF first
<1>5. first \in 1 .. Count + 1
  BY <1>1, <1>4
<1>6. \A j \in 1 .. Count : sorted[j] = key => first <= j
  BY <1>2, <1>4
<1>7. ASSUME NEW j \in 1 .. Count, first <= j PROVE Rank[key] <= Rank[sorted[j]]
  <2>1. first \in 1 .. Count /\ Rank[key] <= Rank[sorted[first]]
    BY <1>1, <1>4, <1>5, <1>7
  <2>2. CASE first = j
    BY <2>1, <2>2
  <2>3. CASE first < j
    BY <1>2, <2>1, <2>3
  <2> QED
    BY <1>5, <1>7, <2>2, <2>3
<1> QED
  BY <1>5, <1>6, <1>7 DEF first

\* The index finds the fields of a name, all of them and no others: equal names are
\* neighbours, and the look-up starts at the first.
LEMMA IndexedExactly ==
  ASSUME NamesRegistered, Typed, NEW key \in Keys, NEW i \in 1 .. Count
  PROVE  i \in Indexed(key) <=> Name(descriptors[i]) = key
<1> DEFINE names == Names(descriptors)
           places == Sorted(names)
           sorted == SortedNames(names)
           first == IF type.static THEN Find(StaticFieldLookups[type], sorted, type.hash, key)
                    ELSE LowerBound(sorted, key)
<1>1. descriptors \in {type.order, type.switched} /\ type \in Types /\ Count \in Nat
  BY TypedFields DEF Typed
<1>2. /\ names \in [1 .. Count -> Keys]
      /\ \A j \in 1 .. Count : names[j] = Name(descriptors[j])
  BY <1>1, NamesOfFields
<1>3. type.static => names = type.staticNames
  BY DEF Names
<1>4. sorted = [j \in 1 .. Count |-> names[places[j]]]
  BY DEF SortedNames
<1>5. Indexed(key) = {places[j] : j \in {h \in first .. Count : \A g \in first .. h : sorted[g] = key}}
  BY DEF Indexed
<1> HIDE DEF names
<1>6. /\ places \in [1 .. Count -> 1 .. Count]
      /\ \A h \in 1 .. Count : \E j \in 1 .. Count : places[j] = h
      /\ \A h, j \in 1 .. Count : h < j => Rank[sorted[h]] <= Rank[sorted[j]]
  BY <1>2, Finding DEF IndexesFind
<1>7. sorted \in [1 .. Count -> Keys]
  BY <1>2, <1>4, <1>6
<1>8. Rank[key] \in Nat /\ \A j \in 1 .. Count : Rank[sorted[j]] \in Nat
  BY <1>7, FieldsAssumption
<1>9. /\ first \in 1 .. Count + 1
      /\ \A j \in 1 .. Count : sorted[j] = key => first <= j
      /\ \A j \in 1 .. Count : first <= j => Rank[key] <= Rank[sorted[j]]
  <2>1. CASE type.static
    <3>1. /\ first \in 1 .. Count + 1
          /\ first <= Count => sorted[first] = key
          /\ \A j \in 1 .. Count : sorted[j] = key => first <= j
      BY <1>1, <1>3, <2>1, Finding DEF IndexesFind
    <3>2. ASSUME NEW j \in 1 .. Count, first <= j PROVE Rank[key] <= Rank[sorted[j]]
      <4>1. first \in 1 .. Count /\ sorted[first] = key
        BY <1>1, <3>1, <3>2
      <4> HIDE DEF first, sorted
      <4>2. CASE first = j
        BY <1>8, <4>1, <4>2
      <4>3. CASE first < j
        <5>1. \A h, g \in 1 .. Count : h < g => Rank[sorted[h]] <= Rank[sorted[g]]
          BY <1>6
        <5>2. Rank[sorted[first]] <= Rank[sorted[j]]
          BY <4>1, <4>3, <5>1
        <5> QED
          BY <4>1, <5>2
      <4> QED
        BY <1>1, <3>2, <4>1, <4>2, <4>3
    <3> QED
      BY <3>1, <3>2
  <2>2. CASE ~ type.static
    BY <1>6, <1>7, <2>2, BoundFound
  <2> QED
    BY <2>1, <2>2
<1>12. \A h, j \in 1 .. Count : h < j => Rank[sorted[h]] <= Rank[sorted[j]]
  BY <1>6
<1> HIDE DEF places, sorted, first
<1>10. ASSUME i \in Indexed(key) PROVE names[i] = key
  <2>1. PICK j \in first .. Count : (\A g \in first .. j : sorted[g] = key) /\ i = places[j]
    BY <1>5, <1>10
  <2>2. j \in 1 .. Count /\ j \in first .. j
    BY <1>1, <1>9, <2>1
  <2> QED
    BY <1>4, <2>1, <2>2
<1>11. ASSUME names[i] = key PROVE i \in Indexed(key)
  <2>1. PICK j \in 1 .. Count : places[j] = i
    BY <1>6
  <2>2. sorted[j] = key
    BY <1>4, <1>11, <2>1
  <2>3. j \in first .. Count
    BY <1>1, <1>9, <2>1, <2>2
  <2>4. ASSUME NEW g \in first .. j PROVE sorted[g] = key
    <3>1. g \in 1 .. Count /\ first <= g /\ g <= j
      BY <1>1, <1>9, <2>3
    <3>2. Rank[key] <= Rank[sorted[g]]
      BY <1>9, <3>1
    <3>3. Rank[sorted[g]] <= Rank[key]
      <4>1. CASE g = j
        BY <1>8, <2>2, <3>1, <4>1
      <4>2. CASE g # j
        <5>1. g < j /\ g \in 1 .. Count /\ j \in 1 .. Count
          BY <2>3, <3>1, <4>2
        <5>2. Rank[sorted[g]] <= Rank[sorted[j]]
          BY <5>1, <1>12
        <5> QED
          BY <2>2, <5>2
      <4> QED
        BY <4>1, <4>2
    <3>4. Rank[sorted[g]] = Rank[key]
      BY <1>8, <3>1, <3>2, <3>3
    <3> QED
      BY <1>7, <3>1, <3>4, FieldsAssumption DEF IsInjective
  <2> QED
    BY <1>5, <2>1, <2>3, <2>4
<1> QED
  BY <1>2, <1>10, <1>11

\* The Json of the field whose turn it is.
LEMMA FieldFound ==
  ASSUME Typed, FoundOK, NEW m \in Members, Turn(m), Selected(index)
  PROVE  FieldJson(index) = IF valid THEN FirstValue(Name(m)) ELSE Absent
<1>1. index \in 1 .. Count /\ descriptors[index] = m /\ input \in Inputs /\ stage = "decode"
  BY TurnField, TypedFields DEF Turn
<1>2. type.indexed => found[index] = FirstValue(Name(m))
  BY <1>1, FirstOnly DEF FoundOK
<1> QED
  BY <1>1, <1>2 DEF FieldJson

LEMMA FoundStep ==
  ASSUME NamesRegistered, Typed, FoundOK, [Next]_vars
  PROVE  FoundOK'
<1>1. SettingsStay /\ Typed'
  BY TypedStep
<1>2. CASE /\ UNCHANGED <<descriptors, found>>
           /\ stage' \notin {"begin", "collect"} /\ (stage' = "decode" => stage = "decode")
  BY <1>1, <1>2 DEF FoundOK, SettingsStay, Selected, Name, FirstIs
<1>3. CASE Begin
  <2>1. /\ stage = "begin" /\ found' = found /\ index' = index /\ index = 1
        /\ stage' = IF type.indexed THEN "collect" ELSE "decode"
    BY <1>3 DEF Begin, Typed
  <2>2. \A i \in 1 .. Count : found'[i] = Absent
    BY <2>1 DEF FoundOK
  <2>3. \A j \in 1 .. index' - 1 : FALSE
    BY <2>1
  <2>4. \A i \in 1 .. Count : FirstIs(found[i], Name(descriptors[i]), index - 1)'
    BY <2>2, <2>3 DEF FirstIs
  <2>5. ~ (stage' = "decode" /\ type'.indexed) /\ stage' # "begin"
    BY <1>1, <2>1 DEF SettingsStay
  <2> QED
    BY <2>4, <2>5 DEF FoundOK
<1>4. CASE Collect
  <2> DEFINE member == input.members[index]
             places == {i \in Indexed(member.key) : Selected(i)}
  <2>1. /\ stage = "collect" /\ stage' = stage /\ index' = index + 1 /\ descriptors' = descriptors
        /\ found' = [i \in 1 .. Count |-> IF i \in places THEN Collected(i, member) ELSE found[i]]
        /\ index <= Len(input.members)
    BY <1>4 DEF Collect
  <2>2. index \in 1 .. Len(input.members) /\ input \in Inputs /\ index' - 1 = index
    BY <2>1, TypedFields
  <2>3. member.key \in Keys
    BY <2>2, InputMembers
  <2>4. ASSUME NEW i \in 1 .. Count, Selected(i)
        PROVE  FirstIs(found'[i], Name(descriptors[i]), index)
    <3> DEFINE key == Name(descriptors[i])
    <3>1. i \in places <=> member.key = key
      BY <2>3, <2>4, IndexedExactly
    <3>2. found'[i] = IF member.key = key THEN Collected(i, member) ELSE found[i]
      BY <2>1, <3>1
    <3>3. FirstIs(found[i], key, index - 1)
      BY <2>1, <2>4 DEF FoundOK
    <3> HIDE DEF key
    <3>4. FirstIs(IF member.key = key THEN Collected(i, member) ELSE found[i], key, index)
      BY <2>2, <3>3, FirstOfMore
    <3> QED
      BY <3>2, <3>4 DEF key
  <2> HIDE DEF member, places
  <2>5. ASSUME NEW i \in 1 .. Count, Selected(i)'
        PROVE  FirstIs(found[i], Name(descriptors[i]), index - 1)'
    <3>1. Selected(i)
      BY <1>1, <2>1, <2>5 DEF Selected, SettingsStay
    <3>2. FirstIs(found'[i], Name(descriptors[i]), index)
      BY <2>4, <3>1
    <3> QED
      BY <1>1, <2>1, <2>2, <3>2 DEF FirstIs, Name, SettingsStay
  <2> QED
    BY <2>1, <2>5 DEF FoundOK
<1>5. CASE CollectEnds
  <2>1. /\ stage = "collect" /\ stage' = "decode" /\ index > Len(input.members)
        /\ descriptors' = descriptors /\ found' = found
    BY <1>5 DEF CollectEnds
  <2>2. index - 1 = Len(input.members)
    BY <2>1, TypedFields DEF Typed
  <2>3. \A i \in 1 .. Count : Selected(i) =>
          FirstIs(found[i], Name(descriptors[i]), Len(input.members))
    BY <2>1, <2>2 DEF FoundOK
  <2>4. \A i \in 1 .. Count : Selected(i)' =>
          FirstIs(found[i], Name(descriptors[i]), Len(input.members))'
    BY <1>1, <2>1, <2>3 DEF SettingsStay, Selected, Name, FirstIs
  <2> QED
    BY <2>1, <2>4 DEF FoundOK
<1>6. ASSUME NEW m \in Members, Skip(m) \/ Keep(m) \/ Assign(m)
      PROVE  FoundOK'
  <2>1. Turn(m) /\ NextField
    BY <1>6 DEF Skip, Keep, Assign, Decoding
  <2> QED
    BY <1>2, <2>1 DEF Turn, NextField
<1>7. ASSUME NEW verdict \in {"decoded", "missing", "refused", "unknown"}, Fail(verdict)
      PROVE  FoundOK'
  BY <1>2, <1>7 DEF Fail
<1>8. ASSUME NEW m \in Members, NotAssignable(m) \/ BadDefault(m) \/ Missing(m) \/ Refuse(m)
      PROVE  FoundOK'
  BY <1>7, <1>8 DEF NotAssignable, BadDefault, Missing, Refuse
<1>9. CASE NotAnObject \/ Check
  BY <1>7, <1>9 DEF NotAnObject, Check
<1>10. CASE FieldsEnd
  BY <1>2, <1>10 DEF FieldsEnd
<1>11. CASE UNCHANGED vars
  BY <1>1, <1>11 DEF vars, FoundOK, SettingsStay, Selected, Name, FirstIs
<1> QED
  BY <1>3, <1>4, <1>5, <1>6, <1>8, <1>9, <1>10, <1>11 DEF Next

-----------------------------------------------------------------------------
(* The object.                                                             *)

\* The claims about a member and about the object depend on the settings alone.
LEMMA Settled ==
  ASSUME SettingsStay
  PROVE  /\ \A m \in Members : /\ FirstValue(Name(m))' = FirstValue(Name(m))
                               /\ Wanted(m)' <=> Wanted(m)
                               /\ Fits(m)' <=> Fits(m)
         /\ (Acceptable' <=> Acceptable) /\ (AllKnown' <=> AllKnown)
<1>1. \A m \in Members : /\ FirstValue(Name(m))' = FirstValue(Name(m))
                         /\ Wanted(m)' <=> Wanted(m)
  BY DEF SettingsStay, FirstValue, Name, Wanted
<1>2. \A m \in Members : Fits(m)' <=> Fits(m)
  <2> TAKE m \in Members
  <2>1. FirstValue(Name(m))' = FirstValue(Name(m))
    BY <1>1
  <2> QED
    BY <2>1 DEF Fits, SettingsStay, Decodes, Satisfies
<1>3. AllKnown' <=> AllKnown
  BY DEF AllKnown, SettingsStay, Wanted, Name
<1>4. Acceptable' <=> Acceptable
  <2>1. (\A m \in Members : Wanted(m) => Fits(m))' <=> \A m \in Members : Wanted(m) => Fits(m)
    BY <1>1, <1>2
  <2>2. Acceptable <=> /\ input.object
                       /\ \A m \in Members : Wanted(m) => Fits(m)
                       /\ strict => AllKnown
    BY DEF Acceptable, AllKnown
  <2>3. Acceptable' <=> /\ input'.object
                        /\ (\A m \in Members : Wanted(m) => Fits(m))'
                        /\ strict' => AllKnown'
    BY DEF Acceptable, AllKnown
  <2> QED
    BY <1>3, <2>1, <2>2, <2>3 DEF SettingsStay
<1> QED
  BY <1>1, <1>2, <1>3, <1>4

\* One field more has been passed.
LEMMA PassedOne ==
  ASSUME Typed, NEW m \in Members, Turn(m), NextField
  PROVE  /\ ~ Passed(m)
         /\ \A n \in Members : Passed(n)' <=> Passed(n) \/ n = m
<1>1. /\ index \in 1 .. Count /\ descriptors[index] = m /\ stage = "decode" /\ Count \in Nat
      /\ descriptors \in Order
  BY TurnField, TypedFields DEF Turn
<1>2. index' = index + 1 /\ stage' = stage /\ descriptors' = descriptors
  BY DEF NextField
<1>3. \A i, j \in 1 .. Count : descriptors[i] = descriptors[j] => i = j
  BY <1>1, OrderComplete
<1>4. ~ Passed(m)
  <2> SUFFICES ASSUME NEW i \in 1 .. index - 1, i <= Count, descriptors[i] = m PROVE FALSE
    BY DEF Passed
  <2>1. i \in 1 .. Count /\ i # index
    BY <1>1
  <2> QED
    BY <1>1, <1>3, <2>1
<1>5. ASSUME NEW n \in Members
      PROVE  Passed(n)' <=> Passed(n) \/ n = m
  <2>1. Passed(n)' <=> \E i \in 1 .. index : i <= Count /\ descriptors[i] = n
    <3>1. index' - 1 = index
      BY <1>1, <1>2
    <3> QED
      BY <1>1, <1>2, <3>1 DEF Passed
  <2>2. Passed(n) <=> \E i \in 1 .. index - 1 : i <= Count /\ descriptors[i] = n
    BY <1>1 DEF Passed
  <2>3. \A i : i \in 1 .. index <=> i \in 1 .. index - 1 \/ i = index
    BY <1>1
  <2> QED
    BY <1>1, <2>1, <2>2, <2>3
<1> QED
  BY <1>4, <1>5

LEMMA OutputStays ==
  ASSUME SettingsStay, OutputExact, output' = output, valid' = valid,
         \A m \in Members : Passed(m)' <=> Passed(m)
  PROVE  OutputExact'
<1>1. ASSUME NEW m \in Members
      PROVE  LET v == FirstValue(Name(m))'
             IN IF Wanted(m)' /\ v # Absent /\ Passed(m)' /\ (valid' \/ output'[m] # initial'[m])
                  THEN output'[m] = v ELSE output'[m] = initial'[m]
  <2>1. FirstValue(Name(m))' = FirstValue(Name(m)) /\ (Wanted(m)' <=> Wanted(m))
        /\ initial' = initial
    BY Settled DEF SettingsStay
  <2> QED
    BY <2>1 DEF OutputExact
<1> QED
  BY <1>1 DEF OutputExact

LEMMA OutputStep ==
  ASSUME Typed, FoundOK, OutputExact, [Next]_vars
  PROVE  OutputExact'
<1>1. SettingsStay
  BY TypedStep
<1>2. ASSUME NEW verdict \in {"decoded", "missing", "refused", "unknown"}, Fail(verdict),
             stage # "collect"
      PROVE  OutputExact'
  <2>1. /\ stage' = verdict
        /\ output' = output /\ descriptors' = descriptors /\ index' = index /\ valid' = valid
    BY <1>2 DEF Fail
  <2>2. stage = "begin" => \A i \in 1 .. index - 1 : FALSE
    BY DEF Typed
  <2>3. \A m \in Members : Passed(m)' <=> Passed(m)
    BY <1>2, <2>1, <2>2 DEF Passed
  <2> QED
    BY <1>1, <2>1, <2>3, OutputStays
<1>3. CASE Begin
  <2>1. stage = "begin" /\ index' = index /\ index = 1 /\ output' = output /\ valid' = valid
    BY <1>3 DEF Begin, Typed
  <2>2. \A i \in 1 .. index - 1 : FALSE
    BY <2>1
  <2>3. \A m \in Members : ~ Passed(m) /\ ~ Passed(m)'
    BY <2>1, <2>2 DEF Passed
  <2> QED
    BY <1>1, <2>1, <2>3, OutputStays
<1>4. CASE Collect
  <2>1. stage = "collect" /\ stage' = stage /\ output' = output /\ valid' = valid
    BY <1>4 DEF Collect
  <2>2. \A m \in Members : ~ Passed(m) /\ ~ Passed(m)'
    BY <2>1 DEF Passed
  <2> QED
    BY <1>1, <2>1, <2>2, OutputStays
<1>5. CASE CollectEnds
  <2>1. stage = "collect" /\ index' = 1 /\ output' = output /\ valid' = valid
    BY <1>5 DEF CollectEnds
  <2>2. \A i \in 1 .. index' - 1 : FALSE
    BY <2>1
  <2>3. \A m \in Members : ~ Passed(m) /\ ~ Passed(m)'
    BY <2>1, <2>2 DEF Passed
  <2> QED
    BY <1>1, <2>1, <2>3, OutputStays
<1>6. ASSUME NEW m \in Members, Skip(m) \/ Keep(m)
      PROVE  OutputExact'
  <2>1. Turn(m) /\ NextField /\ output' = output /\ valid' = valid
    BY <1>6 DEF Skip, Keep, Decoding
  <2>2. ~ Passed(m) /\ \A n \in Members : Passed(n)' <=> Passed(n) \/ n = m
    BY <2>1, PassedOne
  <2>3. ~ Wanted(m) \/ FirstValue(Name(m)) = Absent \/ ~ valid
    <3>1. CASE Skip(m)
      BY <2>1, <3>1, TurnField DEF Skip
    <3>2. CASE Keep(m)
      <4>1. Selected(index) /\ FieldJson(index) = Absent
        BY <3>2 DEF Keep, Decoding
      <4> QED
        BY <2>1, <4>1, FieldFound
    <3> QED
      BY <1>6, <3>1, <3>2
  <2>4. output[m] = initial[m]
    BY <2>2 DEF OutputExact
  <2>5. ASSUME NEW n \in Members
        PROVE  LET v == FirstValue(Name(n))'
               IN IF Wanted(n)' /\ v # Absent /\ Passed(n)' /\ (valid' \/ output'[n] # initial'[n])
                    THEN output'[n] = v ELSE output'[n] = initial'[n]
    <3>1. FirstValue(Name(n))' = FirstValue(Name(n)) /\ (Wanted(n)' <=> Wanted(n))
          /\ initial' = initial
      BY <1>1, Settled DEF SettingsStay
    <3>2. CASE n = m
      BY <2>1, <2>3, <2>4, <3>1, <3>2
    <3>3. CASE n # m
      BY <2>1, <2>2, <3>1, <3>3 DEF OutputExact
    <3> QED
      BY <3>2, <3>3
  <2> QED
    BY <2>5 DEF OutputExact
<1>7. ASSUME NEW m \in Members, Assign(m)
      PROVE  OutputExact'
  <2>1. /\ Turn(m) /\ NextField /\ Selected(index) /\ FieldJson(index) # Absent
        /\ output' = [output EXCEPT ![m] = FieldJson(index)]
    BY <1>7 DEF Assign, Decoding
  <2>2. ~ Passed(m) /\ \A n \in Members : Passed(n)' <=> Passed(n) \/ n = m
    BY <2>1, PassedOne
  <2>3. valid /\ FieldJson(index) = FirstValue(Name(m)) /\ Wanted(m)
    BY <2>1, FieldFound, TurnField
  <2>4. output \in [Members -> Value]
    BY TypedFields DEF Object
  <2>5. \A n \in Members : output'[n] = IF n = m THEN FirstValue(Name(m)) ELSE output[n]
    BY <2>1, <2>3, <2>4
  <2>6. ASSUME NEW n \in Members
        PROVE  LET v == FirstValue(Name(n))'
               IN IF Wanted(n)' /\ v # Absent /\ Passed(n)' /\ (valid' \/ output'[n] # initial'[n])
                    THEN output'[n] = v ELSE output'[n] = initial'[n]
    <3>1. FirstValue(Name(n))' = FirstValue(Name(n)) /\ (Wanted(n)' <=> Wanted(n))
          /\ initial' = initial
      BY <1>1, Settled DEF SettingsStay
    <3>2. CASE n = m
      BY <2>1, <2>2, <2>3, <2>5, <3>1, <3>2
    <3>3. CASE n # m
      <4>1. output'[n] = output[n] /\ (Passed(n)' <=> Passed(n))
        BY <2>2, <2>5, <3>3
      <4>2. IF Wanted(n) /\ FirstValue(Name(n)) # Absent /\ Passed(n)
              THEN output[n] = FirstValue(Name(n)) ELSE output[n] = initial[n]
        BY <2>3 DEF OutputExact
      <4> QED
        BY <3>1, <4>1, <4>2
    <3> QED
      BY <3>2, <3>3
  <2> QED
    BY <2>6 DEF OutputExact
<1>8. ASSUME NEW m \in Members, NotAssignable(m) \/ BadDefault(m) \/ Missing(m) \/ Refuse(m)
      PROVE  OutputExact'
  <2>1. (Fail("refused") \/ Fail("missing")) /\ stage = "decode"
    BY <1>8 DEF NotAssignable, BadDefault, Missing, Refuse, Decoding, Turn
  <2> QED
    BY <1>2, <2>1
<1>9. CASE NotAnObject \/ Check
  BY <1>2, <1>9 DEF NotAnObject, Check
<1>10. CASE FieldsEnd
  <2>1. /\ stage = "decode" /\ stage' \in {"check", "decoded"}
        /\ output' = output /\ descriptors' = descriptors /\ index' = index /\ valid' = valid
    BY <1>10 DEF FieldsEnd
  <2>2. \A m \in Members : Passed(m)' <=> Passed(m)
    BY <2>1 DEF Passed
  <2> QED
    BY <1>1, <2>1, <2>2, OutputStays
<1>11. CASE UNCHANGED vars
  <2>1. output' = output /\ valid' = valid
    BY <1>11 DEF vars
  <2>2. \A m \in Members : Passed(m)' <=> Passed(m)
    BY <1>11 DEF vars, Passed
  <2> QED
    BY <1>1, <2>1, <2>2, OutputStays
<1> QED
  BY <1>3, <1>4, <1>5, <1>6, <1>7, <1>8, <1>9, <1>10, <1>11 DEF Next

-----------------------------------------------------------------------------
(* The verdict.                                                            *)

LEMMA AcceptableParts ==
  Acceptable <=> /\ input.object
                 /\ \A m \in Members : Wanted(m) => Fits(m)
                 /\ strict => AllKnown
  BY DEF Acceptable, AllKnown

\* The strict check knows the names of the selected fields and no others.
LEMMA KnownNames ==
  ASSUME NamesRegistered, Typed, NEW key
  PROVE  Known(key) <=> \E m \in Members : Wanted(m) /\ Name(m) = key
<1> DEFINE f == KnownFields
<1>1. f \in {type.order, type.switched} /\ f \in Order /\ (wanted.all \/ f = descriptors)
  <2>1. CASE wanted.all
    BY <2>1, TypedFields DEF KnownFields
  <2>2. CASE ~ wanted.all
    BY <2>2, TypedFields DEF KnownFields, Typed
  <2> QED
    BY <2>1, <2>2
<1>2. \A i \in 1 .. Count : Names(f)[i] = Name(f[i])
  BY <1>1, NamesOfFields
<1>3. \A i \in 1 .. Count : Selected(i) <=> Wanted(f[i])
  <2>1. CASE wanted.all
    BY <1>1, <2>1, AllWanted, OrderComplete DEF Selected, Wanted
  <2>2. CASE ~ wanted.all
    BY <1>1, <2>2, SelectedWanted
  <2> QED
    BY <2>1, <2>2
<1>4. Known(key) <=> \E i \in 1 .. Count : Names(f)[i] = key /\ Selected(i)
  BY DEF Known
<1> HIDE DEF f
<1>5. (\A i \in 1 .. Count : f[i] \in Members) /\ \A m \in Members : \E i \in 1 .. Count : f[i] = m
  BY <1>1, OrderComplete
<1>6. Known(key) <=> \E i \in 1 .. Count : Name(f[i]) = key /\ Wanted(f[i])
  BY <1>2, <1>3, <1>4
<1> QED
  BY <1>5, <1>6

\* A field that is decoded or may stay as it is fits, any other does not.
LEMMA TurnFits ==
  ASSUME Typed, FoundOK, OutputExact, NEW m \in Members, valid
  PROVE  /\ Keep(m) \/ Assign(m) => Fits(m)
         /\ NotAssignable(m) \/ BadDefault(m) \/ Missing(m) \/ Refuse(m) => ~ Fits(m)
<1> DEFINE v == FirstValue(Name(m))
<1>1. Turn(m) => ~ Passed(m)
  <2> SUFFICES ASSUME Turn(m), Passed(m) PROVE FALSE
    OBVIOUS
  <2>1. PICK i \in 1 .. index - 1 : i <= Count /\ descriptors[i] = m
    BY DEF Passed
  <2>2. index \in 1 .. Count /\ descriptors[index] = m
    BY TurnField
  <2>3. i \in 1 .. Count /\ i # index
    BY <2>1, <2>2
  <2> QED
    BY <2>1, <2>2, <2>3, TypedFields, OrderComplete
<1>2. Turn(m) => output[m] = initial[m]
  BY <1>1 DEF OutputExact
<1>3. Decoding(m) => FieldJson(index) = v /\ m \notin type.constant /\ Turn(m)
  BY FieldFound DEF Decoding
<1>4. Keep(m) => v = Absent /\ Fits(m)
  BY <1>2, <1>3 DEF Keep, Fits, Satisfies
<1>5. Assign(m) => Fits(m)
  BY <1>3 DEF Assign, Fits
<1>6. NotAssignable(m) => ~ Fits(m)
  BY DEF NotAssignable, Fits
<1>7. BadDefault(m) => ~ Fits(m)
  BY <1>2, <1>3 DEF BadDefault, Fits, Satisfies
<1>8. Missing(m) => ~ Fits(m)
  BY <1>3 DEF Missing, Fits
<1>9. Refuse(m) => ~ Fits(m)
  BY <1>3 DEF Refuse, Fits
<1> QED
  BY <1>4, <1>5, <1>6, <1>7, <1>8, <1>9

\* A step that fails does so with reason.
LEMMA FailJudged ==
  ASSUME Typed, SettingsStay, NEW verdict \in {"missing", "refused", "unknown"}, Fail(verdict),
         valid => ~ Acceptable
  PROVE  Judged'
<1>1. stage' = verdict /\ valid' = valid
  BY DEF Fail
<1>2. Acceptable' <=> Acceptable
  BY Settled
<1> QED
  BY <1>1, <1>2 DEF Judged

\* A field more is done with.
LEMMA FieldJudged ==
  ASSUME Typed, SettingsStay, Judged, NEW m \in Members, Turn(m), NextField,
         valid' => valid /\ (Wanted(m) => Fits(m))
  PROVE  Judged'
<1>1. index \in 1 .. Count /\ descriptors[index] = m /\ stage = "decode" /\ descriptors \in Order
  BY TurnField, TypedFields DEF Turn
<1>2. index' = index + 1 /\ stage' = "decode" /\ descriptors' = descriptors
  BY <1>1 DEF NextField
<1>3. ASSUME valid', NEW i \in 1 .. Count, i < index', Selected(i)'
      PROVE  Fits(descriptors[i])'
  <2>1. Selected(i) /\ descriptors[i] \in Members
    BY <1>1, <1>2, <1>3, OrderComplete DEF Selected, SettingsStay
  <2>2. i < index \/ i = index
    BY <1>1, <1>2, <1>3
  <2>3. Fits(descriptors[i])
    <3>1. CASE i < index
      BY <1>1, <1>3, <2>1, <3>1 DEF Judged
    <3>2. CASE i = index
      BY <1>1, <1>3, <2>1, <3>2, SelectedWanted
    <3> QED
      BY <2>2, <3>1, <3>2
  <2>4. Fits(descriptors[i])' <=> Fits(descriptors[i])
    <3>1. \A n \in Members : Fits(n)' <=> Fits(n)
      BY Settled
    <3> QED
      BY <1>2, <2>1, <3>1 DEF Fits
  <2> QED
    BY <2>3, <2>4
<1>4. input'.object
  BY <1>1 DEF Judged, SettingsStay
<1> QED
  BY <1>2, <1>3, <1>4 DEF Judged

\* Once every field has been passed, all that are selected fit.
LEMMA AllFit ==
  ASSUME Typed, \A i \in 1 .. Count : Selected(i) => Fits(descriptors[i])
  PROVE  \A m \in Members : Wanted(m) => Fits(m)
<1> TAKE m \in Members
<1>1. PICK i \in 1 .. Count : descriptors[i] = m
  BY TypedFields, OrderComplete
<1> QED
  BY <1>1, SelectedWanted

LEMMA JudgedStep ==
  ASSUME NamesRegistered, Typed, FoundOK, OutputExact, Judged, [Next]_vars
  PROVE  Judged'
<1>1. SettingsStay /\ Typed'
  BY TypedStep
<1>2. CASE Begin
  <2>1. /\ stage' = (IF type.indexed THEN "collect" ELSE "decode") /\ input.object
        /\ index' = index /\ index = 1
    BY <1>2 DEF Begin, Typed
  <2>2. input'.object /\ \A i \in 1 .. Count : ~ (i < index')
    BY <1>1, <2>1, TypedFields DEF SettingsStay
  <2> QED
    BY <2>1, <2>2 DEF Judged
<1>3. CASE NotAnObject
  <2>1. Fail("refused") /\ ~ Acceptable
    BY <1>3, AcceptableParts DEF NotAnObject
  <2> QED
    BY <1>1, <2>1, FailJudged
<1>4. CASE Collect
  BY <1>1, <1>4 DEF Collect, Judged, SettingsStay
<1>5. CASE CollectEnds
  <2>1. stage' = "decode" /\ index' = 1 /\ input.object
    BY <1>5 DEF CollectEnds, Judged
  <2>2. input'.object /\ \A i \in 1 .. Count : ~ (i < index')
    BY <1>1, <2>1, TypedFields DEF SettingsStay
  <2> QED
    BY <2>1, <2>2 DEF Judged
<1>6. ASSUME NEW m \in Members, Skip(m) \/ Keep(m) \/ Assign(m)
      PROVE  Judged'
  <2>1. Turn(m) /\ NextField
    BY <1>6 DEF Skip, Keep, Assign, Decoding
  <2>2. valid' => valid
    <3>1. CASE Skip(m) \/ Keep(m)
      BY <3>1 DEF Skip, Keep
    <3>2. CASE Assign(m)
      BY <3>2 DEF Assign, FieldJson, Absent
    <3> QED
      BY <1>6, <3>1, <3>2
  <2>3. valid /\ Wanted(m) => Fits(m)
    <3>1. CASE Skip(m)
      BY <2>1, <3>1, TurnField DEF Skip
    <3>2. CASE Keep(m) \/ Assign(m)
      BY <3>2, TurnFits
    <3> QED
      BY <1>6, <3>1, <3>2
  <2> QED
    BY <1>1, <2>1, <2>2, <2>3, FieldJudged
<1>7. ASSUME NEW m \in Members, NotAssignable(m) \/ BadDefault(m) \/ Missing(m) \/ Refuse(m)
      PROVE  Judged'
  <2>1. (Fail("refused") \/ Fail("missing")) /\ Turn(m) /\ Selected(index)
    BY <1>7 DEF NotAssignable, BadDefault, Missing, Refuse, Decoding
  <2>2. valid => ~ Fits(m)
    BY <1>7, TurnFits
  <2>3. Wanted(m)
    BY <2>1, TurnField
  <2>4. valid => ~ Acceptable
    BY <2>2, <2>3, AcceptableParts
  <2> QED
    BY <1>1, <2>1, <2>4, FailJudged
<1>8. CASE FieldsEnd
  <2>1. /\ stage = "decode" /\ index > Count /\ stage' = IF strict THEN "check" ELSE "decoded"
        /\ descriptors' = descriptors /\ index' = index /\ valid' = valid
    BY <1>8 DEF FieldsEnd
  <2>2. input'.object /\ strict' = strict
    BY <1>1, <2>1 DEF Judged, SettingsStay
  <2>3. ASSUME valid', NEW i \in 1 .. Count, i < index', Selected(i)'
        PROVE  Fits(descriptors[i])'
    <3>1. Selected(i) /\ Fits(descriptors[i]) /\ descriptors[i] \in Members
      BY <1>1, <2>1, <2>3, TypedFields, OrderComplete DEF Selected, SettingsStay, Judged
    <3> QED
      BY <1>1, <2>1, <3>1, Settled DEF Fits
  <2> QED
    BY <2>1, <2>2, <2>3 DEF Judged
<1>9. CASE Check
  <2> DEFINE verdict == IF ~ valid THEN "refused"
                        ELSE IF \A i \in 1 .. Len(input.members) : Known(input.members[i].key)
                          THEN "decoded" ELSE "unknown"
  <2>1. stage = "check" /\ Fail(verdict)
    BY <1>9 DEF Check
  <2>2. (\A i \in 1 .. Len(input.members) : Known(input.members[i].key)) <=> AllKnown
    BY KnownNames DEF AllKnown
  <2>3. strict /\ input.object /\ index > Count
    BY <2>1 DEF Judged
  <2>4. CASE ~ valid
    <3>1. Fail("refused")
      BY <2>1, <2>4
    <3> QED
      BY <1>1, <2>4, <3>1, FailJudged
  <2>5. CASE valid /\ ~ AllKnown
    <3>1. Fail("unknown") /\ ~ Acceptable
      BY <2>1, <2>2, <2>3, <2>5, AcceptableParts
    <3> QED
      BY <1>1, <3>1, FailJudged
  <2>6. CASE valid /\ AllKnown
    <3>1. /\ stage' = "decoded" /\ descriptors' = descriptors /\ index' = index /\ valid' = valid
      BY <2>1, <2>2, <2>6 DEF Fail
    <3>2. AllKnown' /\ input'.object
      BY <1>1, <2>3, <2>6, Settled DEF SettingsStay
    <3>3. ASSUME NEW i \in 1 .. Count, i < index', Selected(i)'
          PROVE  Fits(descriptors[i])'
      <4>1. Selected(i) /\ Fits(descriptors[i]) /\ descriptors[i] \in Members
        BY <1>1, <2>1, <2>6, <3>1, <3>3, TypedFields, OrderComplete
        DEF Selected, SettingsStay, Judged
      <4> QED
        BY <1>1, <3>1, <4>1, Settled DEF Fits
    <3> QED
      BY <2>3, <3>1, <3>2, <3>3 DEF Judged
  <2> QED
    BY <2>4, <2>5, <2>6
<1>10. CASE UNCHANGED vars
  <2>1. /\ descriptors' = descriptors /\ index' = index /\ valid' = valid /\ stage' = stage
    BY <1>10 DEF vars
  <2>2. /\ Acceptable' <=> Acceptable
        /\ AllKnown' <=> AllKnown
        /\ input' = input /\ strict' = strict
    BY <1>1, Settled DEF SettingsStay
  <2>3. ASSUME NEW i \in 1 .. Count
        PROVE  (Selected(i) => Fits(descriptors[i]))' <=> (Selected(i) => Fits(descriptors[i]))
    <3>1. descriptors[i] \in Members
      BY TypedFields, OrderComplete
    <3> QED
      BY <1>1, <2>1, <3>1, Settled DEF Fits, Selected, SettingsStay
  <2> QED
    BY <2>1, <2>2, <2>3 DEF Judged
<1> QED
  BY <1>2, <1>3, <1>4, <1>5, <1>6, <1>7, <1>8, <1>9, <1>10 DEF Next

LEMMA JudgedRight == Typed /\ Judged => AcceptsExactly
<1> SUFFICES ASSUME Typed, Judged, Over, valid PROVE stage = "decoded" <=> Acceptable
  BY DEF AcceptsExactly
<1>1. CASE stage = "decoded"
  <2>1. \A i \in 1 .. Count : i < index
    BY <1>1, TypedFields DEF Judged
  <2>2. \A m \in Members : Wanted(m) => Fits(m)
    BY <1>1, <2>1, AllFit DEF Judged
  <2> QED
    BY <1>1, <2>2, AcceptableParts DEF Judged
<1>2. CASE stage # "decoded"
  BY <1>2 DEF Over, Judged
<1> QED
  BY <1>1, <1>2

-----------------------------------------------------------------------------
(* The promises.                                                           *)

LEMMA GoneUnread == [Next]_vars => [~ valid => output' = output]_vars
<1> SUFFICES ASSUME Next, ~ valid PROVE output' = output
  OBVIOUS
<1>1. \A m \in Members : ~ Assign(m)
  BY DEF Assign, FieldJson
<1> QED
  BY <1>1 DEF Next, Begin, NotAnObject, Collect, CollectEnds, Skip, NotAssignable, Keep, BadDefault,
              Missing, Refuse, FieldsEnd, Check, Fail

\* The object that is assigned to holds what its members can hold and every index stays
\* in bounds, whatever the registration, the selection and the input (json.hpp:1320-1477).
THEOREM Typing == Spec => []TypeOK
<1>1. Init => Typed
  BY Initially
<1>2. Typed /\ [Next]_vars => Typed'
  BY TypedStep
<1>3. Typed => TypeOK
  BY DEF Typed
<1> QED
  BY <1>1, <1>2, <1>3, PTL DEF Spec

\* An adapter may take the thread's parser away from the document; from then on the
\* object is left alone (json.hpp:1381-1410).
THEOREM NothingRead == Spec => NothingFromGone
<1>1. [Next]_vars => [~ valid => output' = output]_vars
  BY GoneUnread
<1> QED
  BY <1>1, PTL DEF Spec, NothingFromGone

\* What is known of the fields, the object and the verdict
\* holds in every state.
LEMMA Invariance ==
  ASSUME NamesRegistered
  PROVE  Spec => [](Typed /\ FoundOK /\ OutputExact /\ Judged)
<1> DEFINE IInv == Typed /\ FoundOK /\ OutputExact /\ Judged
<1>1. Init => IInv
  BY Initially
<1>2. IInv /\ [Next]_vars => IInv'
  BY TypedStep, FoundStep, OutputStep, JudgedStep
<1> QED
  BY <1>1, <1>2, PTL DEF Spec

\* At any time exactly the selected fields that have been passed and are in the
\* document are assigned, the first member of a key winning, whether the fields are
\* looked up one by one or the members through an index (json.hpp:1361-1447).
THEOREM Outputs ==
  ASSUME NamesRegistered
  PROVE  Spec => []OutputExact
<1>1. Typed /\ FoundOK /\ OutputExact /\ Judged => OutputExact
  OBVIOUS
<1> QED
  BY <1>1, Invariance, PTL

\* An object is accepted exactly when it is what the selected fields call for: neither
\* the look-up, nor the order of the fields, nor what an assignment does to that order
\* makes a difference (json.hpp:1361-1477).
THEOREM Acceptance ==
  ASSUME NamesRegistered
  PROVE  Spec => []AcceptsExactly
<1>1. Typed /\ FoundOK /\ OutputExact /\ Judged => AcceptsExactly
  BY JudgedRight
<1> QED
  BY <1>1, Invariance, PTL
=============================================================================
