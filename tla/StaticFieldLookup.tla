------------------------- MODULE StaticFieldLookup --------------------------
(***************************************************************************)
(* The table by which the decoder of a type with many fields, registered   *)
(* at compile time, finds a key among their names: open addressing with    *)
(* linear probing, in a table more than twice as large as there are names. *)
(*                                                                         *)
(* names is a sequence of names in which equal ones are neighbours; a      *)
(* bucket is empty or holds the place in names of the first of its equals. *)
(***************************************************************************)
EXTENDS Integers, Sequences, FiniteSetsExt

Empty == 0

\* bit_ceil(2 * size + 1).
Capacity(size) ==
  LET power[i \in 0 .. size + 1] == IF i = 0 THEN 1 ELSE 2 * power[i - 1]
  IN Min({power[i] : i \in 0 .. size + 1} \ 0 .. 2 * size)

\* The bucket that is d steps on from where a name hashes to.
Bucket(hash, name, d, capacity) == (hash[name] + d) % capacity

IsFirst(names, i) == i = 1 \/ names[i - 1] # names[i]

\* The buckets once the name at place i is in as well.
Filled(before, names, hash, i) ==
  LET capacity == Capacity(Len(names))
      free == {d \in 0 .. capacity - 1 : before[Bucket(hash, names[i], d, capacity)] = Empty}
  IN IF IsFirst(names, i)
       THEN [before EXCEPT ![Bucket(hash, names[i], Min(free), capacity)] = i] ELSE before

\* StaticFieldLookup(names): the names go in one by one.
Buckets(names, hash) ==
  LET after[i \in 0 .. Len(names)] ==
        IF i = 0 THEN [b \in 0 .. Capacity(Len(names)) - 1 |-> Empty]
        ELSE Filled(after[i - 1], names, hash, i)
  IN after[Len(names)]

\* find(): where key is first among names, or Len(names) + 1.
Find(buckets, names, hash, key) ==
  LET capacity == Capacity(Len(names))
      ends == {d \in 0 .. capacity - 1 :
                 LET i == buckets[Bucket(hash, key, d, capacity)]
                 IN i = Empty \/ names[i] = key}
      i == buckets[Bucket(hash, key, Min(ends), capacity)]
  IN IF ends = {} \/ i = Empty THEN Len(names) + 1 ELSE i
=============================================================================
