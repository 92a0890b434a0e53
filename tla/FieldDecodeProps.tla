-------------------------- MODULE FieldDecodeProps ---------------------------
(***************************************************************************)
(* What decodeFieldsInto() promises (docs/field-contract-README.md).       *)
(***************************************************************************)
EXTENDS FieldDecode

\* The types; in particular no null ends up in a member that cannot hold it.
TypeOK ==
  /\ type \in Types
  /\ onThread \in BOOLEAN /\ strict \in BOOLEAN /\ valid \in BOOLEAN
  /\ wanted \in Selection
  /\ initial \in Object /\ Holds(initial) /\ output \in Object /\ Holds(output)
  /\ descriptors \in Order
  /\ stage \in Stages
  /\ index \in 1 .. Count + Len(input.members) + 1
  /\ found \in [1 .. Count -> Value \cup {Absent}]

Wanted(m) == m \in wanted.members
Over == stage \in {"decoded", "missing", "refused", "unknown"}

\* Whether the object, taken by itself, is what the selected fields call for: those
\* that are there decode and satisfy their constraints, those that are not may be
\* missing, and then what the object has instead satisfies theirs; a strict decode
\* has no members but theirs.
Fits(m) ==
  LET v == FirstValue(Name(m))
  IN /\ m \notin type.constant
     /\ v # Absent => Decodes(m, v) /\ Satisfies(m, v)
     /\ v = Absent => \/ m \in type.lenient
                      \/ m \in type.optional /\ Satisfies(m, initial[m])

Acceptable ==
  /\ input.object
  /\ \A m \in Members : Wanted(m) => Fits(m)
  /\ strict => \A i \in 1 .. Len(input.members) :
                 \E m \in Members : Wanted(m) /\ Name(m) = input.members[i].key

\* An object is accepted exactly when it is acceptable, however the fields are
\* looked up and whatever order they have before and after, as long as its document
\* is there (json.hpp:1361-1477).
AcceptsExactly == Over /\ valid => (stage = "decoded" <=> Acceptable)

\* Member m has been passed by decode_member.
Passed(m) ==
  stage \notin {"begin", "collect"} /\ \E i \in 1 .. index - 1 : i <= Count /\ descriptors[i] = m

\* At any time the selected fields up to the present one are assigned, the first
\* member of their key winning, and every other is as it was: those that are not
\* selected, those that are missing and, after a failure, those that come later.
OutputExact ==
  \A m \in Members :
    LET v == FirstValue(Name(m))
    IN IF Wanted(m) /\ v # Absent /\ Passed(m) /\ (valid \/ output[m] # initial[m])
         THEN output[m] = v ELSE output[m] = initial[m]

\* Nothing is read from a document that the thread's parser has left.
NothingFromGone == [][~ valid => output' = output]_vars

\* "Missing optionals preserve and validate current values" (json.hpp:1976): a
\* decode that succeeds has kept no value of a field that is there.
OnlyMissingKept ==
  stage = "decoded" =>
    \A m \in Members : Wanted(m) /\ FirstValue(Name(m)) # Absent => output[m] = FirstValue(Name(m))

\* "Runtime field names are fetched on every call, not cached as compile-time
\* constants" (docs/reflect-README.md:30): a strict decode refuses as unknown only
\* objects with members that no field is named after.
NamesFetched ==
  stage = "unknown" =>
    \E i \in 1 .. Len(input.members) :
      \A m \in Members : ~ (Wanted(m) /\ Name(m) = input.members[i].key)

-----------------------------------------------------------------------------
(* What the look-up of keys promises, and what it rests on.                *)

\* Sorting permutes the places of the names and puts them in order, and a probing for
\* a key ends at the first place of that name, or after the last place.
IndexesFind ==
  /\ \A names \in [1 .. Count -> Keys] :
       /\ Sorted(names) \in [1 .. Count -> 1 .. Count]
       /\ \A i \in 1 .. Count : \E j \in 1 .. Count : Sorted(names)[j] = i
       /\ \A i, j \in 1 .. Count :
            i < j => Rank[SortedNames(names)[i]] <= Rank[SortedNames(names)[j]]
  /\ \A t \in Types : t.static =>
       LET sorted == SortedNames(t.staticNames)
       IN \A key \in Keys :
            LET first == Find(StaticFieldLookups[t], sorted, t.hash, key)
            IN /\ first \in 1 .. Count + 1
               /\ first <= Count => sorted[first] = key
               /\ \A j \in 1 .. Count : sorted[j] = key => first <= j

\* The names known at compile time are those of the fields, in their order.
NamesRegistered ==
  \A t \in Types : t.static =>
    t.switched = t.order /\ t.staticNames = [i \in 1 .. Count |-> t.names[t.order[i]]]
=============================================================================
