----------------------------- MODULE FieldDecode -----------------------------
(***************************************************************************)
(* Decoding the members of a JSON object into the fields of a C++ object:  *)
(* detail::decodeFieldsInto(), behind decode_fields_into(), decode() and   *)
(* deserialize().                                                          *)
(*                                                                         *)
(* The descriptors of the fields may depend on the object that is being    *)
(* assigned to; an adapter (from_wire) is code of the user's and may call  *)
(* deserialize() itself, which takes the thread's parser away from the     *)
(* document that is being decoded.                                         *)
(***************************************************************************)
EXTENDS StaticFieldLookup, SequencesExt

CONSTANTS
  Members,            \* the data members of the object
  Keys, Rank,         \* the keys and their alphabetical order
  Types,              \* registrations of the members as fields
  Switch,             \* the member that the order of the fields may depend on
  Inputs, Initials    \* what is decoded, and the objects it is decoded into

\* A value of a data member, "none" being the empty optional; in a document
\* null is "none" and "bad" a value that the constraints forbid.
Value == {"none", "good", "bad"}
Member == [key : Keys, value : Value]
Object == [Members -> Value]

\* Which members are optional or have wire_policy.optional, are checked by
\* validate_field(), have an adapter or cannot be assigned; the fields' names, their
\* order and the one they have while Switch is "good"; what is known of the names
\* at compile time and how they hash; whether there are enough fields for an index.
Order == {s \in [1 .. Cardinality(Members) -> Members] : IsInjective(s)}
Type == [optional : SUBSET Members, lenient : SUBSET Members, constrained : SUBSET Members,
         adapted : SUBSET Members, constant : SUBSET Members, names : [Members -> Keys],
         order : Order, switched : Order, static : BOOLEAN, staticNames : Seq(Keys),
         hash : [Keys -> Nat], indexed : BOOLEAN]

ASSUME FieldsAssumption ==
  /\ IsFiniteSet(Members) /\ Switch \in Members
  /\ Rank \in [Keys -> Nat] /\ IsInjective(Rank)
  /\ Types \subseteq Type
  /\ \A t \in Types : t.static => Len(t.staticNames) = Cardinality(Members)
  /\ Initials \subseteq Object
  /\ \A input \in Inputs : input \in [object : BOOLEAN, members : Seq(Member)]

VARIABLES
  type,
  input,        \* the JSON value: its members, if it is an object
  onThread,     \* parsed by the thread's parser, that is by deserialize()
  strict,       \* unknown_fields = reject
  wanted,       \* what the selector picks, or all
  initial,      \* the object before
  output,       \* the object
  descriptors,  \* reflect::fields(output), as decodeFieldsInto() first got them
  stage, index, \* what is being done, and to which member or field
  found,        \* the Json of each field, if the fields are indexed
  valid         \* the document is still there

settings == <<type, input, onThread, strict, wanted, initial>>
vars == <<settings, output, descriptors, stage, index, found, valid>>

Selection == [all : {FALSE}, members : SUBSET Members] \cup {[all |-> TRUE, members |-> Members]}
Absent == "absent"
Stages == {"begin", "collect", "decode", "check", "decoded", "missing", "refused", "unknown"}

-----------------------------------------------------------------------------
Count == Cardinality(Members)

\* reflect::fields(object).
Fields(object) == IF object[Switch] = "good" THEN type.switched ELSE type.order

\* A member that is not optional is never "none".
Holds(object) == \A m \in Members : object[m] = "none" => m \in type.optional

Name(m) == type.names[m]
Selected(i) == wanted.all \/ descriptors[i] \in wanted.members

\* staticFieldNames<T> or, by the place of each field, the names of fields.
Names(fields) == IF type.static THEN type.staticNames ELSE [i \in 1 .. Count |-> Name(fields[i])]

Precedes(names, i, j) ==
  \/ Rank[names[i]] < Rank[names[j]]
  \/ Rank[names[i]] = Rank[names[j]] /\ i < j

\* indexedFieldNames(): the places of names, in the order of the names; at each there
\* is the one that as many precede as come before.
Sorted(names) ==
  [p \in 1 .. Count |->
     CHOOSE i \in 1 .. Count : Cardinality({j \in 1 .. Count : Precedes(names, j, i)}) = p - 1]

SortedNames(names) == [i \in 1 .. Count |-> names[Sorted(names)[i]]]

\* staticFieldLookup<T>.
StaticFieldLookups ==
  [t \in {t \in Types : t.static} |-> Buckets(SortedNames(t.staticNames), t.hash)]

\* std::lower_bound() of a key in sorted names.
LowerBound(sorted, key) ==
  Min({j \in 1 .. Count : Rank[key] <= Rank[sorted[j]]} \cup {Count + 1})

\* The places that the index finds for a key: equal names are neighbours.
Indexed(key) ==
  LET names == Names(descriptors)
      places == Sorted(names)
      sorted == SortedNames(names)
      first == IF type.static THEN Find(StaticFieldLookups[type], sorted, type.hash, key)
               ELSE LowerBound(sorted, key)
  IN {places[i] : i \in {j \in first .. Count : \A h \in first .. j : sorted[h] = key}}

\* The first member of that key, as at() finds it.
FirstValue(key) ==
  LET places == {i \in 1 .. Len(input.members) : input.members[i].key = key}
  IN IF places = {} THEN Absent ELSE input.members[Min(places)].value

\* Mutant: a later member of the same key replaces the first.
CollectedLast(i, member) == member.value

\* The Json of a field once the index has met one more member for it.
Collected(i, member) == IF found[i] = Absent THEN member.value ELSE found[i]

\* Mutant: the Jsons that the index holds are taken for valid.
FieldJsonKept(i) ==
  IF type.indexed THEN found[i] ELSE IF valid THEN FirstValue(Name(descriptors[i])) ELSE Absent

\* The Json of a field; it is not valid once the document is gone.
FieldJson(i) ==
  IF ~ valid THEN Absent
  ELSE IF type.indexed THEN found[i] ELSE FirstValue(Name(descriptors[i]))

\* Mutant: null is decoded into members that cannot hold it.
DecodesNull(m, v) == TRUE

Decodes(m, v) == v = "none" => m \in type.optional
Satisfies(m, v) == v = "bad" => m \notin type.constrained

\* Mutant: the selection is looked up in the fields as they are now.
KnownFieldsNow == Fields(output)

\* The fields whose names the strict check knows: a selection must keep the order
\* in which it was made.
KnownFields == IF wanted.all THEN Fields(output) ELSE descriptors

Known(key) == \E i \in 1 .. Count : Names(KnownFields)[i] = key /\ Selected(i)

-----------------------------------------------------------------------------
Fail(verdict) ==
  /\ stage' = verdict
  /\ UNCHANGED <<settings, output, descriptors, index, found, valid>>

\* The fields are fetched and the selector is asked about each.
Begin ==
  /\ stage = "begin" /\ input.object
  /\ descriptors' = Fields(output)
  /\ stage' = IF type.indexed THEN "collect" ELSE "decode"
  /\ UNCHANGED <<settings, output, index, found, valid>>

NotAnObject == stage = "begin" /\ ~ input.object /\ Fail("refused")

\* The index is asked for every member.
Collect ==
  /\ stage = "collect" /\ index <= Len(input.members)
  /\ LET member == input.members[index]
         places == {i \in Indexed(member.key) : Selected(i)}
     IN found' = [i \in 1 .. Count |-> IF i \in places THEN Collected(i, member) ELSE found[i]]
  /\ index' = index + 1
  /\ UNCHANGED <<settings, output, descriptors, stage, valid>>

CollectEnds ==
  /\ stage = "collect" /\ index > Len(input.members)
  /\ stage' = "decode" /\ index' = 1
  /\ UNCHANGED <<settings, output, descriptors, found, valid>>

\* decode_member: field m is the next one.
Turn(m) == stage = "decode" /\ index <= Count /\ m = descriptors[index]

NextField == index' = index + 1 /\ UNCHANGED <<settings, descriptors, stage, found>>

Skip(m) ==
  /\ Turn(m) /\ ~ Selected(index)
  /\ NextField /\ UNCHANGED <<output, valid>>

Decoding(m) == Turn(m) /\ Selected(index) /\ m \notin type.constant

NotAssignable(m) == Turn(m) /\ Selected(index) /\ m \in type.constant /\ Fail("refused")

\* A missing field keeps its value, which must satisfy the constraints of an optional.
Keep(m) ==
  /\ Decoding(m) /\ FieldJson(index) = Absent
  /\ m \in type.lenient \/ (m \in type.optional /\ Satisfies(m, output[m]))
  /\ NextField /\ UNCHANGED <<output, valid>>

BadDefault(m) ==
  /\ Decoding(m) /\ FieldJson(index) = Absent
  /\ m \in type.optional \ type.lenient /\ ~ Satisfies(m, output[m])
  /\ Fail("refused")

Missing(m) ==
  /\ Decoding(m) /\ FieldJson(index) = Absent
  /\ m \notin type.optional \cup type.lenient
  /\ Fail("missing")

Assign(m) ==
  LET v == FieldJson(index)
  IN /\ Decoding(m) /\ v # Absent /\ Decodes(m, v) /\ Satisfies(m, v)
     /\ output' = [output EXCEPT ![m] = v]
     /\ valid' \in {TRUE} \cup (IF onThread /\ m \in type.adapted /\ v # "none" THEN {FALSE} ELSE {})
     /\ NextField

Refuse(m) ==
  LET v == FieldJson(index)
  IN Decoding(m) /\ v # Absent /\ ~ (Decodes(m, v) /\ Satisfies(m, v)) /\ Fail("refused")

FieldsEnd ==
  /\ stage = "decode" /\ index > Count
  /\ stage' = IF strict THEN "check" ELSE "decoded"
  /\ UNCHANGED <<settings, output, descriptors, index, found, valid>>

\* The strict check walks the object again, if that is still there.
Check ==
  /\ stage = "check"
  /\ Fail(IF ~ valid THEN "refused"
          ELSE IF \A i \in 1 .. Len(input.members) : Known(input.members[i].key)
            THEN "decoded" ELSE "unknown")

-----------------------------------------------------------------------------
Init ==
  /\ type \in Types
  /\ input \in Inputs /\ onThread \in BOOLEAN /\ strict \in BOOLEAN
  /\ wanted \in Selection /\ (onThread => wanted.all)
  /\ initial \in Initials /\ Holds(initial) /\ output = initial
  /\ descriptors = type.order
  /\ stage = "begin" /\ index = 1
  /\ found = [i \in 1 .. Count |-> Absent]
  /\ valid = TRUE

Next ==
  \/ Begin \/ NotAnObject \/ Collect \/ CollectEnds
  \/ \E m \in Members : \/ Skip(m) \/ NotAssignable(m) \/ Keep(m) \/ BadDefault(m)
                        \/ Missing(m) \/ Assign(m) \/ Refuse(m)
  \/ FieldsEnd \/ Check

Spec == Init /\ [][Next]_vars
=============================================================================
