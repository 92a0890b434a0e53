--------------------------- MODULE RoundTripProps ---------------------------
(***************************************************************************)
(* What becomes of a value that is written and read.                       *)
(***************************************************************************)
EXTENDS RoundTrip, TomlTextProps

\* The recursive calls of the predicates below.
CONSTANTS
  KeepsPart(_, _, _), FitsPart(_, _), JsonKeepsPart(_, _), TomlKeepsPart(_), UnwritablePart(_, _),
  AbsentPart(_, _), LevelsPart(_), SizePart(_), UncountedPart(_)

\* A value of type t keeps to the options of its field, if it is there.
Keeps(t, options, v) ==
  IF t[1] = "optional" THEN v = None \/ KeepsPart(t[2], options, v[2])
  ELSE options = <<>> \/
    LET amount == CASE v[1] \in {"int", "double", "enum"} -> v[2]
                    [] v[1] = "string" -> Len(v[2])
                    [] OTHER -> Cardinality(DOMAIN v[2])
    IN /\ v # NotANumber
       /\ \A k \in {"minimum", "min_length", "min_items"} \cap DOMAIN options : options[k] <= amount
       /\ \A k \in {"maximum", "max_length", "max_items"} \cap DOMAIN options : amount <= options[k]

\* v is a value of type t, of a valid enumerator if it is an enum.
Fits(t, v) ==
  CASE t[1] = "int" -> v[1] = "int" /\ v[2] \in t[2] .. t[3]
    [] t[1] = "enum" -> v[1] = "enum" /\ Numbered(t, v[2]) # Refused
    [] t[1] = "double" -> v[1] = "double" \/ v = NotANumber
    [] t[1] = "date" -> v[1] = "date" /\ v[2] \in Dates
    [] t[1] = "optional" -> v = None \/ (v[1] = "some" /\ FitsPart(t[2], v[2]))
    [] t[1] = "inline" -> FitsPart(t[2], v)
    [] t[1] = "variant" -> v[1] = "alternative" /\ FitsPart(t[2][v[2]], v[3])
    [] t[1] \in {"vector", "array"} ->
         /\ v[1] = "array" /\ \A i \in DOMAIN v[2] : FitsPart(t[2], v[2][i])
         /\ t[1] = "array" => DOMAIN v[2] = 1 .. t[3]
    [] t[1] = "map" -> v[1] = "object" /\ \A k \in DOMAIN v[2] : FitsPart(t[2], v[2][k])
    [] t[1] = "struct" ->
         /\ v[1] = "object" /\ DOMAIN v[2] = FieldNames(t)
         /\ \A k \in FieldNames(t) : LET f == FieldOf(t, k)
                                 IN FitsPart(f.type, v[2][k]) /\ Keeps(f.type, f.options, v[2][k])
    [] OTHER -> v[1] = t[1]

\* The types: whatever has been decoded is a value of the type that was asked for,
\* a number in the range of its type, an enumerator, an array of its size, and within
\* the constraints of its field, whether or not the document was written for that
\* type (json.hpp:1587-1640, 1663, toml.hpp:2757, reflect.hpp:381).
TypeOK ==
  /\ format \in {"json", "toml"} /\ type \in Types /\ nulls \in BOOLEAN
  /\ stage \in {"begin", "write", "written", "read", "refused"}
  /\ stage = "read" /\ result # Refused => Fits(reader, result)

-----------------------------------------------------------------------------
\* Types of which TOML keeps every value: an absent member is just left out.
TomlKeeps(t) ==
  CASE t[1] \in {"optional", "map"} -> t[2][1] # "optional" /\ TomlKeepsPart(t[2])
    [] t[1] \in {"vector", "array", "inline"} -> TomlKeepsPart(t[2])
    [] t[1] = "struct" -> \A i \in 1 .. Len(t[2]) : TomlKeepsPart(t[2][i].type)
    [] OTHER -> TRUE

\* There is nothing to be written, however deep optionals are nested.
Absent(t, v) == t[1] = "optional" /\ (v = None \/ AbsentPart(t[2], v[2]))

\* Values that TOML has no text for.
Unwritable(t, v) ==
  CASE t[1] = "int" -> v[2] > Int64Max
    [] t[1] = "date" -> v[2] \notin Dates
    [] t[1] = "enum" -> Numbered(t, v[2]) = Refused \/ (~ t[3] /\ v[2] > Int64Max)
    [] t[1] \in {"variant", "raw", "json"} -> TRUE
    [] t[1] = "optional" -> ~ Sound(t[2]) \/ (v # None /\ UnwritablePart(t[2], v[2]))
    [] t[1] = "inline" -> t[2][1] \notin {"struct", "map"} \/ UnwritablePart(t[2], v)
    [] t[1] \in {"vector", "array"} ->
         \E i \in DOMAIN v[2] : Absent(t[2], v[2][i]) \/ UnwritablePart(t[2], v[2][i])
    [] t[1] = "map" -> \E k \in DOMAIN v[2] : UnwritablePart(t[2], v[2][k])
    [] t[1] = "struct" ->
         \E k \in FieldNames(t) : LET f == FieldOf(t, k)
                             IN \/ UnwritablePart(f.type, v[2][k])
                                \/ ~ ValidOptions(f.type, f.options) \/ ~ Keeps(f.type, f.options, v[2][k])
    [] OTHER -> FALSE

\* A value that TOML has a text for is written, and read back as it was: through the
\* order of the lines, inline and empty arrays, absent members, whole doubles that
\* are read as integers, and the least integer, whose magnitude is one more than
\* that of the greatest (toml.hpp:1728-1745, 2635, 2780).
TomlRoundTrip ==
  format = "toml" /\ ~ ByHand =>
    /\ stage = "refused" => Unwritable(type, value)
    /\ stage = "read" /\ reader = type /\ TomlKeeps(type) => result = value

\* What the text of a value of type t is, where there is but one answer.
KindOf(t) ==
  CASE t[1] \in {"int", "double"} -> "number"
    [] t[1] \in {"string", "date"} -> "string"
    [] t[1] = "enum" -> IF t[3] THEN "string" ELSE "number"
    [] t[1] \in {"vector", "array"} -> "array"
    [] t[1] \in {"map", "struct"} -> "object"
    [] t[1] = "bool" -> "bool"
    [] OTHER -> "any"

\* Types that null is no text of.
NeverNull(t) == KindOf(IF t[1] = "inline" THEN t[2] ELSE t) # "any" \/ t[1] = "variant"

\* A field whose value can be told from its being left out, or null, or empty.
Recovers(f) ==
  /\ "empty_object" \notin f.policy
  /\ {"omit_empty", "omit_false", "presence_object"} \cap f.policy # {} =>
       "optional" \in f.policy \/ (f.type[1] = "optional" /\ Sound(OptionalValue(f.type)))
  /\ {"raw", "reject_null"} \cap f.policy # {} /\ f.type[1] = "optional" => "omit_empty" \in f.policy
  /\ "reject_null" \in f.policy =>
       "raw" \notin f.policy /\ (f.type[1] = "optional" \/ NeverNull(f.type))
  /\ {"object_only", "array_only"} \cap f.policy # {} => "raw" \in f.policy

\* Members with the policy raw: texts, vectors of them, or none.
IsRaw(t) == t[1] = "raw" \/ (t[1] = "vector" /\ t[2][1] = "raw")
RawKeeps(t) == IsRaw(IF t[1] = "optional" THEN t[2] ELSE t)

\* Types of which JSON keeps every value, doubles that are no numbers being refused or
\* written as null: null is one thing only, and the alternatives
\* of a variant are told apart by the kinds of their texts.
JsonKeeps(t, asNull) ==
  CASE t[1] = "double" -> ~ asNull
    [] t[1] = "optional" -> NeverNull(t[2]) /\ JsonKeepsPart(t[2], asNull)
    [] t[1] \in {"vector", "array", "map", "inline"} -> JsonKeepsPart(t[2], asNull)
    [] t[1] = "variant" ->
         /\ \A i, j \in DOMAIN t[2] : i # j => KindOf(t[2][i]) # KindOf(t[2][j])
         /\ \A i \in DOMAIN t[2] : KindOf(t[2][i]) # "any" /\ JsonKeepsPart(t[2][i], asNull)
    [] t[1] = "struct" ->
         \A i \in 1 .. Len(t[2]) :
           LET f == t[2][i]
           IN /\ Recovers(f)
              /\ IF "raw" \in f.policy THEN RawKeeps(f.type) ELSE JsonKeepsPart(f.type, asNull)
    [] OTHER -> TRUE

\* What serialize() accepts is read back as it was, through the policies that leave
\* members out, raw members, variants, null for absent and whole doubles
\* (json.hpp:880-890, 1428-1435, 1493).
JsonRoundTrip ==
  format = "json" /\ ~ ByHand /\ stage = "read" /\ reader = type /\ JsonKeeps(type, nulls) =>
    result = value

Levels(n) ==
  IF n[1] \in {"array", "object"} THEN 1 + Max({0} \cup {LevelsPart(n[2][i]) : i \in DOMAIN n[2]}) ELSE 1
Size(n) ==
  IF n[1] \in {"array", "object"}
    THEN 1 + FoldFunction(LAMBDA m, s : SizePart(m) + s, 0, n[2]) ELSE 1

\* A field that may be written as {}, which is not counted; and a type with such fields.
WritesEmpty(f) ==
  \/ "presence_object" \in f.policy /\ f.type[1] = "bool"
  \/ {"raw", "empty_object"} \subseteq f.policy /\ f.type[1] = "raw"
Uncounted(t) ==
  \/ t[1] = "struct" /\ \E i \in 1 .. Len(t[2]) : WritesEmpty(t[2][i])
  \/ \E u \in Inside(t) : UncountedPart(u)

\* A text that serialize() makes is within its own limits of depth and nodes, also
\* where it counts a value twice, as an optional and an enum, or lets what it holds
\* count for itself, as a variant and a raw value (json.hpp:656-682, 714, 803).
JsonWithinLimits ==
  format = "json" /\ ~ ByHand /\ stage = "written" /\ ~ Uncounted(type) =>
    Levels(document) <= MaxDepth /\ Size(document) <= MaxNodes

\* An integer that stands in a document is read exactly when the type has it and the
\* field takes it, and TOML has no more than 64 bits and a sign (json.hpp:1587-1640,
\* toml.hpp:1728-1745, 2757).
IntegersExact ==
  LET f == reader[2][1]
      n == value[2]
      least == - Int64Max - 1
      greatest == IF format = "json" THEN UInt64Max ELSE Int64Max
  IN ByHand /\ stage = "read" /\ f.type[1] = "int" /\ f.policy = {} =>
       result = IF /\ n \in (f.type[2] .. f.type[3]) \cap (least .. greatest)
                   /\ ValidOptions(f.type, f.options) /\ Keeps(f.type, f.options, Integer)
                  THEN <<"object", [k \in {Only} |-> Integer]>> ELSE Refused
=============================================================================
