---------------------------- MODULE MCRoundTrip -----------------------------
(***************************************************************************)
(* Integers of five bits for those of 64; every kind of type as a member,  *)
(* and structs whose members are structs, arrays of structs and inline     *)
(* tables, in and out of each other.                                       *)
(***************************************************************************)
EXTENDS Codecs, TLC

CONSTANTS a, b, c

MCKeys == {a, b, c}
MCInOrder(keys) == SelectSeq(<<a, b, c>>, LAMBDA k : k \in keys)
MCInt64Max == 7
MCDates == {"2000-02-29"}

Bool == <<"bool">>
Int64 == <<"int", -8, 7>>
UInt64 == <<"int", 0, 15>>
Int32 == <<"int", -4, 3>>
UInt32 == <<"int", 0, 7>>
Double == <<"double">>
String == <<"string">>
Raw == <<"raw">>
Json_ == <<"json">>
Enum(entries, byName) == <<"enum", entries, byName, Int32>>
ByName == Enum(<<<<1, "on">>, <<2, "off">>>>, TRUE)
ByNumber == Enum(<<<<-1, "left">>, <<2, "right">>>>, FALSE)
Wide == <<"enum", <<<<1, "on">>, <<15, "all">>>>, FALSE, UInt64>>
Doubled == Enum(<<<<1, "on">>, <<2, "on">>>>, TRUE)
Nameless == Enum(<<<<1, "">>>>, FALSE)
Optional(t) == <<"optional", t>>
Vector(t) == <<"vector", t>>
Map(t) == <<"map", t>>
Inline(t) == <<"inline", t>>

Field(name, t) == [name |-> name, type |-> t, policy |-> {}, options |-> <<>>]
With(name, t, policy) == [Field(name, t) EXCEPT !.policy = policy]
Bound(t, options) == [Field(b, t) EXCEPT !.options = options]
Lone == <<"struct", <<Field(b, Int32)>>>>
Two == <<"struct", <<Field(a, Vector(Lone)), Field(c, Optional(Bool))>>>>

MemberTypes ==
  {Bool, Int64, UInt64, Int32, UInt32, Double, String, <<"date">>, ByName, ByNumber, Raw, Json_,
   Doubled, Nameless, Optional(Doubled), Wide, Vector(Optional(Optional(Bool))),
   Optional(Int64), Optional(ByName), Optional(Optional(Bool)), Optional(Double),
   Vector(Bool), Vector(Optional(Int32)), Vector(Map(Bool)), <<"array", Int32, 2>>,
   Map(Int32), Map(Optional(Bool)), Map(Lone), Map(Vector(Lone)), Map(Vector(Bool)), Inline(Lone), Inline(Bool),
   Vector(Inline(Lone)), Vector(Vector(Lone)), <<"array", Lone, 1>>, Map(Inline(Lone)), Vector(Double),
   Vector(Lone), Optional(Vector(Lone)), Lone, Inline(Two), Vector(Two),
   <<"variant", <<Bool, Double, String, Vector(Bool)>>>>, <<"variant", <<UInt32, Int64>>>>,
   Vector(<<"variant", <<ByName, Int64>>>>), Optional(<<"variant", <<Lone, String>>>>)}

\* A member that is written as {} and not counted, as deep as the limits allow.
Flag == <<"struct", <<With(b, Bool, {"presence_object", "optional"})>>>>
Deep == <<"struct", <<Field(b, Vector(Vector(Vector(Flag))))>>>>

\* Types that a text may be read as that was not written for them.
Others ==
  {Int64, UInt64, Int32, UInt32, Double, ByName, ByNumber, <<"date">>, Optional(Int64), Vector(Optional(Int32)),
   <<"array", Int32, 2>>, Map(Int32), Lone, Inline(Two), <<"variant", <<UInt32, Int64>>>>}

Policed ==
  {With(b, Vector(Bool), {"omit_empty", "optional"}), With(b, Vector(Bool), {"omit_empty"}),
   With(b, Bool, {"omit_false", "optional"}), With(b, Bool, {"presence_object", "optional"}),
   With(b, Optional(Bool), {"omit_empty", "reject_null"}), With(b, Optional(Bool), {"reject_null"}),
   With(b, String, {"omit_empty", "optional"}), With(b, Raw, {"raw", "empty_object"}),
   With(b, Raw, {"raw", "object_only"}), With(b, Raw, {"raw", "array_only"}),
   With(b, Optional(Raw), {"raw"}), With(b, Optional(Raw), {"raw", "omit_empty"}),
   With(b, Vector(Raw), {"raw", "object_only"})}

\* Fields with constraints, some of which do not apply or leave nothing.
Constrained ==
  {Bound(Int32, [minimum |-> 0, maximum |-> 2]), Bound(Optional(Int32), [minimum |-> 0]),
   Bound(UInt64, [minimum |-> 2, maximum |-> 0]), Bound(Double, [maximum |-> 4]),
   Bound(ByNumber, [minimum |-> 0]), Bound(ByName, [minimum |-> 0]), Bound(Bool, [maximum |-> 1]),
   Bound(String, [min_length |-> 1]), Bound(Optional(String), [max_length |-> 0]),
   Bound(Vector(Bool), [max_items |-> 1]), Bound(Optional(Vector(Bool)), [min_items |-> 1]),
   Bound(Map(Int32), [min_items |-> 1]), Bound(Optional(Bool), [max_items |-> 1])}

Structs ==
  {<<"struct", <<Field(b, t)>>>> : t \in MemberTypes}
  \cup {<<"struct", <<f>>>> : f \in Policed \cup Constrained}
  \cup {<<"struct", <<Field(a, Lone), Field(b, Int32), Field(c, Two)>>>>,
        <<"struct", <<Field(a, Vector(Two)), Field(b, Map(Lone)), Field(c, ByName)>>>>,
        <<"struct", <<Field(a, Inline(Two)), Field(b, Vector(Lone)), Field(c, Lone)>>>>,
        Deep}

MCJsons ==
  {Null, <<"int", 1>>, <<"double", 1>>, <<"bad">>, <<"empty">>, <<"object", <<>>>>,
   <<"object", [k \in {b} |-> Null]>>, <<"array", <<<<"object", <<>>>>>>>>}

RECURSIVE TypesIn(_), MCTypeNesting(_), MCNodeNesting(_)
TypesIn(t) == {t} \cup UNION {TypesIn(u) : u \in Inside(t)}
MCTypeNesting(t) == Max({0} \cup {1 + MCTypeNesting(u) : u \in Inside(t)})
MCNodeNesting(n) ==
  IF n[1] \in {"array", "object"} THEN Max({0} \cup {1 + MCNodeNesting(n[2][i]) : i \in DOMAIN n[2]}) ELSE 0

\* Some values of each type, at the ends of its range and beyond what is valid.
RECURSIVE Samples(_)
Samples(t) ==
  LET Tagged(tag, parts) == {<<tag, p>> : p \in parts}
  IN CASE t[1] = "bool" -> Tagged("bool", BOOLEAN)
       [] t[1] = "int" -> Tagged("int", {t[2], 1, t[3]})
       [] t[1] = "double" -> Tagged("double", {1, 4, 40, -40}) \cup {NotANumber}
       [] t[1] = "string" -> Tagged("string", {"", "s"})
       [] t[1] = "date" -> Tagged("date", {"2000-02-29", "2001-02-29"})
       [] t[1] = "enum" -> Tagged("enum", {-1, 1, 2, 15} \cap (t[4][2] .. t[4][3]))
       [] t[1] \in {"raw", "json"} -> Tagged(t[1], MCJsons \ {<<"object", <<>>>>})
       [] t[1] = "optional" -> {None} \cup Tagged("some", Samples(t[2]))
       [] t[1] = "inline" -> Samples(t[2])
       [] t[1] = "variant" -> UNION {{<<"alternative", i, v>> : v \in Samples(t[2][i])} : i \in DOMAIN t[2]}
       [] t[1] = "array" -> Tagged("array", [1 .. t[3] -> Samples(t[2])])
       [] t[1] = "vector" ->
            LET all == Samples(t[2])
            IN Tagged("array", {<<>>} \cup {<<x>> : x \in all} \cup {<<CHOOSE x \in all : TRUE, y>> : y \in all})
       [] t[1] = "map" -> Tagged("object", UNION {[K -> Samples(t[2])] : K \in SUBSET {a, c}})
       [] OTHER -> Tagged("object", FoldLeft(LAMBDA F, f : {f.name :> v @@ g : g \in F, v \in Samples(f.type)},
                                             {<<>>}, t[2]))

\* Documents of one integer are written by hand as well.
MCValues(t) ==
  Samples(t) \cup
    (IF t = <<"struct", <<Field(b, Int64)>>>> THEN {<<"written", n>> : n \in -20 .. 20} ELSE {})

\* What is written for one member is read as the same, and as some others.
MCReaders(t) ==
  {t} \cup
    IF Len(t[2]) = 1 /\ t[2][1].policy = {}
      THEN {<<"struct", <<f>>>> : f \in {Field(b, u) : u \in Others} \cup Constrained} ELSE {}

MCAllTypes == UNION {TypesIn(u) : u \in UNION {MCReaders(t) : t \in Structs}}

\* A node, what is in it, and what they parse to.
RECURSIVE Parts(_)
Parts(n) ==
  {n, Parsed(n)} \cup
    UNION {Parts(n[2][i]) : i \in IF n[1] \in {"table", "array"} THEN DOMAIN n[2] ELSE {}}

\* The trees that are written are such as TextSpec is about.
ASSUME NodesAssumption ==
  \A t \in Structs : \A v \in Samples(t) :
    LET n == TomlEncode(t, v) IN n # Refused => IsSection(n) /\ Closed(Parts(n))
=============================================================================
