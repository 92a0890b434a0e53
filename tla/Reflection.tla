----------------------------- MODULE Reflection -----------------------------
(***************************************************************************)
(* The descriptors of enums and the constraints of fields, as both codecs  *)
(* check them.  An enum is described by the sequence of its entries, each  *)
(* <<value, name>>.  A field has a name, a type, the set of its wire       *)
(* policies and its options, which map those that are given to numbers.    *)
(*                                                                         *)
(* A call that a recursive function makes of itself, for a part of what it *)
(* is given, is a CONSTANT operator here and in the codecs: Codecs.tla     *)
(* makes the recursion of them.                                            *)
(***************************************************************************)
EXTENDS TypedValues

CONSTANTS
  Unwrapped(_),         \* OptionalValue() of what an optional holds
  ValidPart(_, _, _)    \* ValidFieldValue() of it

\* validate_descriptor()
ValidDescriptor(t) ==
  /\ t[2] # <<>>
  /\ \A i \in 1 .. Len(t[2]) :
       /\ t[2][i][2] # ""
       /\ \A j \in 1 .. i - 1 : t[2][j][1] # t[2][i][1] /\ t[2][j][2] # t[2][i][2]

Sound(t) == t[1] = "enum" => ValidDescriptor(t)

\* enum_from_string(), validate_enum() and enum_to_string()
Named(t, name) ==
  IF ValidDescriptor(t) /\ \E e \in Range(t[2]) : e[2] = name
    THEN <<"enum", (CHOOSE e \in Range(t[2]) : e[2] = name)[1]>> ELSE Refused

Numbered(t, n) ==
  IF ValidDescriptor(t) /\ \E e \in Range(t[2]) : e[1] = n THEN <<"enum", n>> ELSE Refused

EntryName(t, n) == (CHOOSE e \in Range(t[2]) : e[1] = n)[2]

OptionalValue(t) == IF t[1] = "optional" THEN Unwrapped(t[2]) ELSE t

\* Neither is given, or they may be given for this type and leave something between them.
Bounds(options, least, most, apply) ==
  {least, most} \cap DOMAIN options # {} =>
    apply /\ ({least, most} \subseteq DOMAIN options => options[least] <= options[most])

\* validate_options()
ValidOptions(t, options) ==
  LET u == OptionalValue(t)
  IN /\ Bounds(options, "minimum", "maximum",
               u[1] \in {"int", "double"} \/ (u[1] = "enum" /\ ~ u[3]))
     /\ Bounds(options, "min_length", "max_length", u[1] = "string")
     /\ Bounds(options, "min_items", "max_items", u[1] \in {"vector", "array", "map"})
     /\ Sound(u)

Between(n, options, least, most) ==
  /\ least \in DOMAIN options => n >= options[least]
  /\ most \in DOMAIN options => n <= options[most]

\* validate_field_value()
ValidFieldValue(t, v, options) ==
  IF t[1] = "optional" THEN v = None \/ ValidPart(t[2], v[2], options)
  ELSE /\ t[1] = "enum" => Numbered(t, v[2]) # Refused
       /\ t[1] \in {"int", "double", "enum"} /\ {"minimum", "maximum"} \cap DOMAIN options # {} =>
            v # NotANumber /\ Between(v[2], options, "minimum", "maximum")
       /\ t[1] = "string" => Between(Len(v[2]), options, "min_length", "max_length")
       /\ t[1] \in {"vector", "array", "map"} =>
            Between(Cardinality(DOMAIN v[2]), options, "min_items", "max_items")

\* validate_field(): a field without options is checked only if it is an enum.
ValidField(f, v) ==
  OptionalValue(f.type)[1] = "enum" \/ f.options # <<>> =>
    ValidOptions(f.type, f.options) /\ ValidFieldValue(f.type, v, f.options)
=============================================================================
