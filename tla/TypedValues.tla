---------------------------- MODULE TypedValues -----------------------------
(***************************************************************************)
(* C++ types and their values, as far as the codecs tell them apart.  A    *)
(* type is a tuple that begins with its name:                              *)
(*   bool; int, least, greatest; double; string; date;                     *)
(*   enum, its entries, whether it is written by name, its underlying type;*)
(*   optional, vector, map and inline (InlineTable), type; array, type,    *)
(*     size; variant, types; struct, fields; raw (RawValue, and a string   *)
(*     with the policy raw); json (Json).                                  *)
(* A value is a tuple that begins with what it is; so is a node of a       *)
(* document.  A double is twice its value, or nan.                         *)
(***************************************************************************)
EXTENDS IntegerCodec, SequencesExt, FiniteSetsExt, Functions

CONSTANTS
  Dates,  \* the texts that are valid dates
  Jsons   \* the documents that a Json or a RawValue may hold

None == <<"none">>
Null == <<"null">>
NotANumber == <<"nan">>

\* The field of that name.
FieldOf(t, name) == t[2][CHOOSE i \in 1 .. Len(t[2]) : t[2][i].name = name]
FieldNames(t) == {t[2][i].name : i \in 1 .. Len(t[2])}

\* The types that a type is made of.
Inside(t) ==
  CASE t[1] \in {"optional", "vector", "array", "map", "inline"} -> {t[2]}
    [] t[1] = "enum" -> {t[4]}
    [] t[1] = "variant" -> Range(t[2])
    [] t[1] = "struct" -> {t[2][i].type : i \in 1 .. Len(t[2])}
    [] OTHER -> {}

\* The members that Default() knows, below.
Defaulted == {"bool", "int", "double", "string", "optional", "vector", "map", "raw"}

Options == {"minimum", "maximum", "min_length", "max_length", "min_items", "max_items"}

\* A field with policies, a WireField, has no options.
IsField(f) ==
  /\ \E given \in SUBSET Options : f.options \in [given -> Int]
  /\ f.policy # {} => f.options = <<>>
  /\ "optional" \in f.policy => f.type[1] \in Defaulted

IsType(t) ==
  /\ t[1] \in Defaulted \cup {"date", "enum", "array", "inline", "variant", "struct", "json"}
  /\ t[1] = "int" => t \in IntegerTypes
  /\ t[1] \in {"enum", "variant", "struct"} => t[2] \in Seq(Range(t[2]))
  /\ t[1] = "enum" => /\ t[3] \in BOOLEAN /\ t[4] \in IntegerTypes
                      /\ \A e \in Range(t[2]) : e[1] \in t[4][2] .. t[4][3]
  /\ t[1] = "array" => t[3] \in Nat
  /\ t[1] = "struct" => \A i \in 1 .. Len(t[2]) :
                          IsField(t[2][i]) /\ \A j \in 1 .. i - 1 : t[2][j].name # t[2][i].name

\* Types with all that they are made of, each nested deeper than those.
AreTypes(types, Nesting(_)) ==
  \A t \in types : /\ IsType(t) /\ Nesting(t) \in Nat
                   /\ \A u \in Inside(t) : u \in types /\ Nesting(u) < Nesting(t)

\* What a conversion of the parts of a value comes to.
All(tag, parts) == IF \E i \in DOMAIN parts : parts[i] = Refused THEN Refused ELSE <<tag, parts>>

\* What U output{} makes of a member.
Default(t) ==
  CASE t[1] = "bool" -> <<"bool", FALSE>>
    [] t[1] \in {"int", "double"} -> <<t[1], 0>>
    [] t[1] = "string" -> <<"string", "">>
    [] t[1] = "optional" -> None
    [] t[1] = "vector" -> <<"array", <<>>>>
    [] t[1] = "map" -> <<"object", <<>>>>
    [] OTHER -> <<"raw", <<"empty">>>>
=============================================================================
