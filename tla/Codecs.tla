------------------------------- MODULE Codecs --------------------------------
(***************************************************************************)
(* The recursion of the codecs, and of the predicates about them, over the *)
(* parts of types, values and nodes: each operator is one of the modules   *)
(* before, its recursive calls being calls of itself.  (With a LET around  *)
(* them, TLC's statistics of coverage do not follow the calls.)            *)
(***************************************************************************)
EXTENDS RoundTripProps

RECURSIVE HasTypes(_, _), OptionalValues(_), ValidValues(_, _, _)
RECURSIVE EncodesJson(_, _, _), EncodesRaw(_, _), EncodesNode(_), DecodesJson(_, _), DecodesRaw(_, _)
RECURSIVE EncodesToml(_, _), ParsesToml(_), DecodesToml(_, _)
RECURSIVE AllKeep(_, _, _), AllFit(_, _), AllKeptByJson(_, _), AllKeptByToml(_),
          AnyUnwritable(_, _), AllAbsent(_, _), AllLevels(_), WholeSize(_),
          AnyUncounted(_)

Calls ==
  INSTANCE RoundTripProps WITH
    HasTypePart <- HasTypes, Unwrapped <- OptionalValues, ValidPart <- ValidValues,
    JsonEncoded <- EncodesJson, RawEncoded <- EncodesRaw, NodeEncoded <- EncodesNode,
    JsonDecoded <- DecodesJson, RawDecoded <- DecodesRaw,
    TomlEncoded <- EncodesToml, TomlParsed <- ParsesToml, TomlDecoded <- DecodesToml,
    KeepsPart <- AllKeep, FitsPart <- AllFit, JsonKeepsPart <- AllKeptByJson,
    TomlKeepsPart <- AllKeptByToml, UnwritablePart <- AnyUnwritable, AbsentPart <- AllAbsent, LevelsPart <- AllLevels,
    SizePart <- WholeSize, UncountedPart <- AnyUncounted

HasTypes(t, v) == LET whole == Calls!HasType(t, v) IN whole
OptionalValues(t) == LET whole == Calls!OptionalValue(t) IN whole
ValidValues(t, v, options) == LET whole == Calls!ValidFieldValue(t, v, options) IN whole

EncodesJson(t, v, asNull) == LET whole == Calls!JsonEncode(t, v, asNull) IN whole
EncodesRaw(t, v) == LET whole == Calls!EncodeRaw(t, v) IN whole
EncodesNode(n) == LET whole == Calls!EncodeJson(n) IN whole
DecodesJson(t, n) == LET whole == Calls!JsonDecode(t, n) IN whole
DecodesRaw(t, n) == LET whole == Calls!DecodeRaw(t, n) IN whole

EncodesToml(t, v) == LET whole == Calls!TomlEncode(t, v) IN whole
ParsesToml(n) == LET whole == Calls!Parsed(n) IN whole
DecodesToml(t, n) == LET whole == Calls!TomlDecode(t, n) IN whole

AllKeep(t, options, v) == LET whole == Calls!Keeps(t, options, v) IN whole
AllFit(t, v) == LET whole == Calls!Fits(t, v) IN whole
AllKeptByJson(t, asNull) == LET whole == Calls!JsonKeeps(t, asNull) IN whole
AllKeptByToml(t) == LET whole == Calls!TomlKeeps(t) IN whole
AnyUnwritable(t, v) == LET whole == Calls!Unwritable(t, v) IN whole
AllAbsent(t, v) == LET whole == Calls!Absent(t, v) IN whole
AllLevels(n) == LET whole == Calls!Levels(n) IN whole
WholeSize(n) == LET whole == Calls!Size(n) IN whole
AnyUncounted(t) == LET whole == Calls!Uncounted(t) IN whole
=============================================================================
