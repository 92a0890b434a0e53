SPECIFICATION Spec
CONSTANTS
  a = a
  b = b
  c = c
  Keys <- MCKeys
  InOrder <- MCInOrder
  Int64Max <- MCInt64Max
  Dates <- MCDates
  Types <- Structs
  Values <- MCValues
  Readers <- MCReaders
  AllTypes <- MCAllTypes
  TypeNesting <- MCTypeNesting
  NodeNesting <- MCNodeNesting
  Jsons <- MCJsons
  HasTypePart <- HasTypes
  Unwrapped <- OptionalValues
  ValidPart <- ValidValues
  JsonEncoded <- EncodesJson
  RawEncoded <- EncodesRaw
  NodeEncoded <- EncodesNode
  JsonDecoded <- DecodesJson
  RawDecoded <- DecodesRaw
  TomlEncoded <- EncodesToml
  TomlParsed <- ParsesToml
  TomlDecoded <- DecodesToml
  KeepsPart <- AllKeep
  FitsPart <- AllFit
  JsonKeepsPart <- AllKeptByJson
  TomlKeepsPart <- AllKeptByToml
  UnwritablePart <- AnyUnwritable
  AbsentPart <- AllAbsent
  LevelsPart <- AllLevels
  SizePart <- WholeSize
  UncountedPart <- AnyUncounted
  MaxDepth = 5
  MaxNodes = 9
  MaxItems = 2
CHECK_DEADLOCK FALSE
INVARIANTS
  TypeOK
  TableOfLine
  LinesAccepted
  TomlRoundTrip
  JsonRoundTrip
  JsonWithinLimits
  IntegersExact
