# A verification project for serde

serde is a C++23 library that turns JSON and TOML into C++ objects and back.
It runs on the caller's thread, keeps nothing on disk and has one piece of
state that outlives a call: a JSON parser per thread. What is hard about it is
not parallelism but *history* and *order*: calls in any order on one writer, a
document whose parser goes on to another text, TOML tables defined by lines in
any order, fields assigned one by one while user code runs in between.

The modules here are translated from `src/src/`; every definition's lines are
listed in `PROJECT.json` (`map`). File names below are relative to `src/src/`.

## Inventory

| Component | State | Operations | Interacts with | What is hard |
|---|---|---|---|---|
| Incremental JSON writer (`json/stream.hpp`) | stack of contexts, byte and node counts, first failure, flags | keys, values, containers, raw fragments, `finish`, `reset`, moves | the sink, a callback that may fail at every fragment; the field validators | order of calls, failure in mid-item, unsigned limits |
| Documents and parsers (`json/json.hpp:100-260, 1862-1960`) | a State (simdjson parser, buffer, generation) shared by pointers; the thread's parser | `parse`, `reset`, moves; copies, views and iterations of `Json` | callbacks of iterations, which may parse | stale views, ownership, capacity kept from earlier calls |
| Document limits (`json.hpp:1078-1133, 1725-1846, 1986-2016`) | node count and key lists of a walk | the full walk of `json::parse`, the shorter scan of `deserialize` | simdjson's own depth limit, in whatever state the thread's parser is | two walks that must agree; thresholds |
| Decoding of fields (`json.hpp:1267-1478`) | the object being assigned, the index, the selection | `decode_fields_into`, `decode`, `deserialize` | descriptors that depend on the object, adapters that parse | partial assignment, reordering, stale members |
| TOML documents (`toml/toml.hpp:1759-2077`) | the tree, the table that lines go to, the node count | headers, array-of-tables headers, assignments | the value parser | order of definitions, pointers into growing arrays |
| TOML values and keys (`toml.hpp:455-803, 1199-1750`) | position, depth, node count | strings, numbers, dates, arrays, inline tables | the document parser | counting through nesting; closing inline tables |
| TOML text (`toml.hpp:2149-2690`) | the output | `serialize` | read back by the document parser | order of sections |
| JSON encoding (`json.hpp:600-1075`) | node count, output | `serialize` | the same values as the writer | limits counted differently from the writer's |
| Decoding of values (`json.hpp:1480-1709`, `toml.hpp:2697-2937`) | none | integer ranges, variants, containers | adapters | range ends |
| Constraints and enums (`reflect/reflect.hpp`) | none; `reflect_enum` belongs to the user | validation, name mappings | all codecs | several snapshots of one descriptor |
| Schema builder (`json/schema.hpp`) | a list of properties | `add_*`, `encode` | JSON encoding | repeated names |
| Member and path helpers, macros, date types, module units, vendored simdjson and fast_float, tests, benchmarks | – | – | – | not modelled; the reasons are in `PROJECT.json` |

What makes each of the first five correct:

* **Writer** – what the sink has received is always a prefix of one JSON
  document within the limits; calls are accepted exactly where the grammar
  allows them; the first error is final; every call returns.
* **Documents** – a `Json` answers as valid exactly while its document is in
  its State (but for the children of an iteration whose `Json` was assigned
  another document meanwhile); documents of `json::parse` are never disturbed; a reused parser
  decides as a fresh one does.
* **Limits** – a document is refused exactly when it exceeds a limit or repeats
  a key, and `deserialize` agrees with `json::parse`.
* **Fields** – an object is accepted exactly when its selected members are
  acceptable; what is assigned, at any moment, are the fields passed so far.
* **TOML documents** – lines build the tree their statements call for, refuse
  what conflicts, and lose nothing that was said before.

* **TOML values** – every value is where its text has it, inline tables are
  sealed when they end, and the counts are those of what has been read.
* **Codecs** – what a writer accepts is within its limits and is read back as
  it was, except where the format has nothing to tell two values apart; what is
  read is a value of the type that was asked for and within its constraints.

## Plan

| # | Module | Status |
|---|---|---|
| 1 | `StreamWriter`, implementing `OutputDocument` | checked and proved |
| 2 | `DocumentLifetime` | checked and proved |
| 3 | `TomlDocument`, implementing `TomlStatements` | checked and proved |
| 4 | `DocumentLimits` | checked; `TypeOK`, `UnwalkedWithinLimits`, `WalkExact` and `SameVerdict` proved |
| 5 | `FieldDecode` with `StaticFieldLookup` | checked and proved, the look-up of keys too |
| 6 | `TomlValues`: arrays and inline tables in each other, dotted keys, depth and nodes | checked and proved |
| 7 | `TomlText`: the lines of a tree of nodes, given to `TomlStatements` | checked; `LinesAccepted` and `TableOfLine` proved |
| 8 | `IntegerCodec`, `Reflection`, `JsonCodec`, `TomlCodec`, with `TomlText` composed by `RoundTrip` | checked; types, both round trips, limits and integers proved; `Codecs` ties the recursion |
| 9 | a descriptor that changes between the calls of one encode; a pair of writers for moves in mid-document; the escapes sent by `quoted()` | not begun |

## How the parts are composed

```
 StreamWriter ──implements── OutputDocument ── JsonText

 DocumentLifetime      DocumentLimits      FieldDecode ── StaticFieldLookup
   (which Json is        (which texts        (which members
    still a view)         are refused)        are assigned, in what order)

 TomlNodes ─┬─ TomlDocument ──implements── TomlStatements
            ├─ TomlValues                       │ reads the lines of
            └─ TomlText ────────────────────────┘
                  │
                  └──────────────────── RoundTrip ─┬─ JsonCodec ─┐
                                            │      └─ TomlCodec ─┴─ Reflection ── TypedValues
                                      RoundTripProps                                   │
                                            │                                     IntegerCodec
                                         Codecs  (the recursion)
```

## The modules

### The incremental writer

`StreamWriter` models every public call fragment by fragment. A call
(`String`, `Scalar`, `Raw`, `StartContainer`, `EndContainer`, `Key`, `Finish`,
`Reset`, `Assign`, `MoveFrom`) checks and counts as the code does before it
writes, and sets `pc`, the fragment to send next; the `Emit…` actions send them
one at a time, each of which the sink or the byte limit may stop. `doc` and
`sent` are history: the document as `JsonText`, a grammar of JSON at the level
of tokens, reads it from the fragments, and the bytes the sink took.
`OutputDocument` is the abstract promise: a document that only grows by legal
tokens within its limits, may be sealed when complete and is frozen by a
failure. A text is its size, whether it is UTF-8 and the pieces it is sent in;
a raw fragment is its size, depth and nodes.

### Documents and parsers

In `DocumentLifetime` a State is an identity with a generation; parsers and
`Json` variables hold it or point into it. `Parse` follows
`parse_with_state()`: the size check, the generation, the capacity, the parse,
the walk, each of which may end it. A `Json` is an element, a place in the tape
of a State (`tape`), and the State and generation that `valid()` compares.
`StartWalk`, `VisitChild` and `EndWalk` are `for_each_member` and
`for_each_element` with calls of other operations in between, as a callback may
make them: an iteration fixes at its start which elements it goes through, and
gives each child (`WalkedChild`) the State and generation that the walked `Json`
holds at that moment. An iteration over a temporary is one whose `Json` nobody
assigns to. History variables say which parse a document comes from, and which
ones the element (`doc`) and the generation (`stamp`) of a `Json` come from.

So a callback that assigns to the walked `Json` changes what later children
carry. After `doc = *parser.parse(other)` within `doc.for_each_element(...)` the
remaining children of the old array have the generation of the new document:
`valid()` is true for them although they index the tape of the old one
(`json.hpp:195, 213`). Such a child is a *stray* (`stamp` differs from `doc`), as
are its own children and copies. `ValidExactly` is claimed for all other `Json`s
and is false for strays; they occur in the run. A callback that parses into
another variable, or assigns to the walked one a `Json` of the same document,
makes none.

### Document limits

`DocumentLimits` makes a document up value by value (`Visit`, `Close`, `End`),
in the order of the text, and has both walks see each value: `full` is
`enforce_limits()`, with `DuplicateKeyScan`; `scan` is `scan_structure()`. The
verdicts `ParseAccepts` and `DeserializeAccepts` put them together as
`json::parse` and `deserialize` do. simdjson is external: it refuses what is
nested deeper than its `max_depth`, which for the thread's parser may come from
an earlier call. `facts`, the history variable, is what there is to say of the
document independently of either walk.

### Decoding of fields

`FieldDecode` follows `decodeFieldsInto()`: `Begin` fetches the descriptors and
asks the selector, `Collect` fills the index, one action per outcome of
`decode_member` (`Skip`, `NotAssignable`, `Keep`, `BadDefault`, `Missing`,
`Assign`, `Refuse`), `Check` is the strict check. `StaticFieldLookup` is the
hash table of names known at compile time; the hash function is a parameter. An
adapter may use the thread's parser (`Assign` may clear `valid`) when the
object comes from `deserialize()`. The descriptors may change their order with
the value of one member, as `ReorderedFields` in `test/json_contract.cpp` has it.

### TOML documents

In `TomlDocument` a tree is a function from addresses (keys and places in
arrays) to nodes; what C++ holds as a pointer is an address, with `Latest`
saying that no array has grown since. `Walk…` actions take one component of a
key path at a time, as the loops of `open_table()` and `insertValueAt()` do,
creating tables on the way, and a conflict may come at any of them.
`TomlStatements` says in one step what a whole line adds or why it is refused.
`TomlNodes` holds what a node is and how one is put into a tree; the document
and the values share it.

### TOML values

`TomlValues` reads one value with what is nested in it. `frames` is the recursion
of `parseArray()` and `parseInlineTable()`: for each container that is open, the
content made so far, the key whose value is being read and whether line breaks
were allowed before. `ReadScalar`, `OpenArray`,
`OpenTable`, `Key`, `PutElement`, `PutMember`, `Comma`, `Close` and `Malformed` are what
the text may go on with at each point; the checks of depth, nodes, items and string
sizes come where the code has them. A dotted key of an inline table goes
through tables it made itself or that dotted keys before it made, and makes the
rest, as `insertValueAt()` does. Where values have ended (`said`) and whether a
key has clashed with another of its table (`clash`) is history, with which the
result is compared.

### Types, values and both codecs

`TypedValues` has C++ types as nested tuples, and values and nodes of documents
alike; `Reflection` the descriptors of enums and the constraints of fields.
`JsonEncode` gives, for a value, its node with the number of values that
`EncodeContext` counts for it and the levels `depth` goes down, which is all the
limits depend on, since each is checked on entry; `Text` is what the written
text parses to (a whole `double` is written without a fraction and comes back as
an integer). `JsonDecode` follows `decodeValue()` type by type, with the checks that
are left out at compile time for the 64-bit types, and the order of the policies
in `decodeWireField()`. `TomlCodec` has the same for TOML. `IntegerCodec` has what
both make of an integer, a type being its least and greatest number. All these are
operators: a call of the codec runs to its end with nothing in between.

The codecs are recursive, and the provers take no recursive operators. So each of
these operators is one call: what it makes of itself for the parts of a type, value or
node is a CONSTANT operator (`JsonEncoded` in `JsonEncode`, `TomlDecoded` in
`TomlDecode`, `FitsPart` in the property `Fits`, …). `Codecs` makes the recursion of
them: it instantiates all the modules up to `RoundTripProps` once, each constant being
a RECURSIVE operator that is defined as the operator it stands for in that instance,
and `RoundTrip.cfg` gives the constants these values. TLC so runs the recursive codecs,
and the proofs, which are about one call and the calls it makes, have as their
hypothesis what `Codecs` defines: that each constant is what it stands for (`Recursion`
in `CodecProofs`).

`TomlText` is different, because the order of lines matters: `todo` holds the
lines that the loops and recursive calls of `appendTable()` have still to write
(the loop over the elements of an array of tables as the line of its next element,
`NextElements`); `WriteAssignment`, `WriteHeader` and `WriteElementHeader` write one each, and
each line is at once a step of `TomlStatements` in `Reader`. So what is checked
is the writer against the promise that the parser implements.

`RoundTrip` puts them together: a value of a type is serialized and the text
read into the same type or another, or a document written by hand is read.

## Runs

| Run | Instance | What it shows |
|---|---|---|
| `stream_writer` | compact and pretty, two containers deep and a limit of two items, three texts, three raw fragments, up to 24 bytes | books, limits, verdicts, `Implements` and `CallReturns` |
| `document_lifetime` | two States, two parsers, two `Json`s, four texts, three options | validity, ownership, independence, `AsFresh` |
| `parse_invalidates` | the same | *violated*, see findings |
| `toml_document` | four lines over two keys, five paths, a scalar, an inline table, an array | the shape of the tree, `Keeps`, `DefinesOnce`, `Implements`, … |
| `toml_dotted_twice` | the same | *violated* |
| `document_limits` | documents of five values, objects of up to four members, three keys, two inline places, six options | `WalkExact`, `UnwalkedWithinLimits`, `SameVerdict` |
| `depth_left_to_simdjson` | the same | *violated* |
| `field_decode` | three fields, six registrations, objects of up to three members, all selections | `AcceptsExactly`, `OutputExact`, `NothingFromGone` |
| `toml_values` | values up to three levels deep and of four nodes, two elements, keys `a`, `a.a`, `a.b` and one of four parts, strings of no or two bytes with a limit of one | `ConflictsExact`, `NothingLost`, `Sealed`, `LimitsExact`, `LineBreaks` |
| `round_trip` | 76 structs of one to three members: every kind of type, nested optionals, arrays of tables in tables in arrays of tables, inline tables, variants, policies, constraints, invalid enums, a member that is not counted where the limits end; integers of 5 bits for 64; limits of 5 levels, 9 values, 2 items | what is written is read back, in lines that are accepted, within limits and types |
| `missing_kept`, `names_fetched` | the same; one registration renamed at run time | *violated* |

**Bounds.** Each is just beyond the case it has to contain. Writer: every limit
is reached and exceeded within the bytes allowed, runs of spaces are longer
than one fragment (`SpacesLength` 3 for 64). Lifetime: `MaxCalls` lets a parser
be used, reset or moved over, and used again; a third parser or State adds
another bystander, and the proofs cover any number. TOML: four lines hold a
header, a longer header, a dotted key and a header again; paths of three
components end, pass through and start at every kind of node. Limits: an object
of two members just fits in two inline places (16 in the code), so that its repeated
key is refused at once, and one of three spills; five values
give three levels and an object after an object. Fields: three fields hold two
of one name, two that change places and a required one; three members hold a
repeated key beside another. Values: three levels have an inline table within an
array within an inline table, and the fourth is refused; four nodes are one more
than the deepest value needs. Round trip: integers run from below the least of
64 bits to above the greatest unsigned one, so that every pair of a number and a
type that the checks tell apart occurs; a struct of three members has each of
the three loops of `appendTable()` between the other two, and its members have
them again.

**Stopping.** A document, a decode and a finished TOML document end, so their
runs do not check for deadlock; the writer may always be reset, and its run does.

## Fairness

Only the writer has a liveness property: every call returns. It assumes weak
fairness of the emissions (`FairSpec`), justified because a call runs on its
caller's thread until it returns and a sink is required to return. Calls
themselves are not fair: nobody has to make one. `CallReturns` shows that the
loops of `indent()` and `quoted()` always have less to send.

## What is proved

TLAPS checks the following for all values of the constants, from the
assumptions that the modules name.

* **`StreamWriterProofs`**: `Typing`, `BooksInStep`, `LimitsHold`,
  `VerdictsHold`. The inductive invariant is `Synchronised /\ WithinLimits /\
  CallFits /\ StackFits`. The first two are what is wanted. `CallFits` says that
  what the running call was checked for still holds of what it has yet to send
  (a value counted before its prefix is sent would otherwise have no reason to
  be legal when its token comes), and `StackFits` that only the innermost
  context can expect a value. One lemma per call and per emission;
  `SiteLegal` is the heart: the token sent at each site is legal there.
  A section of its own proves `Implementation`: each step is a step of
  `OutputDocument` or a stutter; `Origin` is added because the abstract document
  only takes raw values of sizes that some fragment has.
* **`DocumentLifetimeProofs`**: `Typing`, `Validity`, `Separation`,
  `Independence`, `Undisturbed`, `Freshness`, `Straying`. The invariant is that every
  `Json`, also one that may not be looked at any more and a stray too, has the
  generation of its State exactly when the State holds the document that the
  generation was taken from, and that no generation is from the future. `Validity` is
  this for a `Json` whose element is of that document. `Straying` says where
  the others come from: no step makes a first stray unless the `Json` being walked
  is of another document than its iteration.
  That a parser is never shared needs `Apart`: a State made by a parser is held
  by at most that one, and one made by `json::parse` by none. `Freshness` compares
  a parser that has been used with a new one: either takes on the depth that it
  lacks before it parses, so that the walk alone decides (`DepthIsTheWalks`).
* **`DocumentLimitsProofs`**: `Typing`, `TextBounding`, `Unwalked`, `Exactness`,
  `Agreement`. The first three: what
  `deserialize()` does not walk exceeds no limit, for any keys, sizes, options
  and number of inline places. The invariant `Bounds` says that the text is as
  long as anything a limit bounds (`TextBounds`) and that the open containers
  are no more than the values seen, which bounds the depth. `Typing` needs
  `FrameOK`: the keys that `observe()` keeps on the stack are at most the
  children already taken from the object, and it keeps them there only when the
  whole object fits. The other two: the walk of
  `json::parse` is exact, and `deserialize()` reaches its verdict without the
  walk, for any document and options. A repeated key is refused at once while
  keys are compared on the stack, and only when its object closes if they are
  kept on the heap; so neither walk is exact before the end. The invariant
  `Walks` therefore says what is pending: of each open object, `Seen`, that a
  walk has kept all its keys and finds repeated only what is; and of the
  document, that it has been refused for all it exceeds or repeats, or that some
  open object still holds a repetition on the heap. At the end no object is open.
* **`FieldDecodeProofs`**: `Finding`, `Typing`, `NothingRead`, `Outputs`,
  `Acceptance`, for any members, registrations, selections and inputs. `Finding`
  is about the two indexes over the keys alone, and needs only that keys are
  ordered one way and that there are as many names as the index was made for:
  sorting permutes the places (counting who precedes is one to one, and the
  pigeonhole principle makes it onto), equal names follow their registration, and
  the table finds the first place of a key, or no place of its name. Its invariant
  while the table is filled is `IsTable`: the first place of each name met so far
  is reached before any empty bucket; a free bucket is left since the capacity is
  more than twice the names (`CapacityLarge`, `FreeBucket`). `Outputs` and
  `Acceptance` have one hypothesis, `NamesRegistered`: that the names known at
  compile time are those of the fields, without which `names_fetched` shows
  otherwise. The invariant is `Typed /\
  FoundOK /\ OutputExact /\ Judged`: `FoundOK` says that the index holds, of each
  selected field, the first member of its name among those it has met, and `Judged`
  that nothing has been refused that is acceptable and everything that has been
  passed fits. That every member is some field of the order at hand (`OrderComplete`)
  is the pigeonhole principle again.
* **`TomlNodesProofs`**: what putting a node or grafting a content into a tree
  of nodes preserves, for both parsers. A tree is more than a set of addresses:
  all that leads to a node is there and may hold it, and arrays have no gaps.
  One lemma, `Regrown`, says when a tree that has grown is a tree; putting and
  grafting are instances of it. It also has what `Names` does to an address (it
  leaves the keys, in their order, and counts are all there is to it: `Count`),
  that there is one way along a path (`SameWay`, `GoesOn`, `OneEnd`), and the principle of the least counterexample, `Least`, which stands for
  induction over the naturals.
* **`TomlDocumentProofs`**: `Typing`, `NothingLost`, `AdditionsBelowOpen`,
  `DefinitionsOnce`, `Bounding`, for any keys, key paths, values and number of lines,
  from the assumptions that the values which lines assign are such as `TomlValues`
  accepts (`IsValue`, which its `Sealed` promises) and that what is in them has been
  counted (`CountAssumption`, which its `NothingLost` and `Counted` promise). The invariant is
  `TreeFits /\ CallTypes /\ Ways /\ ContentFits /\ Defined`: the tree is one, arrays of
  tables hold open tables, and all that leads to `current_table`, and to where a
  call has walked, is open. `Ways` is what the safety of the pointers rests on: only a
  new element of an array of tables can close a way, and that very step leaves
  `current_table` at the new element. `Defined` relates the history of headers to the
  definitions in the tree. For `Bounding`, `Budget` says that the values of the tree
  are no more than `nodes`, and the value of a running call is counted already but
  not yet put; headers and dotted keys put tables only. `UnderHeader` relates
  `current_table`, an address, to the key path of the last header: `Headed` says
  that the names of the one are the other, and, while a call walks, that the names
  of where it has walked are the keys it has taken.
  The module ends with `Refinement`, that the parser implements
  `TomlStatements`. The abstract document takes a statement in one step, where the
  parser walks its path key by key, so `Known` joins to the invariant, and to
  `Headed`, how far the walk has come: `Opening` and `Assigning` give the tree in the
  middle of a call as the tree before it with the tables that the keys taken so far
  imply, and `Shapes` says of both that all that leads to an open table is open, and
  that no element of an array is a table which a header implied. What makes a walk
  the only one is that from any table each key leads one way, to a latest element
  where it is an array of tables, so that two walks of the same keys end in one place
  (`EndsOnce`, `FurthestIsEnd`, from the lemmas of `TomlNodesProofs`). One lemma for
  each action.
* **`CodecProofs`**: `TakingLines` is `LinesAccepted` and `LinesInPlace` is
  `TableOfLine`, for any keys and order of them and any finite tables, nested to any
  depth: any set of nodes will do that has with each table and array of tables what is
  in it (`Closed`), which TLC finds of every tree that `round_trip` writes
  (`NodesAssumption`). `LinesAccepted` is not inductive, for it looks at
  the next line only. The invariant, `IInv`, says of all lines still to be written
  that each could be read now (`Ready`: its table is open and reached by latest elements,
  and there is nothing yet at its place, `Slot`, but the earlier elements of its array)
  and that none disturbs a later one (`Before`: they make different things, the
  earlier off the way to the later, and no header comes before an assignment of the
  table at hand). A line adds to the tree at its place and right below (`Grew`), which
  leaves the others as they are (`ReadyStays`, `WayStays`), and the lines of a new table
  are in turn and below all there was (`NewLines`). That the parser then walks to the table
  the line is of, and to no other, is `FurthestAt`, by `OneEnd` again. `TakingTexts` says
  both of the lines that `RoundTrip` writes: the set is of what is inside the written
  struct (`Enclosed`), which is closed whatever the type and the value
  (`AllEnclosed`).

  `JsonIntegers` and `TomlIntegers` are about `IntegerCodec`: for any width of the 64-bit
  integers and any signed or unsigned type that is no wider (`IntegerTypes`), an integer
  that stands in a document is read as itself if the type has it and the format can say
  it, and refused otherwise (`Exactly`). `ReadingIntegers`, which is `IntegersExact`, has
  this of whole documents and with constraints.

  The other theorems are about all types and values, nested to any depth: `ReadingTypes` is
  `TypeOK`, `JsonReadBack` is `JsonRoundTrip`, `TomlReadBack` is `TomlRoundTrip` and
  `TextsWithinLimits` is `JsonWithinLimits`. Their hypothesis
  `Recursion` is what `Codecs` defines, said of the types at hand. Induction over types is
  the least counterexample again (`NoLeastType`): a set of types each of which has a part in
  the set is empty, since parts are nested less deep (`TypesAssumption`). For `ReadingTypes`
  that set is of the types some node is misread for (`AllFitting`), one lemma per kind of
  type; constraints are checked on what was read (`ValidKeeps`), an absent member is what
  its field allows (`AbsentFits`). For `JsonReadBack` it is of the types some value of which
  is not read back (`AllBack`): what is written and what can be read for a type have one
  kind where the type has but one (`WrittenKind`, `ReadKind`), so that the
  alternatives of a variant are told apart, and null is no text of what an optional
  holds (`NotNull`); what a policy leaves out is what is made of its absence
  (`OmittedBack`). The invariants of the behaviour (`TypeInv`, `JsonInv`) only carry these
  facts from serializing to deserializing.

  `TomlReadBack` has the way through the lines and the parser's tree in between. Its
  invariant `TripInv` says, while lines are written (`Writing`), that they could all be read
  (`IInv`) and that the tree is so far what it is to become (`Placed`): some function gives
  each address of the tree the node that was written there, a table has what its node has
  but for the lines still to come (`SectionTold`), an array as many elements as have been
  written (`ArrayTold`), a value what its text parses to. One lemma per kind of line keeps it
  (`PlacedAssignment`, `PlacedHeader`, `PlacedElement`). When no line is left, the tree read
  and the node written correspond part by part (`Reflects`, from `AllRead`; that the recursive
  function `NodeAt` is defined on the whole tree is `NodesRead`, the lengths of its addresses
  being bounded). Then an induction over types: whatever corresponds to the node of
  a value is decoded as that value (`AllTomlBack`), where an absent member has no node
  (`AllLeftOut`), whole doubles come back from integers and the least integer from its magnitude.
  That only what TOML has no text for is refused is an induction of its own (`AllRefusals`).

  `TextsWithinLimits` compares what `EncodeContext` counts with the text: levels are a maximum and
  nodes a sum over the parts, which the model folds, so that first the recursion that the fold
  is defined by has a solution (`SumsExist`, over the cardinality of subsets) and greater
  summands have greater sums (`SumsCompare`). By induction over documents and types, each node
  that is written has no more levels and values than were counted for it (`JsonsCover`,
  `RawsCover`, `AllCovered`), but for those of types with members that are not counted.
* **`TomlValuesProofs`**: `Typing`, `Conflicts`, `Sealing`, `BreaksInArrays`,
  `Counting`, `Complete`, for any keys, key paths, sizes and limits. The invariant has one
  condition for each open container (`FrameFits`): an array is a sealed value
  already; of a table, `Members` says that each node is in what has been
  assigned or a dotted table on the way to it, and that only the latter may be
  passed. `InsertsExactly` follows: `insertValueAt()`, which looks at nodes and
  never at paths, succeeds exactly when the path conflicts with none before.
  `allow_newlines_` must be known of containers that are not innermost too
  (`FramesFit`): each has kept what the one around it calls for. `Complete`, that
  nothing is lost, has an invariant of its own, since the content of a container is
  relative to it and part of the value is in each: the open containers lie where the
  one around them reads a value (`Chained`), and what they hold together is what has
  been said with all that leads to it, but for the ways to what is still open
  (`Balanced`; `BalancedWith` while a value that has been read is still to be put).
  `Limiting` is `LimitsExact`. The parser counts open containers, and the property
  counts the values that lead to an address of the finished value; so `Nesting`
  says of all values that have begun (`Begun`) that those which lead to one that is
  open are the containers around it (`Placed`), and hence that none has more around
  it than may be open (`Nested`). A value that will be refused for its keys may lie
  deeper, so this is said while no open table has a key that clashes (`Sound`).
  That no array has more than `MaxItems` elements is `Sized`.

## What is only model-checked

`CallReturns`, which is liveness, and the violations that are expected. Every other
property of the passing runs is a theorem. The library's theorems of induction take an operator, which the
installed provers cannot instantiate; inductions over the naturals, finite sets, types and documents
go through the least counterexample instead, with
recursive functions in the model (`power`, `after`, `NodeAt`, folds) whose existence is proved
first. What the proofs about codecs take as hypothesis, that the recursive calls come to what
the operators come to (`Recursion`), holds by the definitions of `Codecs`, which the
provers cannot expand and TLC evaluates: of types, values and nodes that are finite and
nested to some depth, as those of programs are (`TypesAssumption`, `JsonsAssumption`).
That the fields of a struct have different names is assumed too (`IsType`): the code does
not check it, and what repeated names do to decoding is in `FieldDecode`.

## What a round trip does not keep

`JsonRoundTrip` and `TomlRoundTrip` are claims about types for which the format can
tell all values apart. Outside of them, by the code:

* an optional of an optional, and a raw or `Json` value inside an optional: `null`
  is the outer absence;
* in JSON, not-a-number with `non_finite = null_value`; in TOML, maps whose values
  are absent optionals (the key is left out), and arrays with an absent element,
  which `serialize` refuses;
* members that a policy leaves out and no policy lets be absent, and `empty_object`,
  which reads back as the text `{}`;
* variants of which an earlier alternative reads the text of a later one.

Policies that write `{}` for a member (`presence_object`, `empty_object`) do not count
it, so `JsonWithinLimits` leaves types with such members out, however deep in the type
they are (`Uncounted`): such a text may have
more values, and one level more, than the limits say.

Proving the properties for all types brought up cases that no instance had; each is
in the properties now, as the code has it:

* an enum written by number whose underlying type is unsigned and of 64 bits has values
  that TOML refuses (`Unwritable`);
* absence can be nested: an element of an array that is an optional with nothing in
  it at any depth has no text in TOML (`Absent`);
* with `omit_empty`, an absent optional enum whose descriptor is invalid is left out when
  written, and its absence is refused when read (`Recovers`);
* a `Json` member that is null is written under `reject_null` and refused when read;
  `object_only` and `array_only` are checked of a member that is not raw only
  when it is read (`Recovers`);
* alternatives of a variant that have texts of any kind cannot be told apart (`JsonKeeps`);
* an integer is read only by a field whose constraints are valid (`IntegersExact`);
* a document may not hold whole doubles for a `Json` or a raw value to be read back
  as it was (`JsonsAssumption`);
* the `{}` of a struct nested in the one that is written is not counted either: a text
  can exceed the limits for the sake of any struct in its type (`Uncounted`).

## Findings

* `ParseInvalidates`: a parse refused for the size of its text leaves earlier
  documents valid, where the documentation says that every parse ends them.
* `DefinesDottedOnce`: a table that a longer header has implied and a dotted key
  has then defined may be defined again by a header.
* `DepthLeftToSimdjson`: with `enforce_document_limits` off, the depth that
  `deserialize` accepts depends on earlier calls on the same thread.
* `OnlyMissingKept`: when the adapter of a field calls `deserialize`, later
  optional members that are there are taken for missing, and the decode succeeds.
* `NamesFetched`: for a type with compile-time names, a strict decode does not
  know a field by the name it has at run time.

## What is not modelled

The characters of strings, numbers, keys and dates (lexing, escapes, formatting);
the schema builder; enum descriptors that change during a call; the adapters
`to_wire` and `from_wire` (beyond what one may do to the thread's parser); the
narrowing of `double` to `float`; the text of error messages;
UTF-8 (a text is valid or not); iterations within iterations (`DocumentLifetime` has one at a time); memory, whose exhaustion ends the process; the
vendored parser beyond what the code relies on; and the components whose reasons
`PROJECT.json` gives. The sink's obligation not
to re-enter its writer and the selector's to have no side effects are assumed, as
the documentation states them.
