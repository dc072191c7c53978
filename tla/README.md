# TLA+ models of the FlexBuffers and FlatBuffers builders

The repository is a Go library with two halves. `src/*.go` is the Go runtime of
FlatBuffers: a `Builder` that writes a buffer from its end to its beginning, and
a `Table` that reads and changes one. `src/flexbuffers` is the project's own
addition, an encoder for the schema-less FlexBuffers format: a `Builder` with
which a client puts a document together call by call, `AutoBuild`, which makes
these calls for a Go value, an encoder that lays the document out in bytes, and the
beginnings of a decoder.

All of it is sequential code: no goroutines, no locks, nothing persistent, no
messages of its own. What is hard about it lies elsewhere: long sequences of legal calls
that share hidden state (a stack and an index into it, one `nested` flag, a
`finished` flag, a head that moves), calls of which one half fails, errors that are
dropped in the middle of a recursion, pointers to elements that are written through
much later, widths that are chosen before what they must hold is known, buffers that
are moved under offsets that were taken before, tables that borrow each other's
vtables, and searches over slices that are cut.

## Inventory

| Component | State | Operations | What makes it correct |
|---|---|---|---|
| FlexBuffers types (`flexbuffers/descriptor.go`, `flexbuffers.go`) | none | type predicates, widths, `Pack` | the predicates partition the type codes as the builder assumes |
| FlexBuffers structures (`flexbuffers/object.go`) | elements, children, `offsetPtrs`, keys of a map | `insertElement`, `insertOffsetToObject`, `addElementWithKey`, `addOffsetWithKey`, `Append` | elements fit the type of their structure; offsets and children agree; keys are sorted and paired with values |
| FlexBuffers Builder (`flexbuffers/builder.go`) | `inProgress`, `headIndex`, `finished`, the root | the scalar calls, the Start calls, both also with a key, `String`, `Key`, `Append`, `End`, `Finish` | what is open is one path of one tree; what has ended is final; a failure adds nothing; a complete document is finished |
| map insertion (`flexbuffers/object.go`) | the subslice of keys the recursion is at | `determineKeyInsertionIndex` | it ends, at the index that keeps the keys sorted |
| AutoBuild and Marshal (`flexbuffers/builder.go`, `flexbuffers.go`) | the recursion over a Go value, with deferred `End`s | `AutoBuild`, `Marshal` | the document has the shape of the value, or an error is returned; the client is where it was |
| FlexBuffers encoder (`flexbuffers/object.go`) | the bytes written; `absIndex`, `fieldSize` and `targetSize` of every offset, `bSize` of every structure | `SerializeBuffer`, `serialize` | every offset leads to its target; widths hold what they are to hold |
| FlexBuffers decoder (`flexbuffers/decoder.go`) | a position in a buffer | `NewRef`, `Index`, `Interface`, the slices | it reads what the encoder wrote, and nothing outside the buffer |
| FlatBuffers buffer (`builder.go`, `encode.go`, `sizes.go`) | `Bytes`, `head`, `minalign` | `Prep`, `Pad`, `growByteBuffer`, Place, Prepend, Write | there is room for what is placed; alignment; nothing written moves or changes, counted from the end |
| FlatBuffers Builder (`builder.go`) | the buffer, `vtable`, `vtables`, `objectEnd`, `nested`, `finished`, `sharedStrings` | objects, slots, vectors, strings, the four ways to finish, `Reset` | what was put in reads back; vtables are shared only where that is invisible; nothing survives a `Reset` that points into the old contents |
| FlatBuffers Table (`table.go`, `lib.go`) | `Bytes`, `Pos` | `Offset`, `Indirect`, `Union`, getters, `Mutate*`, `GetRootAs` | inverse of the Builder; a mutation changes one field of one table |
| gRPC codec (`grpc.go`) | none | `Marshal`, `Unmarshal` | the receiver gets the root the sender finished |
| Struct (`struct.go`) | none | forwarding | nothing to check |

How they interact: by calls only. A call of either Builder runs to its end before
the next. In FlexBuffers, the Builder holds pointers to structures, structures
hold pointers to elements of other structures (`offsetPtrs`), and the encoder
later writes through these pointers. In FlatBuffers, the client holds offsets
that earlier calls returned and hands them to later ones, and the Builder keeps
some itself (`vtables`, `sharedStrings`); all count from the end of a buffer that
grows at its beginning. A finished buffer travels to a receiver, who reads it
with `Table` while the sender goes on with its Builder.

The hazards of the code, each at its line and with the properties that would
catch it, are the `hazards` of `PROJECT.json`.

## Modules

Each module extends the ones it builds on; composition follows the calls:

    FlexTypes - FlexObjects - FlexBuilder - FlexSerialize - FlexDecoder - FlexMarshal
                     |             |                                          |
               FlexMapInsert       +------------- FlexAutoBuild --------------+
                     |
               FlexKeyedStore (implemented)

    FlatBytes - FlatBuilder - FlatTable
        |
     FlatPrep - FlatLog (implemented)

The proofs about a module `M` are in `MProofs`; those about `FlexAutoBuild` are in
`FlexBuilderProofs`, those about `FlexSerialize` and `FlexDecoder` in `FlexMarshalProofs`.

### FlexBuffers

* `FlexTypes`: the type codes and the predicates on them, with the numbers of the
  source because the predicates compare numbers.
* `FlexObjects`: structures as values, with the elements they take (`allows`, `isFull`),
  where an element goes (`PutAt`), and maps. A pointer to a structure is its index in the
  heap `structs`. Elements that refer to structures keep their `target`, which is
  the inverse of the source's `offsetPtrs`. A key is its name, ordered as strings
  are, and its identity: `Equals` compares pointers to elements, so identity is
  what it can see. Payloads are left out; their type and width are kept, because
  they decide what is accepted.
* `FlexBuilder`: the Builder. One action per call; those that differ only in the type
  they pass (twenty Start calls, five scalar calls) are one action with the type
  as its argument. `ret` is what the call returns or that it panics. The deferred
  `End` of `String`, `Key` and `StringWithKey` is part of the action that runs it,
  when the start fails as well (`EndAfterFailure`).
* `FlexMapInsert`: `determineKeyInsertionIndex` with one step per call of its
  recursive closure; a subslice is its two ends. `FlexBuilder` does the same
  in one step (`KeyIndex`), and the property `InsertsAtKeyIndex` says that this is
  the same.
* `FlexKeyedStore`: what a map promises, a sequence of values per name. `FlexMapInsert`
  implements it (`StoresUnderName`) under a mapping that reads the entries in order.
* `FlexAutoBuild`: `AutoBuild` over the state of `FlexBuilder`. The recursive closure is
  a machine: `call` is the call of `auto` that is next, `frames` the activations for maps
  and slices that wait for one, each with the entries it has left. A step is what one
  activation does up to its next call or its return; its deferred `End` is part of the
  return, after failures and in a panic as well. Entries of a map come in any order,
  as Go takes them. Go values are a constant: a numbered sequence of records, so that a
  set of trees is chosen per run. Between two calls of `AutoBuild` the client makes any other
  call of the Builder.
* `FlexSerialize`: the encoder over the documents of `FlexBuilder`. A step writes one
  *part*: a structure, the vector of the keys of a map, or one key, innermost first.
  `offsetPtrs` is what serialization stores in the element that refers to a part; it survives the call, as
  it does in the source. Nothing keeps a client from serializing in the middle of a
  document, twice, or into a buffer that holds something; the model does all three. A
  byte that belongs to a scalar says which byte of which element it is; sizes, offsets
  and contexts are numbers, because others compute with them.
* `FlexDecoder`: `NewRef`, item counts, positions, scalars, slices, `Interface` and `Index`,
  as functions of the buffer: a decoder keeps no state.
* `FlexMarshal`: `Marshal`, the composition of `FlexAutoBuild` with `FlexSerialize`. Its
  property reads the value back from the bytes with a reader of its own: `Reads` has, for each value, the references
  (a type, a width, a position) at which the bytes say this value, by contexts, offsets, counts and keys as the format has
  them. The property is that `NewRef` gives one of them; the repository's decoder does not get that far.

### FlatBuffers

* `FlatBytes`: the buffer as a value. A byte is a pair of a scalar and the number of
  the byte in it, so that a byte shows which scalar it was written for; that is
  all the properties tell apart. `Prep`, growth (with the capacity that `append`
  leaves, which `Reset` turns into length), padding, Place, Prepend, Write. Which
  capacities `append` allocates is left to the run-time of Go; they are the constant
  `Capacities`, of which a request gets the least that suffices.
* `FlatPrep`: `Prep` with one step per round of its loop, and the Place calls behind it,
  which check nothing.
* `FlatLog`: what the buffer promises: a log to which scalars and padding are added.
  `FlatPrep` implements it (`KeepsLog`): growth is a stutter.
* `FlatBuilder`: the Builder, one action per call, composed of the operators of
  `FlatBytes` as the source composes its methods. Two variables are not in the source:
  `open`, what the client has begun, with which it keeps the contract of generated
  code (a vector gets the elements it was announced with, a field is set once, an
  offset is one that was returned), and `made`, what was completed where, which the
  properties compare with the contents of the buffer. A client may go on after a call has
  panicked, with what the call left behind: the file identifier that was written before
  `finish` found an object open, or the vector that `EndObject` takes for an object.
  All objects have the fields of the constant `FieldSize`; clients set any subset of
  them in any order, so that trimmed and padded vtables occur. They keep an object below
  64 kilobytes (`ObjectIsShort`), from where `WriteVtable` cuts the distances of its fields.
* `FlatTable`: a finished buffer on its way. `Send` is `FinishedBytes` and the codec's
  `Marshal`, `Unmarshal` and `GetRootAs`; a message is a copy. The receiver reads its tables with the getters
  and changes them with the `Mutate` calls, while the sender writes on.

`MC*` modules hold the values of constants. The properties stand at the end of
the module they are about, the mutants (what a plausible bug would look like)
before the definitions they stand in for.

## Runs

| Run | Question | Bounds |
|---|---|---|
| `building` | Do the stack, the tree, the maps and the `finished` flag agree, whatever is called, refused and ended? | 4 structures of at most 3 elements: vectors, typed vectors, maps, strings; an empty and two proper names. Enough for a path of three with siblings, maps in maps, every order of three entries, duplicates, every kind of refusal. |
| `mapinsert` | Does the bisection end, where it should, in logarithmic time? | 5 entries, 3 names beside the empty one: slices of 0 to 5 keys, odd and even. |
| `layout` | Do elements, offsets, contexts and heads say what was written, whenever it is serialized? | 3 structures, 2 elements of two bytes beside offsets, two calls: in the middle of a document, on the same document again, behind an earlier one. |
| `decoder` | Do flat structures hold only what they may? Does a scalar decode to what was encoded, and a key that stands first in the buffer? Does the decoder stay in the buffer with these and with tuples, which do not decode? | One structure of 9 types in the root, or a scalar of 5 types and up to 4 widths; 5 elements, one more than a quad takes; two calls, so that documents start anywhere. |
| `autobuild` | Does `AutoBuild` return, to where it was, with what it was asked for? | 12 values: maps in maps and slices, refused keys, an unknown type at several depths; called anywhere in a document of up to three structures, for one of the values. |
| `marshal` | Do the bytes that `Marshal` returns read as the value? | 14 values, up to 8 structures, keys of 1 to 3 runes, elements of two widths, every order of entries. |
| `prep` | Does `Prep` end, align and leave room? | Buffers of 0 and 5 bytes, sizes 2 and 8, 16 bytes written: growth from nothing, several rounds in one call, lengths that are no powers of two. |
| `messages` | Do tables read back with their shared vtables, each way of finishing lead to the root, and messages read as built and changed? | Fields of 2 and 4 bytes, values 0 (the default) and 1, a vector of 8-byte elements, a string, an identifier; 3 things made, 44 bytes, one message. |
| `reuse` | Do strings, vectors and shared strings survive what follows, and vanish with `Reset`? | An empty string and one of three bytes, two vectors, one `Reset`, 24 bytes. |

Three runs show a disagreement between what the source says of itself and what it
does; they are the `findings` of `PROJECT.json`:

* `duplicates`: `containsKey` never finds a key, because `Equals` compares addresses,
  so the error "duplicate keys are not allowed" is never returned.
* `offsets`: `serializeElems` counts the i-th element as i bytes behind the first, so the
  offset of an element behind the first leads beside its target wherever elements are wider than
  a byte.
* `unknown`: in a map, a value of a type `AutoBuild` does not know is left out, and
  `AutoBuild` returns no error.

Deadlock is checked in all runs but `prep`, whose client stops once the bound on the
bytes is reached. In the other runs something can always be called: a call that
is refused is a step.

Bounds are constants (`MaxStructs`, `MaxElems`, `MaxEntries`, `MaxBuilds`, `MaxCalls`,
`MaxOffset`, `MaxMade`, `MaxResets`, `MaxMessages`) in guards. They limit how much is
built, and no property depends on their values. (`MaxElems` also bounds quantifiers of
`DocumentIsTree` and of `NextEntry`, where it is the length of the longest structure.)
`MaxObject`, 65528, is not a bound of the runs but of the format. The capacities of the runs
are the multiples of 8 up to 256, as Go's allocator rounds small requests.

### What the properties leave out

The passing properties are conditional where the code is known to do something else.
Each condition is named in the property and is a hazard in `PROJECT.json`:

* Offsets behind the first element of wide structures, and offsets that do not fit the
  width that `updateBitWidth` chose before they were known (`Unscaled`, `Fits`): they
  lead elsewhere.
* Vectors of more elements than the width of one element can count (`Holds`): the size is cut.
  (`InReach` says of a whole buffer that it has neither.)
* Values for `AutoBuild` in which a structure is refused by the one around it (`Keyed`,
  `ValueIsTaken`): its entries are built into the structure around it.
* References to vectors, maps, strings and blobs, which `NewRef` and `getItemAsRef` cannot make
  without a panic.
* What a decoder reads as the items of anything but a key that stands first in the buffer: `absItemOffset`
  cancels `index_0`, so that items are sought from the beginning of the buffer. A tuple is read from its size
  field on, without its last element, or from what stands before it. There is no property that says
  tuples decode, because they do not; `ReadsStayInBuffer` says that what is read is of the buffer,
  and of tuples only where they are full: `End` accepts others, and their missing items are sought
  behind the buffer.
* Which item `Index` refers to: it hands a position on as an index, so that for items wider than a byte it
  panics, or refers to another item than was asked for (of three two-byte items, index 1 leads where the
  slices have their third). `ReadsStayInBuffer` has both outcomes, and breaks
  without the second check of the bounds, which a comment at `Index` suspects of being superfluous.
* Messages taken after the Builder wrote something behind `Finish`: `finished` stays set,
  and their first bytes are no root offset.

`ValueIsBuilt` and `MarshalReadsBack` tell scalars apart by type and width and texts by length,
and let scalars under refused keys be missing.

Seen while modelling, and without a run of their own, most of them hazards in `PROJECT.json`: the root takes a
structure after a scalar; `finished` stays set when something is started after it; the
object size in a shared vtable is that of the first object; a float of 4 bytes is
extended with zeros beside elements of 8; tuples are written with a size field the format
does not have, and may be ended before they are full; `GetVOffsetTSlot` returns the position of the field instead of its value; distances of fields are
cut to 16 bits; `EndObject` accepts a vector.

## Fairness

Four specifications state fairness: `FlexMapInsert` (`WF_vars(Search)`), `FlatPrep`
(`WF_vars(Step)`), `FlexSerialize` (`WF_all(Serialize)`) and `FlexAutoBuild`
(`WF_allVars(Activation)`). Each says that a call that has begun is carried on, and the code
justifies it: all are loops or recursions inside a synchronous call, which nothing
interrupts. On it rest `SearchEnds`, `PrepReturns`, `SerializationEnds` and
`AutoBuildReturns`. Nothing is assumed about the client, who may stop calling at
any time, so `FlexBuilder`, `FlatBuilder` and `FlatTable` state none and have no liveness property.

## Proofs

The theorems hold for every value of the constants that satisfies the named
`ASSUME`s of the modules: any set of types the API can start, scalars, texts, names, Go values,
sizes out of 1, 2, 4 and 8, and any bounds. TLC evaluates these assumptions in
every run.

* `FlexObjectProofs`: lemmas about the operators of `FlexObjects`. `PutAt` and with it
  insertion into a structure keep types and lengths; inserting a key behind all that
  are not greater keeps a sequence sorted. The second needs that the keys not
  greater than the new one are a prefix of a sorted sequence, so that counting
  them (`KeyIndex`) gives the index of the cut. Then lemmas about references: what a
  structure mentions before and after an insertion, which entries of a map stay paired,
  and when a sequence of structures is still a tree (`IsTree`) after one of them is edited
  or one is added.
* `FlexBuilderProofs`, about what is open: `TypeCorrect`, `StackCorrect`, `EndedStructuresAreFinal`,
  `CompleteDocumentsAreFinished`. The inductive invariant (`IInv`) is `TypeOK`, the type of the
  root, and `StackInv`, which strengthens `StackIsPath`: every structure on the stack exists, is a child of the
  one before, and is younger than it. The order is what
  keeps the head from also being further down, so that a change of the head
  changes nothing else on the path; without it, popping the stack could leave an ended structure on it, and
  `EndedIsFinal` would not follow. All calls are first reduced to a few shapes of step (`Shaped`: the
  document unchanged, its head edited, a structure added; the stack kept,
  popped, pushed), and the invariants are proved for the shapes.
  About the document: `MapsStaySorted`, `ContentsStayFit`, `DocumentStaysTree`, `PairsStay`,
  `FailuresAddNothing`. The invariant is that `structs` is a tree of forms. A form is a structure
  whose keys are sorted and all older than the next one to be made, and whose elements are of its
  type and few enough. A tree is a sequence in which each structure behind the root has one
  older parent that mentions it once, and nothing mentions a structure that is not there
  yet. `DocumentIsTree` alone is not inductive: a new structure could be one that an
  old offset already leads to. Each call is, for the document, one of three steps
  (`FormStep`), and for each it is shown what becomes of the structures that are not the head.
  With the theorems above, every property of the run `building` is proved.
  About AutoBuild: `AutoKeepsPath`, `AutoKeepsEnded`, `SlicesReportUnknown`,
  `AutoRestoresStack`, `AutoBuildsValue`. Each step of an activation, those
  after a dropped error included, is one of the shapes found for the Builder, if calls
  and frames are of values that exist (`CallsInv`), which is invariant because the entries of a
  value are values. For the errors the invariant (`ErrorsInv`) says where an unknown value is that slices lead
  to: still to come in the innermost frame that can report it, or reported already. That
  typed slices and arrays hold only scalars of their type, and arrays as many as their type says
  (`ValuesAssumption`), is what Go's types say; without it such a slice would end with its
  error dropped. For the stack the invariant (`NestInv`) puts the structures of the frames above
  those of the client, one for each frame and of the type of its value, and says that the entry that is next
  can be started there (`Suits`). That a map then takes it needs `ToldInv`: the new key is an object of its
  own, so that no key of the map is equal to it. The two recursive functions over the values (what slices lead
  to, where a structure comes under a key that is refused) are characterised by the least and by the greatest set that solves their equation, so that no
  induction over values is needed.
  For the value itself, `Described` gives the structures that are what a value describes, again as the least
  solution of its equation. The invariant (`BuiltInv`) says that each activation that waits has
  taken into its structure the entries it took from its value, in order if it is a slice, and no others
  (`HasTaken`), except for the one that is next; that what is open is the structure of the frame it belongs to, and
  what is ended is described for good (`SettledStays`); that of what is older than the
  call only the client's structure refers to what is new (`Started`); and that nothing failed.
  The last needs the keys and the types: a key that is not empty is always taken (`KeyIsTaken`), a slice
  has room for its items (`RoomInSlice`). An element may refer to a structure still under construction; that what an
  ended structure refers to has ended as well (`OpenBelow`) follows from the stack being a path
  of the tree and keeps what is described from being changed behind its back.
* `FlexMarshalProofs`, about SerializeBuffer: `SerializationInvariant` and from it `ElementsAreReadBack`,
  `OffsetsDoLeadBack`, `ContextsDoTell`, `HeadsDoReadBack`. The order in which parts are written is static: it
  depends on the document only. It is shown first (`PartsAreGood`) to list every part of the
  document once, each behind everything it refers to (`Good`); `InnerFirst` is a recursive
  function from the innermost structures outwards, and the proof goes by the greatest identity for which
  the lemma would fail, because ids grow inwards (`DocumentIsTree`). The invariant (`SInv`) is
  then about the call that is under way. Every part written so far stands in the buffer (`Laid`):
  its padding, its head, its elements and its contexts, one behind the other, at the width that is
  noted for it. What is still to be written is a suffix of the order, so that a part finds all that it needs
  (`Ready`). And every offset whose target is written has the target's `index0` and width
  (`OffsetsKept`), which is the clause that is not obvious: `updateBitWidth` reads what an
  earlier part, or an earlier call, has left in the offset, and `updateOffsets` of one part must not undo
  what another has told it. That no two elements have the same target (`TargetOnce`, from the
  tree) is what keeps them apart. The invariants of the Builder stay beside it (`ToldInv`, that the keys
  of a map are told where they are by its key vector alone, is one of them), and a
  serialization does not change the document (`SameDocument`).
  `HeadsDoReadBack` needs more than where things stand: how far apart they are. `updateBitWidth` makes
  room in a map for the position of its keys, and what is written there is the distance to them, from
  behind the key vector and its padding. So `SInv` also says where each part begins and ends (`Follows`), and a
  second invariant (`RoomInv`, `KeyRoomInvariant`) how wide key vectors are. Keys of one rune and
  more are at least two bytes each, which settles vectors of one and two bytes. A vector of four bytes would break
  it, and occurs only where the keys take 252 bytes (`Heavy`), so that the vector begins beyond what a byte
  addresses. The width may have been chosen by an offset of an earlier call, and the map may have got keys
  since: `Heavy` is said of the keys alone, without the buffer, so that an insertion keeps it (`HeavyStays`).
  About the decoder: `ScalarsAreReadBack`, `KeysAreReadBack`, `DecoderReadsInside`. They start where a call has
  returned (`Complete`): the root was then written last, ends the buffer (`RootIsLast`, `RootIsThere`), and `NewRef`
  takes apart what it reads there (`NewRefIs`). A scalar was written as wide as it is, because the root has no other element
  (`ElemWide`), and a float is never narrower than the four bytes a reader asks for. A key is read up to its zero,
  and none of its bytes is taken for one (`KeyIs`). That reads stay inside has to be shown even where
  the offset in the root was cut to its width and leads astray: what is left of it is not greater than it was
  (`NumberRead`), so it does not lead in front of the buffer. For a key, a reader goes back by at least one byte and then
  meets the zero that ends it, because nothing is written between the key and a root that refers to it (`KeyBeforeRoot`),
  or it stays, at a byte that is zero (`RootSendsBack`). A full tuple has at least as many elements as are counted
  (`FixedCounted`) and they are in the buffer, wherever they are (`ElemsInside`), so as many items from
  its beginning are in it, too (`ItemsInside`), and what `Index` refers to is one of them (`IndexInside`).
  About Marshal: `MarshalInvariance` and from it `MarshalIsReadBack`, the whole way from a Go value to bytes
  and back. `Reads` gives the references at which a value is read, by its definition from the bytes alone; as
  for `Described`, that its equation has a solution is shown by the least one (`ReadsDef`).
  A structure that is what a value describes is read as it where it is written (`DescribedIsRead`): by the greatest value for which that would fail, because values are numbered before those
  inside them. Its count is in front of it (`CountIs`), the type and the width of an item are in its context or
  follow from the type of the vector (`ItemIs`, `TypedItems`), the offset to a structure leads to it if it fits (`InReach`), a key is
  found through the head of the map and the vector of keys (`KeyIsRead`), and the runes of a text, all of one byte,
  end at their zero (`TextIs`). The invariant (`MarshalInv`) joins the two halves of Marshal: first
  the buffer is empty, the invariants of AutoBuild hold for a call that began with a new Builder, and the root is empty or
  holds its one element (`BuildPhase`); then nothing is built any more, that element shows the value, and
  the root is still to be written or is (`EncodePhase`). A new Builder takes every value (`ScratchTakes`), which is
  why no condition on what is there already remains; that the root gets nothing after the value
  (`RootIsKept`) follows from the stack, on which the root is then below the head.
* `FlexMapInsertProofs`: `SearchKeepsBracket`, `SearchImplementsInsertion`,
  `SearchIsLogarithmic`. The inductive invariant adds to `SearchBrackets` that the map
  is sorted and that the key was accepted: the comparison with one key says something about all keys on one side of
  it only then. At the last step the bracket is closed around one index, which is
  `KeyIndex` by the cardinality lemma. `MapIsKeyedStore` is the refinement of `FlexKeyedStore`: because
  the keys are sorted, the entries of one name stand beside each other (`EntriesBetween`); the place of a new
  one is behind all of its name, so its entries get one more at their end (`InsertAdds`), and those of
  other names are shifted or stay where they are, in their order (`PutAtShifts`).
* `FlatBytesProofs`: lemmas about the operators of `FlatBytes`. A buffer is seen from its end:
  `ByteAt(b, k)` is the byte at the offset `k`, `HasAt(b, k, n, x)` says that the scalar `x` stands
  there with `n` bytes, and `Keeps(b, c)` that `c` has all bytes of `b` where they were.
  Everything that `Prep`, `Prepend`, `Place` and `Overwrite` do is said in these terms, so that
  what stands in a buffer stands in whatever it grows to (`HasStill`). That the
  loop of `Prep` ends (`GrownGrows`) is an induction over the number of rounds, done by the
  least round that would be a counterexample (`LeastNat`), because the library's
  theorem for induction cannot be used.
* `FlatBuilderProofs`: `BuilderInvariant` and from it `TablesAreReadBack`, `VtablesAreShared`,
  `BuffersAreReadBack`, `VectorsAreReadBack`, `SharedStringsStay`, `BuilderKeepsWritten`, `BuilderTypeOK`:
  every property of `FlatBuilder` that a run checks. The inductive invariant (`IInv`) restates the properties
  in offsets, which growth does not change, and adds what they need to last. Every vtable is whole, and
  its entries are less than its own offset (`IsVtable`): that is why a vtable found later for another
  object, whose distances are compared with these entries, can never match by an entry
  of zero for a field that is there. While an object is open, each of its fields is where
  `vtable` says, above `objectEnd`; while a vector is open, there is room for the elements that are
  missing and for its length, which will be aligned when they are there (`OpenVector`), though `EndVector`
  asks for neither. `minalign` is at least the alignment of everything made (`Tracked`), from which
  a finished buffer gets its alignment (`InLine`). The proof that `EndObject` preserves it has two halves:
  the vtable that was found (`FoundEnds`) and the one that is written (`NewEnds`) are brought to
  the same description of what stands in the buffer (`Ended`), from which the rest follows.
* `FlatTableProofs`: `TableInvariant` and from it `MessagesHaveRoots` and `MessagesAreReadBack`. That a
  mutation stays in its field does not follow from `IInv`, which says where things are and not that
  they are apart: two tables could both be found where they were put and share bytes. So each
  thing is given its bytes, from its offset down to its `Bottom`, and the invariant
  adds that no two things and no vtable and thing overlap, and that the fields of a table lie
  between its bottom and its header, beside each other (`Apart`, `LaidOut`). For this to be inductive,
  what is open has to be in front of all that is finished, the elements of a vector that is not yet
  ended included (`OpenApart`). A message is seen as a buffer that is full (`View`); sending carries
  everything over, because the view keeps what the Builder had written. A change writes
  the bytes of one field (`SameOutside`), which are then of no other field, no header, no vtable
  and no other thing, so all of these stay (`MadeStays`) and the table has the new value
  (`ChangeIsCarried`), also when other tables have the same vtable. The last theorem then
  follows field by field, through the offsets (`MessageField`, `MessageVector`, `MessageText`).
* `FlatPrepProofs`: `RoomIsReserved`, `PrepDoesAlign`, `BufferIsLog`. The inductive
  invariant is `TypeOK`, `RoomIsThere`, and, while `Prep` is pending, that `minalign` knows of the size and `alignSize` is
  still the padding of the offset, which growth does not change because it moves `head`
  by as much as the buffer gets longer. The refinement of `FlatLog` rests on a lemma
  that `Written` is the same before and after `GrowOnce`.

Every safety invariant and every action property of the passing runs is stated by a theorem. Model-checked only:

* liveness (`SearchEnds`, `PrepReturns`, `SerializationEnds`, `AutoBuildReturns`): under
  fairness it needs ENABLED, which the proof system does not handle.

## Not modelled

* The part of the decoder that no reference reaches: `MapIndex`, `Map`, `KeyVector`,
  `UntypedVector` and the scanners of maps start from a reference to a vector or map, and
  every call that would make one panics while it counts the items.
  `VecScan` on tuples does what `Index` does.
* Buffers of 64 kilobytes and more, where the number of bytes `uintSize` finds may be no
  `ByteSize` for `newOffset`, and numbers of more than three bytes: the model cuts them.
* `parse` in `flexbuffers/builder.go`, which reads calls from strings for tests.
* `PrependSOffsetT`, which nothing calls; the panics of `growByteBuffer` beyond two gigabytes and of
  `PrependUOffsetT` for an offset that was never returned; `EndVector` with an object open.
  The clients of `FlatBuilder` keep the contract of generated code otherwise.
* That `FinishedBytes` is a slice of the Builder's own buffer: a message is a copy, as one that has been sent is.
* `Struct`, `doc.go`: forwarding without state.
* Contents of scalars, texts and floats beyond type, width and identity.

## What could follow

* A decoder that counts behind a position instead of in front of the buffer would make
  `MapIndex` reachable; its search could then be modelled beside that of `FlexMapInsert`.
