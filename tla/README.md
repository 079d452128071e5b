# TLA+ models of `sym`

This directory holds TLA+ models of the PS1 debug-symbol decoder in
`src/unnamed/part_001` (package `sym`) and of the C declaration printer in
`src/class.go` (package `c`). TLC checks them. Each module is translated
from the Go source. `PROJECT.json` records the definitions and the source
lines each one models (`map`), the runs, the mutants that show each property
can fail, the findings, and the hazards of the code.

## The system

| Part | Source | What it does |
|---|---|---|
| Class/Kind tag tables | `class.go` 1-38 (Class); Kind is not under `src/` | numeric codes and their labels |
| Type codec | `Type.mods()`, not under `src/` | the 16-bit encoded type: base type in the low 4 bits, a stack of 2-bit modifiers above |
| Record decoder | `part_001` | `parseSymbol` reads a 5-byte header (Value u32, Kind u8), then dispatches on Kind. Name1, Name2, Def and Overlay bodies are read by `struc.Unpack`; Def2 is read by `parseDef2` (binary.Read of Class/Type/Size, then `max(1, #ARY)` groups read by `Dimensions.Unpack`, then TagLen/Tag and NameLen/Name). Every body has a `BodySize`, and `Symbol.Size` adds the header. |
| C type model | `class.go` 77-368 | Typedef, BaseType, PointerType, StructType, UnionType, EnumType, ArrayType, FuncType and Field; each has a short `String` and a definition form `Def`. `StructType.Def` and `UnionType.Def` print the body with `// size` and `// offset` comment lines; `EnumType.Def` sorts the members by value with `sort.Slice`, in place, and prints them; `Typedef.Def` prints `typedef` and the `Field.String` of the name. |
| Declarator synthesizer | `class.go` 370-442 | `Field.String` rewrites the field's name by the "spiral" rule (`*name`, `name[n]`, `(name)(params)`) and recurses on the element type until it reaches a leaf, printed as `<leaf> <name>`. Unions whose tag `isFakeTag` are printed inline by `fakeUnionString`. |
| Build and CI | `part_000` (Makefile), `class.go` 39-76 (.travis.yml) | compile and lint |

How the parts interact: the caller (not under `src/`) calls `parseSymbol`
repeatedly on one `io.Reader`. `parseDef2` asks the type codec how many ARY
modifiers the record's type has. The caller builds C types from the decoded
symbols and prints them with `Field.String` and `Def`. The decoder runs in a
single thread. Its hard behaviours are the offsets at which the stream can
end, and the meaning of `io.EOF` versus `io.ErrUnexpectedEOF` at each of
them. The printer is pure recursion; its hard behaviour is how nested
pointer, array and function constructors combine.

## Modules

- `TypeCodec.tla`: `mods(t)` is the modifier stack of an encoded type. It
  reads 2-bit slots from bit 4 upwards and stops at the first empty slot.
  The source of `Type.mods` is not under `src/`, so this module is modelled
  from spec.md 3 and 4.1 (it is marked `spec_modelled` in the map). Only the
  ARY code 0x3 appears in the source (part_001 line 243).
- `SymbolDecoder.tla`: the record decoder.
  - State: `stream` (the bytes), `pos` (the reader's offset), `syms` (the
    symbols returned so far, each with its start offset `at`, its end offset
    `next`, `hdr` and `body`), `status` (`"reading"` or the error that ended
    decoding), `errKind`, and `errSym`, the `*Symbol` returned with that
    error: nil after a header error, or a symbol with its `Hdr` set and a
    nil `Body` after a body or kind error (`SymbolValue`, `HeaderOnly`).
  - Reading: `ReadFull` is `io.ReadFull` on a bytes reader. It returns
    io.EOF if no byte remains and io.ErrUnexpectedEOF if only some remain.
    `Unpack` is `struc.Unpack`, which reads field by field with
    `io.ReadFull` (a string field reads the number of bytes held in its
    `sizeof` field). `ReadDims` is `Dimensions.Unpack`: it appends each
    value, including the 0, and turns io.EOF into io.ErrUnexpectedEOF.
    `ParseDef2` follows `parseDef2` step by step.
  - Listing: `DimensionsString` is `Dimensions.String`. It applies `Itoa`
    (`strconv.Itoa`, digit by digit) to each length before the first 0,
    and gives "0" when there is none. `Def2DimsText` is the "dims" part of
    `Def2.String`, which joins the groups.
  - Actions: each action is one whole `parseSymbol` call, split by its
    outcome: `ReadHeaderFails`, `UnknownKind` (the `default:` of
    `parseSymbolBody`), `ReadBodyFails` and `ReadSymbol`. After an error
    the caller stops; `Done` is that stop, as stuttering.
- `RecordStream.tla`: the abstract specification of the caller's loop of
  `parseSymbol` calls. Its state is the records at the front of the stream
  that are whole and of a known kind (`recs`), what follows them (`rest`:
  a record of unknown kind with its header, or something else), the
  records handed out (`out`) and `result`. `Deliver` hands out the next
  record; `Stop` ends decoding once all are out. Which io error ends
  decoding is left out here.
- `MCSymbolDecoder.tla`: builds the inputs. It encodes lists of up to
  `MaxRecords` records taken from a catalogue of 9 shapes, using its own
  encoder written from spec.md 6. It then cuts each encoding at every
  length. The ghost variable `origin` keeps the records, their offsets and
  the cut, so the properties can compare what was decoded with what was
  encoded.
- `CTypes.tla`: the C type model and `Field.String` as operators. Types
  are records, one shape per Go type. Text is a sequence of tokens:
  keywords, punctuation, identifiers, tags, and decimal numbers (`Dec` is
  `%d`). Spacing, and the `// offset` and `// size` comments of
  `fakeUnionString`, are left out. Tags are kept as character sequences
  because `isFakeTag` inspects their characters. `AtoiOK` is
  `strconv.Atoi`'s acceptance: an optional sign, then digits. `Leaf` is the
  union and default cases; `Words` is `"struct %s"` of a tag.
- `Declarator.tla`: `Field.String` as a state machine.
  - State: `caller` (the field the caller holds), `f` (the method's own
    copy, which the value receiver lets each case rewrite) and `out`.
  - Actions: one action per case of the type switch: `SpiralPointer`,
    `SpiralArray`, `SpiralFunc` and `PrintLeaf`. The nested calls on
    parameters and on union members are the operator `FieldString`.
- `CDecl.tla`: a reader of C declarations, written from the C declarator
  grammar rather than from the code. It is the reference that the printed
  text is read back with. `Visible` is what a declaration can show of a
  type: an inlined union has no tag, and a union named by its tag shows no
  fields. `ReadTypeName` reads a type name: a type specifier and an
  abstract declarator (`ReadAbstract`). Each result of a recursive reader is handed to an operator that
  takes it apart (`Declared`, `Grouped`, `NextParam`, ...), which keeps
  TLC's coverage pass linear.
- `MCDeclarator.tla`: the inputs are a field `p` of every legal C type with
  at most `Depth` constructors around one of 10 leaves. The leaves are int,
  short, a struct, an enum, a typedef, and four unions whose tags are
  `U`, `_0fake`, `_-1fake` and `_xfake`, each with an int member and a
  pointer-to-array member, and a fifth union tagged `_0fake` whose members
  are an int and a short, whose inlined body is read back in full. Two further leaf sets (`EmptyTagLeaves`,
  `FakeTagLeaves`) are used by the runs about empty and fake tags.
- `EnumDef.tla`: `EnumType.Def`. State: `build` (the Go release the
  program is built with), `tag`, `members` (the type's `Members` slice,
  shared with every holder of the type) and `outs` (the renderings returned
  so far). The one action `Def` is the whole method: it sorts `members` in
  place and appends the rendering. `sort.Slice` is modelled by what it does
  for slices of at most 12 elements: Go 1.19 and later run `insertionSort`;
  Go 1.18 and earlier first run one Shell pass with gap 6 (`ShellPass`),
  then `insertionSort`. `.travis.yml` pins no Go release, so `build` is
  chosen in `Init` from `Builds`. The tabwriter layout is left out.
- `MCEnumDef.tla`: enums of 0 to `MaxMembers` members, with values 0 or 1,
  tagged or not. The ghost variable `orig` keeps the members in the order
  they were built.
- `CTypeDef.tla`: every `Def` but `EnumType.Def`: `StructType.Def`,
  `UnionType.Def`, `Typedef.Def`, and the `Def` of base, pointer, array and
  function types, which return the type's `String`, its reference form
  (`TypeString`, built from `PointerString` "%s*", `ArrayString` "%s[%d]"
  and `FuncString` "%s (*)(params)").
  State: `type` (the receiver) and `out` (the text, `<<>>` until Def
  returns). One action per method (`StructDef`, `UnionDef`,
  `TypedefDefStep`, `BaseDef`, `PointerDef`, `ArrayDef`, `FuncDef`). A comment line is one token whose characters include
  the digits of `%X`, `%04X` and `%d` (`Hex`, `Hex04`, `Dec`), so the
  comments can be parsed back. `FieldComment` is the heuristic of lines
  196-200.
- `MCTypeDef.tla`: structs and unions of up to two fields, with and without
  a size and a tag, fields at offsets 0, 4 and 0x1A with sizes 0 and 4, of
  type int, `short[2]`, pointer to function and a fake-tagged union; and
  typedefs of base, pointer, array, function-pointer and struct types. A
  definition is read back by `CDecl` extended with a comment token before a
  member. Also base, pointer, array (lengths 2 and 10) and function types
  (no parameters, or one parameter and `...`), nested two deep over `int`
  and `struct S`, whose `Def` is read back by `CDecl`'s `ReadTypeName`. A
  function type is expected to read as a pointer to it, which is what the
  code's comment `int (*)(int a, int b)` says `FuncType.String` prints.
## Runs

| Run | Expect | What it shows |
|---|---|---|
| `decoder_safety` (`MCSymbolDecoder.cfg`) | pass | `RoundTripSize`: the bytes consumed for each symbol equal `Size()`. `DecodedPrefix`: the symbols decoded are exactly the records encoded, in order, at their offsets, with dimension groups in ARY order and lengths little-endian. `DimsTruncationSurfaced`: a cut inside a dimension list gives io.ErrUnexpectedEOF. `UnknownKindHalts`: an unknown kind stops decoding right after the header, and the error names the kind. `ErrorSymbolHoldsFailedHeader`: the symbol returned with the final error carries exactly the header of the record that failed and a nil body, or is nil when that header is cut or absent. `DimsListed`: the dims words of `Def2.String` read back as every group's encoded lengths, in order, with a 0 for a group that has none; the terminator kept by `Dimensions.Unpack` is never listed. `CompleteStreamDecoded`: a stream of whole records with known kinds ends with io.EOF and every record decoded. `RefinesRecordStream`: the decoder implements `RecordStream`. At every cut it hands out exactly the whole records of known kinds in order, and stops with no such record left, on the kind error exactly when an unknown-kind header follows. The deadlock check shows that every reading state has a step. |
| `decoder_clean_end` | violation | `CleanEndOnlyAtBoundary`: io.EOF is returned for a cut at a field boundary inside a record (see Findings). |
| `decoder_dims_terminator` | violation | `DimsExcludeTerminator`: the decoded dimension groups keep their terminating 0. |
| `declarator_safety` (`MCDeclarator.cfg`) | pass | `WellFormedDeclaration`: the text reads back as one declaration of the field's name. `ReadsBackUnlessPointerToArray`: the declared type is the field's type whenever no pointer points directly at an array. Among the leaves is a fake-tagged union with no pointer-to-array member, so an inlined union body is read back and compared too. |
| `declarator_ptr_to_array` | violation | `ReadsBack`: a pointer to `int[2]` named `b` prints as `int *b[2]`. |
| `declarator_fake_tag` | violation | `InlinedExactlyForFakeTags`: a union tagged `_-1fake` is inlined. |
| `declarator_empty_tag` | violation | `WellFormedDeclaration` over leaves with an empty tag: a field of an anonymous enum prints `enum p`. |
| `declarator_fake_struct` | violation | `FakeTaggedAggregatesInlined`: a struct tagged `_0fake` prints `struct _0fake p`. |
| `enum_def_safety` (`MCEnumDef.cfg`) | pass | `TypeOK`: the members stay a permutation of those the enum was built with, and every rendering prints each once. `RenderSorted`: every rendering lists the members by ascending value, under both Go releases. `RenderIdempotent`: the second rendering equals the first, although the first reordered the shared slice. |
| `enum_stable` | violation | `StableAmongTies`: under Go 1.18, members of equal value are printed out of the order they were read. |
| `typedef_safety` (`MCTypeDef.cfg`) | pass | `DefReadsBack`: a definition reads back as the type (keyword, tag, every field in order with its type; for a typedef one declaration of the name with the underlying type). `LayoutCommentsTruthful`: the size comment is printed exactly when the size is known and states it; every offset comment states its own field's offset and size, and every field with a size has one. `ReferenceFormReadsBackWhenFlat`: the `Def` of a base, pointer, array or function type reads back as a C type name for the type, whenever no pointer or array wraps an array or function and no function returns one. |

Every property of a passing run has a mutant in `PROJECT.json`. A mutant is
a plausible bug in the mapped code (a dropped case, an off-by-one, a missing
conversion) that TLC finds. The mutants are defined in the modules just
before the definition they replace.

### Findings

1. The record decoder reports a stream that ends between two fields of a
   record as io.EOF, the clean end. For example, a stream holding only a
   record's 4-byte Value, or a Def2 record cut just before TagLen.
   This is because `struc` and `binary.Read` read each field with
   `io.ReadFull`. spec.md 4.2 and 7 say this is a truncation
   (part_001 lines 75, 84, 228-270).
2. `Dimensions.Unpack` keeps the 0 terminator in each group (part_001
   line 327). spec.md 8 says it never does. `Def2.BodySize` relies on the
   terminator being kept.
3. `Field.String` prints a pointer to an array as an array of pointers
   (class.go line 375), which breaks C's declarator rule.
4. `isFakeTag` accepts a signed number between `_` and `fake` (class.go
   line 438). spec.md 4.4 says the number is non-negative.
5. A struct, union or enum with an empty tag prints `enum p` in a
   declaration (class.go 181, 222, 260), which is not C. spec.md 7 says a
   missing tag renders as an anonymous type.
6. Only unions are tested with `isFakeTag` (class.go 404); a struct with a
   fake tag prints as `struct _0fake p` (line 409). spec.md 4.4 inlines both.
7. `sort.Slice` is not stable. Built with Go 1.18 or earlier, its gap-6
   Shell pass prints member 7 of the values `1,0,0,0,0,0,0` before members
   2 to 6 of equal value (class.go 274). spec.md 4.3 asks for read order
   among ties. With Go 1.19 or later the run passes for these sizes.

`EnumType.Def` sorts the type's own `Members` slice in place (class.go
274), as spec.md 5 and 9 note. `RenderIdempotent` checks that a second
rendering still equals the first.

The condition of `ReferenceFormReadsBackWhenFlat` is needed. Without it,
TLC finds that `PointerType.String` (class.go 159) prints a pointer to
`int[2]` as `int[2]*`, which C does not parse; a pointer to a function
prints `int (*)()*`. `ArrayType.String` (line 309) prints an array of 3
`int[2]` as `int[2][3]`, which C reads as 2 arrays of 3. No caller under
`src/` prints such a type by its `String`, and spec.md asks nothing of
these forms beyond naming the type, so this is noted here rather than kept
as a failing run.

## Bounds

- Decoder: `MaxRecords = 2`, with every cut of every encoding. Two records
  are enough for a record to start at a nonzero offset and for an error in
  the second record after the first succeeds. The catalogue covers every
  kind and a zero-length name and tag. It covers Def2 with 0, 1 and 2 ARY
  modifiers, one with a PTR under its ARY, and a dimension of 256 (low byte
  0). It also has a Value ≥ 2^16 and an unknown kind. Values stay below
  2^31, where TLC's integers stop. The run has 6,260 distinct states and
  takes about 30 s with coverage reporting. With `MaxRecords = 3` the same
  properties also hold (98,980 distinct states), but that run takes about
  6 minutes, so the configuration keeps 2.
- Declarator: `Depth = 3`. This gives pointers to functions returning
  pointers, arrays of pointers to functions, functions with parameters and
  variadic lists, and pointers to arrays, all nested around every leaf. The
  run has 2,880 distinct states and takes about 15 s.

- Enum: `MaxMembers = 7`, values 0 and 1, `MaxDefs = 2`. The Shell pass
  of Go 1.18 only acts on slices of 7 to 12 members, so 7 is the least
  that reaches it; two calls show the effect of the first sort on the
  second. 3,060 distinct states.
- Type names: two levels of nesting are the least at which an element is
  itself a pointer, array or function, which is where the reference form
  can go wrong; lengths 2 and 10 give one- and two-digit `%d`.
- Definitions: two fields are enough for the heuristic of line 198, which
  looks at the second field; offset 0x1A needs a hex letter, and size 300
  (0x12C) a multi-digit `%X`. With the type names, 3,408 distinct states.

## Fairness

No module assumes fairness. `Field.String` recurses only on strict parts
of a finite type (the element, the return type, the parameters and the
members), so on the model's types, which are finite records, it returns
without a fairness argument, and `Declarator.tla` states no liveness
property. A cyclic type, which Go pointers could form (a struct whose
field points back at it is printed by tag, but a `PointerType` whose
`Elem` is itself would not be), cannot be expressed in the model.

The decoder has no fairness. Its loop is sequential and terminates,
because each symbol consumes at least one byte. This is covered by the
deadlock check together with the `Done` stutter step, which is enabled
only after an error: a reading state with no step would be a deadlock.
`CompleteStreamDecoded` and `RefinesRecordStream` state what must hold
when decoding ends. Weak fairness on the decoder's actions is not used
because TLC's ENABLED evaluation re-evaluates the nested reads of
`parseSymbolBody` at every reference, which makes it exponential in the
number of fields. The refinement is therefore checked as safety, with
`RecordStream` stated without fairness.

## Not modelled (yet) and the plan

- The `String` methods of the symbols, headers and bodies, other than the
  dimension listing, and `Dimensions.Pack` (which panics): formatting only.
- The tabwriter alignment of an enum's lines, and the comment lines of
  `fakeUnionString` (the same code as in `StructType.Def`, checked there).
- The Class/Kind tables, the Makefile and the CI configuration have no
  behaviour to check.
- No composition of decoder and printer: the code that turns decoded
  symbols into C types is not under `src/`, so there is no source for the
  composition to follow.
- The caller of `parseSymbol` is not under `src/`, so the model's caller
  stops at the first error. What it holds then is checked
  (`ErrorSymbolHoldsFailedHeader`). A caller that skipped the error and
  called again is not modelled. After a truncation it would get io.EOF,
  since the reader has consumed the rest of the stream. After an unknown
  kind it would read the body as the next header. spec.md 7 asks errors to
  carry the byte offset and record index; the code's errors carry neither.
  The header in the returned symbol is the only context.
- `Def2.String` joins the dimension groups with spaces, so for ARY ARY
  the groups `[2] [3 3]` and `[2 3] [3]` print alike. `DimsListed` checks
  that the joined words are right. That the listing cannot be split back
  into groups is a loss of information, which an invariant that holds
  cannot state. A failing run for it would be a thirteenth run, and the
  project keeps twelve. It is listed as a hazard in `PROJECT.json`.
