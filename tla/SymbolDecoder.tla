--------------------------- MODULE SymbolDecoder ---------------------------
(***************************************************************************)
(* The record decoder of src/unnamed/part_001 (package sym): repeated     *)
(* calls of parseSymbol on one io.Reader over a byte stream.  Each step   *)
(* is one whole call of parseSymbol: the header read by struc, the kind   *)
(* dispatch of parseSymbolBody and the body read (struc for Name1, Name2, *)
(* Def and Overlay, parseDef2 for Def2).  A call either appends a symbol  *)
(* or returns an error, after which the caller stops.                     *)
(*                                                                         *)
(* The reader is a bytes reader: io.ReadFull of n bytes at offset p       *)
(* succeeds when n bytes remain, returns io.EOF when none remain and      *)
(* io.ErrUnexpectedEOF when some but fewer than n remain (consuming them).*)
(* struc.Unpack reads a struct field by field with io.ReadFull, and       *)
(* binary.Read of a fixed-size integer is io.ReadFull of its width, so    *)
(* every field read is ReadFull below.                                    *)
(***************************************************************************)
EXTENDS Naturals, Sequences, SequencesExt, TypeCodec, TLC

CONSTANT Inputs     \* the byte streams the decoder may be given

ASSUME Inputs \subseteq Seq(0..255)

VARIABLES
    stream,     \* the bytes behind the io.Reader
    pos,        \* the reader's offset: bytes consumed so far
    syms,       \* the symbols returned so far, in order
    status,     \* "reading", or the error that stopped decoding
    errKind,    \* the kind named by an "unknown kind" error
    errSym      \* the *Symbol returned with that error (see SymbolValue)

vars == <<stream, pos, syms, status, errKind, errSym>>

\* Kind tags (type Kind, not under src/; values from spec.md section 3).
KindName1   == 1
KindName2   == 2
KindDef     == 148  \* 0x94
KindDef2    == 150  \* 0x96
KindOverlay == 152  \* 0x98

\* Mutant: parseSymbolBody without its KindOverlay case.
KnownKindsNoOverlay == {KindName1, KindName2, KindDef, KindDef2}

\* The kinds parseSymbolBody has a case for.
KnownKinds == {KindName1, KindName2, KindDef, KindDef2, KindOverlay}

Errors == {"EOF", "UnexpectedEOF", "UnknownKind"}

-----------------------------------------------------------------------------
(* Reading.                                                                *)

\* Mutant: a read that ends exactly at the end of the stream fails.
ReadFullOffByOne(s, p, n) ==
    IF p + n < Len(s)
    THEN [err |-> "nil", bytes |-> SubSeq(s, p + 1, p + n), pos |-> p + n]
    ELSE [err |-> IF p = Len(s) THEN "EOF" ELSE "UnexpectedEOF",
          bytes |-> <<>>, pos |-> Len(s)]

\* io.ReadFull(r, buf) with len(buf) = n, the reader at offset p of s.
ReadFull(s, p, n) ==
    IF p + n <= Len(s)
    THEN [err |-> "nil", bytes |-> SubSeq(s, p + 1, p + n), pos |-> p + n]
    ELSE [err |-> IF p = Len(s) THEN "EOF" ELSE "UnexpectedEOF",
          bytes |-> <<>>, pos |-> Len(s)]

\* The value of little-endian bytes (struc "little", binary.LittleEndian).
LittleEndian(bytes) == FoldRight(LAMBDA b, acc : b + 256 * acc, bytes, 0)

\* A field of a struct read by struc: an unsigned integer of a fixed width
\* in bytes, or a string whose length is the value of a sizeof field.
UintField(name, width) == [name |-> name, width |-> width, sizeof |-> ""]
StringField(name, lenField) == [name |-> name, width |-> 0, sizeof |-> lenField]

\* struc.Unpack of the fields of a struct, in order, stopping at the first
\* failed read; a string field of length 0 reads nothing.  The result
\* holds the error, the reader offset and the fields read.
RECURSIVE Unpack(_, _, _, _)
Unpack(s, p, fields, acc) ==
    IF fields = <<>> THEN [err |-> "nil", pos |-> p, val |-> acc]
    ELSE LET f == Head(fields)
             n == IF f.sizeof = "" THEN f.width ELSE acc[f.sizeof]
             r == ReadFull(s, p, n)
             v == IF f.sizeof = "" THEN LittleEndian(r.bytes) ELSE r.bytes
         IN  IF r.err # "nil" THEN [err |-> r.err, pos |-> r.pos, val |-> acc]
             ELSE Unpack(s, r.pos, Tail(fields), acc @@ (f.name :> v))

\* The layouts of the struc-tagged structs.
SymbolHeaderFields == <<UintField("Value", 4), UintField("Kind", 1)>>
Name1Fields   == <<UintField("NameLen", 1), StringField("Name", "NameLen")>>
Name2Fields   == <<UintField("NameLen", 1), StringField("Name", "NameLen")>>
DefFields     == <<UintField("Class", 2), UintField("Type", 2),
                   UintField("Size", 4), UintField("NameLen", 1),
                   StringField("Name", "NameLen")>>
OverlayFields == <<UintField("Length", 4), UintField("ID", 4)>>

\* parseDef2 reads Class, Type and Size with binary.Read, then the
\* dimension groups, then TagLen and Tag, then NameLen and Name; a tag or
\* name of length 0 reads nothing.
Def2HeadFields == <<UintField("Class", 2), UintField("Type", 2),
                    UintField("Size", 4)>>
Def2TailFields == <<UintField("TagLen", 1), StringField("Tag", "TagLen"),
                    UintField("NameLen", 1), StringField("Name", "NameLen")>>

\* Mutant: Dimensions.Unpack returning io.EOF as it is.
RECURSIVE ReadDimsKeepEOF(_, _, _)
ReadDimsKeepEOF(s, p, dims) ==
    LET r == ReadFull(s, p, 2)
        dim == LittleEndian(r.bytes)
    IN  IF r.err # "nil"
        THEN [err |-> r.err, pos |-> r.pos, val |-> dims]
        ELSE IF dim = 0
             THEN [err |-> "nil", pos |-> r.pos, val |-> Append(dims, dim)]
             ELSE ReadDimsKeepEOF(s, r.pos, Append(dims, dim))

\* Mutant: Dimensions.Unpack without the break on 0.
RECURSIVE ReadDimsNoBreak(_, _, _)
ReadDimsNoBreak(s, p, dims) ==
    LET r == ReadFull(s, p, 2)
    IN  IF r.err # "nil"
        THEN [err |-> "UnexpectedEOF", pos |-> r.pos, val |-> dims]
        ELSE ReadDimsNoBreak(s, r.pos, Append(dims, LittleEndian(r.bytes)))

\* Dimensions.Unpack: read uint16 values, appending each (the 0 that ends
\* the group included) until a 0 is read; running out of bytes is
\* io.ErrUnexpectedEOF, also when no byte of the value was there.
RECURSIVE ReadDims(_, _, _)
ReadDims(s, p, dims) ==
    LET r == ReadFull(s, p, 2)
        dim == LittleEndian(r.bytes)
    IN  IF r.err # "nil"
        THEN [err |-> "UnexpectedEOF", pos |-> r.pos, val |-> dims]
        ELSE IF dim = 0
             THEN [err |-> "nil", pos |-> r.pos, val |-> Append(dims, dim)]
             ELSE ReadDims(s, r.pos, Append(dims, dim))

\* Mutant: parseDef2 without "if narray == 0 { narray = 1 }".
NArrayUnforced(t) == Len(SelectSeq(mods(t), LAMBDA m : m = ModARY))

\* The number of dimension groups of a Def2 of type t: the ARY entries of
\* its modifier stack, and 1 when there are none.
NArray(t) ==
    LET narray == Len(SelectSeq(mods(t), LAMBDA m : m = ModARY))
    IN  IF narray = 0 THEN 1 ELSE narray

\* The loop of parseDef2 reading k groups with struc.Unpack(r, &dims).
RECURSIVE ReadDimsGroups(_, _, _, _)
ReadDimsGroups(s, p, k, groups) ==
    IF k = 0 THEN [err |-> "nil", pos |-> p, val |-> groups]
    ELSE LET g == ReadDims(s, p, <<>>)
         IN  IF g.err # "nil" THEN [err |-> g.err, pos |-> g.pos, val |-> groups]
             ELSE ReadDimsGroups(s, g.pos, k - 1, Append(groups, g.val))

\* parseDef2(r) at offset p.
ParseDef2(s, p) ==
    LET h == Unpack(s, p, Def2HeadFields, <<>>)
        d == ReadDimsGroups(s, h.pos, NArray(h.val["Type"]), <<>>)
        t == Unpack(s, d.pos, Def2TailFields, h.val @@ ("Dims" :> d.val))
    IN  IF h.err # "nil" THEN h
        ELSE IF d.err # "nil" THEN d
        ELSE t

\* parseSymbolBody(r, kind) at offset p, for a kind it has a case for.
ParseSymbolBody(s, p, kind) ==
    CASE kind = KindName1   -> Unpack(s, p, Name1Fields, <<>>)
      [] kind = KindName2   -> Unpack(s, p, Name2Fields, <<>>)
      [] kind = KindDef     -> Unpack(s, p, DefFields, <<>>)
      [] kind = KindDef2    -> ParseDef2(s, p)
      [] kind = KindOverlay -> Unpack(s, p, OverlayFields, <<>>)

-----------------------------------------------------------------------------
(* Sizes.                                                                  *)

Name1BodySize(b) == 1 + b["NameLen"]
Name2BodySize(b) == 1 + b["NameLen"]
DefBodySize(b) == 2 + 2 + 4 + 1 + b["NameLen"]
\* Mutant: Def2.BodySize without the TagLen byte.
Def2BodySizeNoTagLen(b) ==
    LET dimsLen == FoldLeft(LAMBDA acc, dims : acc + 2 * Len(dims), 0, b["Dims"])
    IN  2 + 2 + 4 + dimsLen + b["TagLen"] + 1 + b["NameLen"]
Def2BodySize(b) ==
    LET dimsLen == FoldLeft(LAMBDA acc, dims : acc + 2 * Len(dims), 0, b["Dims"])
    IN  2 + 2 + 4 + dimsLen + 1 + b["TagLen"] + 1 + b["NameLen"]
OverlayBodySize(b) == 4 + 4

\* binary.Size(SymbolHeader): a uint32 and a one-byte Kind.
HdrSize == 4 + 1

\* Symbol.Size: header size plus the BodySize of the body's type.
Size(sym) ==
    HdrSize +
    CASE sym.hdr["Kind"] = KindName1   -> Name1BodySize(sym.body)
      [] sym.hdr["Kind"] = KindName2   -> Name2BodySize(sym.body)
      [] sym.hdr["Kind"] = KindDef     -> DefBodySize(sym.body)
      [] sym.hdr["Kind"] = KindDef2    -> Def2BodySize(sym.body)
      [] sym.hdr["Kind"] = KindOverlay -> OverlayBodySize(sym.body)

-----------------------------------------------------------------------------
(* Listing.  Text is a sequence of words, each a sequence of characters;   *)
(* strings.Join(.., " ") puts the words of its parts side by side.         *)

DigitChars == <<"0", "1", "2", "3", "4", "5", "6", "7", "8", "9">>

\* strconv.Itoa of a non-negative n: its decimal digits.
RECURSIVE Itoa(_)
Itoa(n) == IF n < 10 THEN <<DigitChars[n + 1]>> ELSE Itoa(n \div 10) \o <<DigitChars[(n % 10) + 1]>>

\* The lengths of a group before its first 0 (the loop's break).
BeforeZero(dims) ==
    LET stop == IF \E i \in 1..Len(dims) : dims[i] = 0
                THEN CHOOSE i \in 1..Len(dims) : dims[i] = 0 /\ \A j \in 1..i - 1 : dims[j] # 0
                ELSE Len(dims) + 1
    IN  SubSeq(dims, 1, stop - 1)

\* Mutant: Dimensions.String without the break on 0.
DimensionsStringNoBreak(dims) ==
    IF dims = <<>> THEN <<Itoa(0)>> ELSE [i \in 1..Len(dims) |-> Itoa(dims[i])]

\* Dimensions.String: the Itoa of each length up to the first 0, joined by
\* " "; "0" when there is none.
DimensionsString(dims) ==
    IF BeforeZero(dims) = <<>> THEN <<Itoa(0)>>
    ELSE [i \in 1..Len(BeforeZero(dims)) |-> Itoa(BeforeZero(dims)[i])]

\* The "dims %v" part of Def2.String: the String of each group, joined by
\* " ".
Def2DimsText(b) == FlattenSeq([j \in 1..Len(b["Dims"]) |-> DimensionsString(b["Dims"][j])])

-----------------------------------------------------------------------------
(* The decoder.                                                            *)

\* A *Symbol as a caller sees it after an error: nil, or a symbol whose
\* Hdr pointer is nil (<<>>) or points at a header (<<h>>) and whose
\* Body is nil.
SymbolValue(isNil, hdr) == [isNil |-> isNil, hdr |-> hdr, body |-> "nil"]
NilSymbol == SymbolValue(TRUE, <<>>)

InitFrom(s) ==
    /\ stream = s
    /\ pos = 0
    /\ syms = <<>>
    /\ status = "reading"
    /\ errKind = 0
    /\ errSym = NilSymbol

Init == \E s \in Inputs : InitFrom(s)

\* parseSymbolHeader at the reader's offset.
Header == Unpack(stream, pos, SymbolHeaderFields, <<>>)

\* The body parsed after a successful header.
Body == ParseSymbolBody(stream, Header.pos, Header.val["Kind"])

\* The symbol parseSymbol returns after sym.Hdr = hdr, when the body read
\* fails: the header, and the Body left nil.
HeaderOnly == SymbolValue(FALSE, <<Header.val>>)

\* parseSymbol fails in parseSymbolHeader, and returns a nil symbol:
\* io.EOF when the stream ended at the record's start or after its Value,
\* io.ErrUnexpectedEOF inside Value.
ReadHeaderFails ==
    /\ status = "reading"
    /\ Header.err # "nil"
    /\ status' = Header.err
    /\ pos' = Header.pos
    /\ errSym' = NilSymbol
    /\ UNCHANGED <<stream, syms, errKind>>

\* parseSymbolBody has no case for the kind: an error naming the kind,
\* returned before any byte of the body is read, with the symbol holding
\* the header.
UnknownKind ==
    /\ status = "reading"
    /\ Header.err = "nil"
    /\ Header.val["Kind"] \notin KnownKinds
    /\ status' = "UnknownKind"
    /\ errKind' = Header.val["Kind"]
    /\ pos' = Header.pos
    /\ errSym' = HeaderOnly
    /\ UNCHANGED <<stream, syms>>

\* Mutant: sym.Hdr assigned only after the body has been read, so the
\* symbol returned with a body error has no header either.
ReadBodyFailsHdrLate ==
    /\ status = "reading"
    /\ Header.err = "nil"
    /\ Header.val["Kind"] \in KnownKinds
    /\ Body.err # "nil"
    /\ status' = Body.err
    /\ pos' = Body.pos
    /\ errSym' = SymbolValue(FALSE, <<>>)
    /\ UNCHANGED <<stream, syms, errKind>>

\* The body read of a known kind fails; the error of the failed read is
\* returned with the symbol holding the header.
ReadBodyFails ==
    /\ status = "reading"
    /\ Header.err = "nil"
    /\ Header.val["Kind"] \in KnownKinds
    /\ Body.err # "nil"
    /\ status' = Body.err
    /\ pos' = Body.pos
    /\ errSym' = HeaderOnly
    /\ UNCHANGED <<stream, syms, errKind>>

\* Mutant: the reader offset not advanced past the symbol.
ReadSymbolKeepsPos ==
    /\ status = "reading"
    /\ Header.err = "nil"
    /\ Header.val["Kind"] \in KnownKinds
    /\ Body.err = "nil"
    /\ syms' = Append(syms, [at |-> pos, next |-> Body.pos,
                             hdr |-> Header.val, body |-> Body.val])
    /\ UNCHANGED <<stream, pos, status, errKind, errSym>>

\* parseSymbol returns a symbol; at and next are the offsets at which it
\* starts and at which the reader stands after it.
ReadSymbol ==
    /\ status = "reading"
    /\ Header.err = "nil"
    /\ Header.val["Kind"] \in KnownKinds
    /\ Body.err = "nil"
    /\ syms' = Append(syms, [at |-> pos, next |-> Body.pos,
                             hdr |-> Header.val, body |-> Body.val])
    /\ pos' = Body.pos
    /\ UNCHANGED <<stream, status, errKind, errSym>>

Halted == status # "reading"

\* The caller has stopped after an error: decoding is over.
Done == Halted /\ UNCHANGED vars

Next == ReadHeaderFails \/ UnknownKind \/ ReadBodyFails \/ ReadSymbol \/ Done

Spec == Init /\ [][Next]_vars

-----------------------------------------------------------------------------
(* Properties.                                                             *)

TypeOK ==
    /\ stream \in Seq(0..255)
    /\ pos \in 0..Len(stream)
    /\ status \in {"reading"} \cup Errors
    /\ errKind \in 0..255
    /\ \A i \in 1..Len(syms) :
         /\ syms[i].at < syms[i].next
         /\ syms[i].next <= pos
         /\ syms[i].hdr["Kind"] \in KnownKinds

\* Symbol.Size agrees with parsing: for every symbol parseSymbol returned,
\* the bytes the reader consumed for it equal Size() of the symbol (the
\* spec's round-trip property; Def2's size counts each dimension group's
\* terminating 0, which Dimensions.Unpack keeps).
RoundTripSize ==
    \A i \in 1..Len(syms) : syms[i].next - syms[i].at = Size(syms[i])

=============================================================================
