-------------------------- MODULE MCSymbolDecoder --------------------------
(***************************************************************************)
(* Model-checking setup for SymbolDecoder.  The input stream is built     *)
(* from a list of up to MaxRecords records drawn from a small catalogue,  *)
(* encoded by the binary format of spec.md section 6 (written here       *)
(* independently of the decoder), and then cut at any length, so every   *)
(* truncation point of every record shape is an initial state.  The     *)
(* ghost variable origin remembers the records and the cut, so that what *)
(* the decoder returns can be compared with what was encoded.             *)
(***************************************************************************)
EXTENDS SymbolDecoder

CONSTANT MaxRecords     \* the longest record list encoded into a stream

VARIABLE origin         \* the records encoded, their offsets, the bytes kept

mcvars == <<vars, origin>>

-----------------------------------------------------------------------------
(* The binary format (spec.md section 6), little-endian.                   *)

\* The w little-endian bytes of n.
Enc(n, w) == [i \in 1..w |-> (n \div 256^(i - 1)) % 256]

\* A length-prefixed string.
EncStr(str) == <<Len(str)>> \o str

\* One dimension group: its lengths then the terminating 0.
EncDims(g) == FlattenSeq([i \in 1..Len(g) + 1 |->
                            Enc(IF i <= Len(g) THEN g[i] ELSE 0, 2)])

EncBody(r) ==
    CASE r.kind \in {KindName1, KindName2} -> EncStr(r.name)
      [] r.kind = KindDef ->
           Enc(r.class, 2) \o Enc(r.type, 2) \o Enc(r.size, 4) \o EncStr(r.name)
      [] r.kind = KindDef2 ->
           Enc(r.class, 2) \o Enc(r.type, 2) \o Enc(r.size, 4)
             \o FlattenSeq([i \in 1..Len(r.dims) |-> EncDims(r.dims[i])])
             \o EncStr(r.tag) \o EncStr(r.name)
      [] r.kind = KindOverlay -> Enc(r.length, 4) \o Enc(r.id, 4)
      [] OTHER -> r.junk

EncRecord(r) == Enc(r.value, 4) \o <<r.kind>> \o EncBody(r)

EncRecords(rs) == FlattenSeq([i \in 1..Len(rs) |-> EncRecord(rs[i])])

\* The type codes of the catalogue: INT, ARY INT, ARY ARY SHORT, PTR ARY INT.
INT   == 4
SHORT == 3
TypeOf(b, ms) == b + FoldLeft(LAMBDA acc, i : acc + ms[i] * 2^(4 + 2 * (i - 1)),
                              0, [i \in 1..Len(ms) |-> i])

\* The record catalogue.  Names, tags and values are single bytes; the
\* dimension 256 has a zero low byte, so reading a dimension byte-wise or
\* big-endian would end the group early.
Catalogue == {
    [kind |-> KindName1, value |-> 65536, name |-> <<97>>],
    [kind |-> KindName2, value |-> 0, name |-> <<>>],
    [kind |-> KindDef, value |-> 0, class |-> 8, type |-> INT, size |-> 4,
     name |-> <<97>>],
    [kind |-> KindDef2, value |-> 0, class |-> 8, type |-> INT, size |-> 4,
     dims |-> <<<<>>>>, tag |-> <<>>, name |-> <<97>>],
    [kind |-> KindDef2, value |-> 0, class |-> 8,
     type |-> TypeOf(INT, <<ModARY>>), size |-> 4,
     dims |-> <<<<256>>>>, tag |-> <<98>>, name |-> <<97>>],
    [kind |-> KindDef2, value |-> 0, class |-> 8,
     type |-> TypeOf(SHORT, <<ModARY, ModARY>>), size |-> 18,
     dims |-> <<<<2>>, <<3>>>>, tag |-> <<>>, name |-> <<>>],
    [kind |-> KindDef2, value |-> 0, class |-> 8,
     type |-> TypeOf(INT, <<ModPTR, ModARY>>), size |-> 4,
     dims |-> <<<<2>>>>, tag |-> <<>>, name |-> <<97>>],
    [kind |-> KindOverlay, value |-> 0, length |-> 2532, id |-> 4],
    [kind |-> 255, value |-> 0, junk |-> <<0>>]
}

\* offs[i] is the offset at which the i-th record starts (offs[Len + 1]
\* is the length of the whole encoding).
Origins ==
    UNION {{[recs |-> rs, cut |-> c,
             offs |-> [i \in 1..Len(rs) + 1 |->
                         Len(EncRecords(SubSeq(rs, 1, i - 1)))]] :
              c \in 0..Len(EncRecords(rs))} :
             rs \in BoundedSeq(Catalogue, MaxRecords)}

MCInputs == {SubSeq(EncRecords(o.recs), 1, o.cut) : o \in Origins}

MCInit ==
    \E o \in Origins :
        /\ origin = o
        /\ InitFrom(SubSeq(EncRecords(o.recs), 1, o.cut))

MCNext == Next /\ UNCHANGED origin

MCSpec == MCInit /\ [][MCNext]_mcvars

-----------------------------------------------------------------------------
(* The refinement view: a returned symbol as a catalogue record.  The      *)
(* dimension groups drop the terminating 0 that Dimensions.Unpack keeps.   *)

DropTerminator(g) == SubSeq(g, 1, Len(g) - 1)

View(sym) ==
    LET h == sym.hdr
        b == sym.body
    IN  CASE h["Kind"] \in {KindName1, KindName2} ->
               [kind |-> h["Kind"], value |-> h["Value"], name |-> b["Name"]]
          [] h["Kind"] = KindDef ->
               [kind |-> h["Kind"], value |-> h["Value"], class |-> b["Class"],
                type |-> b["Type"], size |-> b["Size"], name |-> b["Name"]]
          [] h["Kind"] = KindDef2 ->
               [kind |-> h["Kind"], value |-> h["Value"], class |-> b["Class"],
                type |-> b["Type"], size |-> b["Size"],
                dims |-> [i \in 1..Len(b["Dims"]) |-> DropTerminator(b["Dims"][i])],
                tag |-> b["Tag"], name |-> b["Name"]]
          [] h["Kind"] = KindOverlay ->
               [kind |-> h["Kind"], value |-> h["Value"],
                length |-> b["Length"], id |-> b["ID"]]

\* The offset at which the i-th encoded record starts.
Offset(i) == origin.offs[i]

\* The records the cut stream holds completely.
Whole == {i \in 1..Len(origin.recs) : Offset(i + 1) <= origin.cut}

\* The kinds spec.md section 3 gives a body shape.
SpecKinds == {1, 2, 148, 150, 152}

\* The stream is every encoded record, uncut, and all have a known kind.
Complete ==
    /\ origin.cut = Offset(Len(origin.recs) + 1)
    /\ \A i \in 1..Len(origin.recs) : origin.recs[i].kind \in SpecKinds

\* The bytes of record i's dimension groups: [DimsStart(i), DimsEnd(i)).
DimsStart(i) == Offset(i) + HdrSize + 2 + 2 + 4
DimsEnd(i) ==
    DimsStart(i) + FoldLeft(LAMBDA acc, g : acc + 2 * (Len(g) + 1), 0,
                            origin.recs[i].dims)

-----------------------------------------------------------------------------
(* The refinement mapping onto RecordStream.                              *)

\* The number of records at the front of the cut stream that are whole and
\* of a kind with a body layout.
NDeliverable == Max({k \in 0..Len(origin.recs) :
                 \A j \in 1..k : j \in Whole /\ origin.recs[j].kind \in SpecKinds})

\* What follows them: a record of unknown kind whose header is in the stream.
AbsRest ==
    IF /\ NDeliverable < Len(origin.recs)
       /\ origin.recs[NDeliverable + 1].kind \notin SpecKinds
       /\ Offset(NDeliverable + 1) + HdrSize <= origin.cut
    THEN "unknown" ELSE "other"

AbsResult ==
    CASE status = "reading"     -> "reading"
      [] status = "UnknownKind" -> "unknownKind"
      [] OTHER                  -> "stopped"

Abs == INSTANCE RecordStream
         WITH recs <- SubSeq(origin.recs, 1, NDeliverable),
              rest <- AbsRest,
              out <- [i \in 1..Len(syms) |-> View(syms[i])],
              result <- AbsResult

-----------------------------------------------------------------------------
(* Properties.                                                             *)

\* Decoding agrees with encoding: the symbols parseSymbol returned are, in
\* order, exactly the records encoded into the stream, each starting where
\* its record starts, with its dimension groups read in the order of the
\* type's ARY modifiers (one group when there are none) and lengths read
\* little-endian.
DecodedPrefix ==
    \A i \in 1..Len(syms) :
        /\ i \in Whole
        /\ syms[i].at = Offset(i)
        /\ View(syms[i]) = origin.recs[i]

\* A stream holding only whole records of known kinds is decoded to the
\* end: when the caller's loop of parseSymbol calls stops, it has every
\* record and the error is the clean io.EOF.  (That the loop does stop,
\* and that a reading state always has a step, is the deadlock check.)
CompleteStreamDecoded ==
    (Halted /\ Complete) => (status = "EOF" /\ Len(syms) = Len(origin.recs))

\* A stream cut inside the dimension groups of the Def2 at which decoding
\* stops is reported as
\* truncated (io.ErrUnexpectedEOF), never as the clean io.EOF, even when
\* the cut falls between two uint16 values: Dimensions.Unpack turns io.EOF
\* into io.ErrUnexpectedEOF.
DimsTruncationSurfaced ==
    LET i == Len(syms) + 1
    IN  ( /\ Halted
          /\ i <= Len(origin.recs)
          /\ origin.recs[i].kind = KindDef2
          /\ DimsStart(i) <= origin.cut
          /\ origin.cut < DimsEnd(i) )
        => status = "UnexpectedEOF"

\* An unrecognised kind stops decoding at that record: the error names the
\* record's kind byte, the kind is none the format defines, and no byte of
\* the body has been consumed.
UnknownKindHalts ==
    status = "UnknownKind" =>
        LET i == Len(syms) + 1
        IN  /\ i <= Len(origin.recs)
            /\ errKind = origin.recs[i].kind
            /\ errKind \notin SpecKinds
            /\ pos = Offset(i) + HdrSize

\* The caller's loop of parseSymbol calls implements RecordStream: each
\* call that returns a symbol hands out the next record that is whole and
\* of a known kind, and the first error comes only once all of them are
\* out, at every cut of the stream; it is the unknown-kind error exactly
\* when the record after them has an unknown kind and a whole header.
RefinesRecordStream == Abs!Spec

\* The header of the i-th encoded record.
HeaderOf(i) == [Value |-> origin.recs[i].value, Kind |-> origin.recs[i].kind]

\* What a caller holds after the error that stops decoding (parseSymbol
\* returns sym with the error once sym.Hdr is set): when the failed
\* record's header is in the stream, the symbol carries exactly that
\* record's header (its Value and Kind, the only context the error comes
\* with; spec.md 7's byte offset and record index are not returned) and a
\* nil body, so Size(), which calls Body.BodySize, must not be called on
\* it; when the header itself is cut or absent, the symbol is nil.
ErrorSymbolHoldsFailedHeader ==
    Halted =>
        LET i == Len(syms) + 1
        IN  IF i <= Len(origin.recs) /\ Offset(i) + HdrSize <= origin.cut
            THEN errSym = SymbolValue(FALSE, <<HeaderOf(i)>>)
            ELSE errSym = NilSymbol

\* The number a word of decimal digits denotes.
WordValue(w) ==
    FoldLeft(LAMBDA acc, c : 10 * acc + (CHOOSE d \in 0..9 : DigitChars[d + 1] = c), 0, w)

\* The listing of a decoded Def2 shows its dimensions as encoded:
\* Def2.String's "dims" words read back, in order, as the lengths of every
\* group (a 0 for a group with none), although Dimensions.Unpack keeps
\* each group's terminating 0, which Dimensions.String must not print.
DimsListed ==
    \A i \in 1..Len(syms) :
        syms[i].hdr["Kind"] = KindDef2 =>
            LET text == Def2DimsText(syms[i].body)
                groups == origin.recs[i].dims
            IN  [k \in 1..Len(text) |-> WordValue(text[k])]
                  = FlattenSeq([j \in 1..Len(groups) |->
                                  IF groups[j] = <<>> THEN <<0>> ELSE groups[j]])

\* Clean end of stream (spec.md 4.2 and 7): io.EOF is returned only when
\* the stream ends exactly at a record boundary; a stream that ends inside
\* a record is reported as truncated.
CleanEndOnlyAtBoundary ==
    status = "EOF" => origin.cut = Offset(Len(syms) + 1)

\* spec.md section 8: the decoded dimension lengths never include the
\* terminating 0.
DimsExcludeTerminator ==
    \A i \in 1..Len(syms) :
        syms[i].hdr["Kind"] = KindDef2 =>
            \A g \in ToSet(syms[i].body["Dims"]) : 0 \notin ToSet(g)

=============================================================================
