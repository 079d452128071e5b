---------------------------- MODULE RecordStream ----------------------------
(***************************************************************************)
(* What a caller's loop of parseSymbol calls (src/unnamed/part_001)       *)
(* promises, stated without bytes: the stream begins with the records     *)
(* that are present in full and whose kind has a body layout (recs).      *)
(* After them comes nothing, a record cut short, or a record of a kind    *)
(* with no body layout (rest).  The decoder hands out the records of     *)
(* recs, in order, each once, and then stops.  It stops on the kind only *)
(* when the record after them has an unknown kind.  Which error ends     *)
(* decoding (io.EOF or io.ErrUnexpectedEOF) is not part of this           *)
(* abstraction; SymbolDecoder's invariants are about that.                *)
(***************************************************************************)
EXTENDS Naturals, Sequences

VARIABLES
    recs,       \* the deliverable records at the front of the stream
    rest,       \* what follows them: "unknown" (a record of unknown kind
                \* with its header present) or "other"
    out,        \* the records handed out so far
    result      \* "reading", "stopped" or "unknownKind"

avars == <<recs, rest, out, result>>

Init == out = <<>> /\ result = "reading"

\* One call returns the next deliverable record.
Deliver ==
    /\ result = "reading"
    /\ Len(out) < Len(recs)
    /\ out' = Append(out, recs[Len(out) + 1])
    /\ UNCHANGED <<recs, rest, result>>

\* Once every deliverable record is out, one call fails and decoding stops.
Stop ==
    /\ result = "reading"
    /\ Len(out) = Len(recs)
    /\ result' = IF rest = "unknown" THEN "unknownKind" ELSE "stopped"
    /\ UNCHANGED <<recs, rest, out>>

Next == Deliver \/ Stop

Spec == Init /\ [][Next]_avars

=============================================================================
