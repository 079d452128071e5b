----------------------------- MODULE TypeCodec -----------------------------
(***************************************************************************)
(* The 16-bit encoded type of a Def or Def2 record (Go type Type, whose   *)
(* definition is not part of the sources under src/; it is modelled from  *)
(* spec.md sections 3 and 4.1).  The low four bits select the base type;  *)
(* the bits above hold a stack of two-bit modifiers, read from bit 4      *)
(* upwards and ending at the first empty slot.  The record decoder only   *)
(* uses the modifier stack: part_001 line 243 counts the entries equal to *)
(* 0x3 (ARY) to know how many dimension groups follow.                    *)
(***************************************************************************)
EXTENDS Naturals, Sequences

\* The modifier codes; the source names 0x3 "ARY" at part_001 line 242.
ModPTR == 1
ModFCN == 2
ModARY == 3

\* Number of two-bit modifier slots above the four base-type bits.
ModSlots == 6

\* ModAt(t, i) is the content of the i-th modifier slot.
ModAt(t, i) == (t \div 2^(4 + 2 * (i - 1))) % 4

\* mods(t) is the modifier stack, in encoding order, up to the first empty
\* slot.
RECURSIVE ModsFrom(_, _)
ModsFrom(t, i) ==
    IF i > ModSlots \/ ModAt(t, i) = 0 THEN <<>>
    ELSE <<ModAt(t, i)>> \o ModsFrom(t, i + 1)

mods(t) == ModsFrom(t, 1)

=============================================================================
