----------------------------- MODULE MCEnumDef -----------------------------
(***************************************************************************)
(* Model-checking setup for EnumDef: enums of up to MaxMembers members    *)
(* with values 0 or 1, so that several members share a value, each member *)
(* named by its position in the order the members were read.  The ghost   *)
(* variable orig remembers that order.                                    *)
(***************************************************************************)
EXTENDS EnumDef

CONSTANT MaxMembers

VARIABLE orig       \* the members as the enum was built

mcvars == <<vars, orig>>

MemberLists ==
    UNION {{[i \in 1..n |-> [name |-> i, value |-> v[i]]] : v \in [1..n -> {0, 1}]} :
           n \in 0..MaxMembers}

MCEnums == {[tag |-> tg, members |-> ms] : tg \in {<<"E">>, <<>>}, ms \in MemberLists}

MCInit == Init /\ orig = members

MCSpec == MCInit /\ [][Next /\ UNCHANGED orig]_mcvars

\* s holds exactly the members of orig (the names are distinct).
IsPermutationOfOrig(s) == Len(s) = Len(orig) /\ ToSet(s) = ToSet(orig)

-----------------------------------------------------------------------------
(* Properties.                                                             *)

\* The type's members are always the members it was built with, in some
\* order, and every rendering prints each of them once.
TypeOK ==
    /\ build \in Builds
    /\ IsPermutationOfOrig(members)
    /\ Len(outs) <= MaxDefs
    /\ \A k \in 1..Len(outs) : outs[k].tag = tag /\ IsPermutationOfOrig(outs[k].lines)

\* Every rendering EnumType.Def prints lists the members in ascending
\* order of value, whichever Go release sort.Slice comes from.
RenderSorted ==
    \A k \in 1..Len(outs), i \in 1..Len(orig) - 1 :
        outs[k].lines[i].value <= outs[k].lines[i + 1].value

\* spec.md 8: rendering the same enum twice yields the same text both
\* times, although the first call reordered the shared Members slice.
RenderIdempotent ==
    \A k \in 1..Len(outs) : outs[k] = outs[1]

\* spec.md 4.3: members with equal values are printed in the order they
\* were read (the sort must be stable).
StableAmongTies ==
    \A k \in 1..Len(outs), i \in 1..Len(orig) - 1 :
        outs[k].lines[i].value = outs[k].lines[i + 1].value =>
            outs[k].lines[i].name < outs[k].lines[i + 1].name

=============================================================================
