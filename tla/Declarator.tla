----------------------------- MODULE Declarator -----------------------------
(***************************************************************************)
(* One top-level call of Field.String (src/class.go) as a state machine: *)
(* one step per case of its type switch, each rewriting the method's own *)
(* copy of the field, until the leaf case returns the text.  The nested  *)
(* calls on parameters and union members are the operator FieldString   *)
(* of CTypes.                                                             *)
(***************************************************************************)
EXTENDS CTypes

CONSTANT Inputs     \* the fields whose String is called

VARIABLES
    caller,     \* the Field the caller holds
    f,          \* String's own copy of the field, rewritten by each case
    out         \* the returned text, <<>> while String is still recursing

vars == <<caller, f, out>>

-----------------------------------------------------------------------------
(* The top-level call, one step per case of the type switch.               *)

Init ==
    \E fld \in Inputs :
        /\ caller = fld
        /\ f = fld
        /\ out = <<>>

SpiralPointer ==
    /\ out = <<>>
    /\ f.type.k = "ptr"
    /\ f' = PointerCase(f)
    /\ UNCHANGED <<caller, out>>

SpiralArray ==
    /\ out = <<>>
    /\ f.type.k = "arr"
    /\ f' = ArrayCase(f)
    /\ UNCHANGED <<caller, out>>

SpiralFunc ==
    /\ out = <<>>
    /\ f.type.k = "func"
    /\ f' = FuncCase(f)
    /\ UNCHANGED <<caller, out>>

PrintLeaf ==
    /\ out = <<>>
    /\ f.type.k \notin {"ptr", "arr", "func"}
    /\ out' = Leaf(f)
    /\ UNCHANGED <<caller, f>>

\* String has returned.
Done == out # <<>> /\ UNCHANGED vars

Next == SpiralPointer \/ SpiralArray \/ SpiralFunc \/ PrintLeaf \/ Done

Spec == Init /\ [][Next]_vars

=============================================================================
