------------------------------ MODULE CTypeDef ------------------------------
(***************************************************************************)
(* The definition forms of src/class.go: StructType.Def and UnionType.Def *)
(* (the same code), which print the body of an aggregate with a comment   *)
(* line for its size and for the layout of its fields, Typedef.Def, and   *)
(* the Def of base, pointer, array and function types, which return the   *)
(* type's String, the reference form.                                     *)
(* A comment is one token: its words followed by the characters of the    *)
(* numbers it prints, so that the %X and %04X conversions are modelled.   *)
(* Each call of Def is one step.                                          *)
(***************************************************************************)
EXTENDS CTypes

CONSTANT Types      \* the types whose Def is called

VARIABLES
    type,       \* the receiver of Def
    out         \* the returned text, <<>> until Def returns

vars == <<type, out>>

-----------------------------------------------------------------------------
(* Comments.                                                               *)

HexChar == <<"0", "1", "2", "3", "4", "5", "6", "7", "8", "9",
             "A", "B", "C", "D", "E", "F">>

\* %X: upper-case hexadecimal without leading zeros.
RECURSIVE Hex(_)
Hex(n) == IF n < 16 THEN <<HexChar[n + 1]>> ELSE Hex(n \div 16) \o <<HexChar[(n % 16) + 1]>>

\* %04X: at least four digits, padded with zeros.
Hex04(n) == LET h == Hex(n) IN [i \in 1..(4 - Len(h)) |-> "0"] \o h

\* "// size = 0x%X"
SizeComment(size) == <<"//size=0x">> \o Hex(size)

\* "// offset: %04X (%d bytes)" and "// offset: %04X"
OffsetSizeComment(fld) == <<"//offset:">> \o Hex04(fld.offset) \o <<"(">> \o Dec(fld.size) \o <<"bytes)">>
OffsetComment(fld) == <<"//offset:">> \o Hex04(fld.offset)

\* Mutant: the offset of the second field printed for every field.
FieldCommentSecondOffset(t, fld) ==
    IF fld.size > 0 THEN <<OffsetSizeComment(fld)>>
    ELSE IF Len(t.fields) > 1 /\ t.fields[2].offset > 0
         THEN <<OffsetComment([fld EXCEPT !.offset = t.fields[2].offset])>>
         ELSE <<>>

\* The comment line before a field: its offset and size when the field has
\* a size, else its offset when the aggregate has more than one field and
\* the second lies at a nonzero offset, else none.
FieldComment(t, fld) ==
    IF fld.size > 0 THEN <<OffsetSizeComment(fld)>>
    ELSE IF Len(t.fields) > 1 /\ t.fields[2].offset > 0 THEN <<OffsetComment(fld)>>
    ELSE <<>>

-----------------------------------------------------------------------------
(* Definitions.                                                            *)

\* Mutant: the fields printed without their ";".
AggregateDefNoSemicolon(t) ==
    (IF t.size > 0 THEN <<SizeComment(t.size)>> ELSE <<>>)
      \o Words(t.k, t.tag) \o <<T("{")>>
      \o FlattenSeq([i \in 1..Len(t.fields) |->
                       FieldComment(t, t.fields[i]) \o FieldString(t.fields[i])])
      \o <<T("}")>>

\* StructType.Def and UnionType.Def: the size comment, "struct %s {" (or
\* "struct {" for an empty tag), each field's comment and "%s;" of its
\* String, then "}".
AggregateDef(t) ==
    (IF t.size > 0 THEN <<SizeComment(t.size)>> ELSE <<>>)
      \o Words(t.k, t.tag) \o <<T("{")>>
      \o FlattenSeq([i \in 1..Len(t.fields) |->
                       FieldComment(t, t.fields[i]) \o FieldString(t.fields[i]) \o <<T(";")>>])
      \o <<T("}")>>

\* Typedef.Def: "typedef %s %s;" of a base type and the name, else
\* "typedef %s;" of the Field with the underlying type and the name.
TypedefDef(t) ==
    IF t.type.k = "base"
    THEN <<T("typedef"), T(t.type.name), T(t.name), T(";")>>
    ELSE <<T("typedef")>> \o FieldString(Field(t.type, <<T(t.name)>>)) \o <<T(";")>>

-----------------------------------------------------------------------------
(* Reference forms: the String methods, which Def of a base, pointer,      *)
(* array or function type returns.  The String of an element or return   *)
(* type is passed in as e.                                                 *)

\* Mutant: the "*" printed before the element type.
PointerStringPrefix(t, e) == <<T("*")>> \o e

\* PointerType.String: "%s*" of the element type.
PointerString(t, e) == e \o <<T("*")>>

\* ArrayType.String: "%s[%d]" of the element type and the length.
ArrayString(t, e) == e \o <<T("["), Dec(t.len), T("]")>>

\* FuncType.String: "%s (*)(" of the return type, the parameters' String
\* separated by ", ", ", ..." (or "...") when variadic, then ")".
FuncString(t, e) == e \o <<T("("), T("*"), T(")")>> \o Params(t)

\* The String of every type: struct, union and enum print "<keyword> %s"
\* of their tag (a fake tag too), Typedef its name.
RECURSIVE TypeString(_)
TypeString(t) ==
    CASE t.k = "base" -> <<T(t.name)>>
      [] t.k = "ptr"  -> PointerString(t, TypeString(t.elem))
      [] t.k = "arr"  -> ArrayString(t, TypeString(t.elem))
      [] t.k = "func" -> FuncString(t, TypeString(t.ret))
      [] t.k \in {"struct", "union", "enum"} -> Words(t.k, t.tag)
      [] t.k = "typedef" -> <<T(t.name)>>

-----------------------------------------------------------------------------

Init == type \in Types /\ out = <<>>

StructDef ==
    /\ out = <<>>
    /\ type.k = "struct"
    /\ out' = AggregateDef(type)
    /\ UNCHANGED type

UnionDef ==
    /\ out = <<>>
    /\ type.k = "union"
    /\ out' = AggregateDef(type)
    /\ UNCHANGED type

TypedefDefStep ==
    /\ out = <<>>
    /\ type.k = "typedef"
    /\ out' = TypedefDef(type)
    /\ UNCHANGED type

\* BaseType.Def, PointerType.Def, ArrayType.Def and FuncType.Def: the
\* type's String.
BaseDef ==
    /\ out = <<>>
    /\ type.k = "base"
    /\ out' = TypeString(type)
    /\ UNCHANGED type

PointerDef ==
    /\ out = <<>>
    /\ type.k = "ptr"
    /\ out' = TypeString(type)
    /\ UNCHANGED type

ArrayDef ==
    /\ out = <<>>
    /\ type.k = "arr"
    /\ out' = TypeString(type)
    /\ UNCHANGED type

FuncDef ==
    /\ out = <<>>
    /\ type.k = "func"
    /\ out' = TypeString(type)
    /\ UNCHANGED type

\* Def has returned.
Done == out # <<>> /\ UNCHANGED vars

Next == StructDef \/ UnionDef \/ TypedefDefStep \/ BaseDef \/ PointerDef \/ ArrayDef \/ FuncDef \/ Done

Spec == Init /\ [][Next]_vars

=============================================================================
