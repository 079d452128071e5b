------------------------------- MODULE CTypes -------------------------------
(***************************************************************************)
(* The C type model of src/class.go (package c) and the declarator       *)
(* synthesizer Field.String, as operators: Field.String prints a         *)
(* field's C declaration by the "spiral" rewriting of the field's name:  *)
(* a pointer prefixes "*", an array appends "[len]", a function wraps    *)
(* the name in "(name)(params)"; each case rewrites the method's copy of *)
(* the field (value receiver) and calls String again, until a leaf type  *)
(* is printed in front of the accumulated name.  A union whose tag       *)
(* isFakeTag is printed inline by fakeUnionString.                        *)
(*                                                                         *)
(* Text is a sequence of tokens, each a sequence of characters:          *)
(* punctuation, keywords, identifiers, tags and numbers.  Spacing, tabs  *)
(* and newlines are left out, as are the "// offset" and "// size"       *)
(* comment lines of fakeUnionString (C comments; the comments of the     *)
(* definition forms are the subject of CTypeDef).  Tags are sequences   *)
(* of characters, since isFakeTag inspects them.                          *)
(***************************************************************************)
EXTENDS Naturals, Sequences, SequencesExt

(* The C type model (class.go): one record shape per Go type.  The       *)
(* members of an EnumType are the subject of EnumDef; here an enum is    *)
(* only its tag.                                                          *)

BaseType(name)     == [k |-> "base", name |-> name]
PointerType(elem)  == [k |-> "ptr", elem |-> elem]
ArrayType(elem, n) == [k |-> "arr", elem |-> elem, len |-> n]
FuncType(ret, params, variadic) ==
    [k |-> "func", ret |-> ret, params |-> params, variadic |-> variadic]
StructType(size, tag, fields) ==
    [k |-> "struct", size |-> size, tag |-> tag, fields |-> fields]
UnionType(size, tag, fields) ==
    [k |-> "union", size |-> size, tag |-> tag, fields |-> fields]
EnumType(tag)      == [k |-> "enum", tag |-> tag]
Typedef(name, type) == [k |-> "typedef", name |-> name, type |-> type]
FieldAt(offset, size, type, name) ==
    [offset |-> offset, size |-> size, type |-> type, name |-> name]

\* A field without layout: a parameter, or a field of the declarator inputs.
Field(type, name)  == FieldAt(0, 0, type, name)

\* A one-word token.
T(word) == <<word>>

Digits == {"0", "1", "2", "3", "4", "5", "6", "7", "8", "9"}
DigitChar == <<"0", "1", "2", "3", "4", "5", "6", "7", "8", "9">>

\* The decimal text of n (fmt's %d).
RECURSIVE Dec(_)
Dec(n) == IF n < 10 THEN <<DigitChar[n + 1]>> ELSE Dec(n \div 10) \o <<DigitChar[(n % 10) + 1]>>

-----------------------------------------------------------------------------
(* isFakeTag.                                                              *)

Fake == <<"f", "a", "k", "e">>

\* strconv.Atoi(s) succeeds: an optional sign, then one or more digits
\* (the tags of the model are too short to overflow).
AtoiOK(s) ==
    LET digits == IF s # <<>> /\ s[1] \in {"+", "-"} THEN Tail(s) ELSE s
    IN  digits # <<>> /\ \A i \in 1..Len(digits) : digits[i] \in Digits

isFakeTag(tag) ==
    /\ Len(tag) >= 1 /\ tag[1] = "_"
    /\ IsSuffix(Fake, tag)
    /\ AtoiOK(SubSeq(tag, 2, Len(tag) - Len(Fake)))

-----------------------------------------------------------------------------
(* Printing.                                                               *)

RECURSIVE FieldString(_), Leaf(_), FakeUnionString(_), Params(_)

\* The String of a struct, union or enum, "<keyword> %s" of its tag: an
\* empty tag prints no word.
Words(keyword, tag) == <<T(keyword)>> \o (IF tag = <<>> THEN <<>> ELSE <<tag>>)

\* The leaf case of Field.String: "%s %s" of the type's String and the
\* name; a union with a fake tag is printed by fakeUnionString.
Leaf(fld) ==
    LET t == fld.type
    IN  CASE t.k = "base" -> <<T(t.name)>> \o fld.name
          [] t.k = "union" /\ isFakeTag(t.tag) -> FakeUnionString(t) \o fld.name
          [] t.k = "union" /\ ~isFakeTag(t.tag) -> Words(t.k, t.tag) \o fld.name
          [] t.k \in {"struct", "enum"} -> Words(t.k, t.tag) \o fld.name
          [] t.k = "typedef" -> <<T(t.name)>> \o fld.name

\* fakeUnionString: "union {", each field's String and ";", then "}".
FakeUnionString(t) ==
    <<T("union"), T("{")>>
      \o FlattenSeq([i \in 1..Len(t.fields) |-> FieldString(t.fields[i]) \o <<T(";")>>])
      \o <<T("}")>>

\* Mutant: the parameter list left unclosed.
ParamsUnclosed(t) ==
    <<T("(")>>
      \o FlattenSeq([i \in 1..Len(t.params) |->
                       (IF i # 1 THEN <<T(",")>> ELSE <<>>) \o FieldString(t.params[i])])

\* The parameter list of the FuncType case: "(", the params' String
\* separated by ", ", then ", ..." (or "..." alone) when variadic, ")".
Params(t) ==
    <<T("(")>>
      \o FlattenSeq([i \in 1..Len(t.params) |->
                       (IF i # 1 THEN <<T(",")>> ELSE <<>>) \o FieldString(t.params[i])])
      \o (IF t.variadic
          THEN (IF Len(t.params) > 0 THEN <<T(",")>> ELSE <<>>) \o <<T("...")>>
          ELSE <<>>)
      \o <<T(")")>>

\* Mutants: the array length printed one too high; the name not
\* parenthesised before a parameter list.
ArrayCaseOffByOne(fld) ==
    [fld EXCEPT !.type = fld.type.elem,
                !.name = @ \o <<T("["), Dec(fld.type.len + 1), T("]")>>]
FuncCaseNoParens(fld) ==
    [fld EXCEPT !.type = fld.type.ret, !.name = @ \o Params(fld.type)]

\* The three rewriting cases of Field.String.
\* Each rewrites the name and the type of the method's copy of the field;
\* its Offset and Size are kept.
PointerCase(fld) == [fld EXCEPT !.type = fld.type.elem, !.name = <<T("*")>> \o @]
ArrayCase(fld)   ==
    [fld EXCEPT !.type = fld.type.elem, !.name = @ \o <<T("["), Dec(fld.type.len), T("]")>>]
FuncCase(fld)    ==
    [fld EXCEPT !.type = fld.type.ret,
                !.name = <<T("(")>> \o @ \o <<T(")")>> \o Params(fld.type)]

\* Field.String, as a whole; used for the nested calls on parameters and
\* on the fields of an inlined union.
FieldString(fld) ==
    CASE fld.type.k = "ptr"  -> FieldString(PointerCase(fld))
      [] fld.type.k = "arr"  -> FieldString(ArrayCase(fld))
      [] fld.type.k = "func" -> FieldString(FuncCase(fld))
      [] OTHER               -> Leaf(fld)


=============================================================================
