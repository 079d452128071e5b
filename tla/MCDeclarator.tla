---------------------------- MODULE MCDeclarator ----------------------------
(***************************************************************************)
(* Model-checking setup for Declarator: Field.String called on a field    *)
(* named p of every legal C type built from a few leaf types by up to     *)
(* Depth pointer, array and function constructors (no function returns   *)
(* an array or a function, no array holds functions), and its output read *)
(* back with the C declarator grammar of CDecl.                           *)
(***************************************************************************)
EXTENDS CDecl, Declarator

CONSTANTS
    Depth,      \* the most constructors wrapped around a leaf type
    Leaves      \* the leaf types

TagS       == <<"S">>
TagE       == <<"E">>
TagU       == <<"U">>
TagFake0   == <<"_", "0", "f", "a", "k", "e">>
TagFakeNeg == <<"_", "-", "1", "f", "a", "k", "e">>
TagFakeX   == <<"_", "x", "f", "a", "k", "e">>

IntT == BaseType("int")

\* Members of the unions: an int and a pointer to an array, the latter
\* rendered by the nested Field.String calls of fakeUnionString.
Members == <<Field(IntT, <<T("a")>>), Field(PointerType(ArrayType(IntT, 2)), <<T("b")>>)>>

\* Members of a fake-tagged union with no pointer to an array, so that its
\* inlined body is read back and compared.
PlainMembers == <<Field(IntT, <<T("a")>>), Field(BaseType("short"), <<T("b")>>)>>

MCLeaves ==
    {IntT, BaseType("short"), StructType(0, TagS, <<>>), EnumType(TagE), Typedef("u_char", BaseType("uchar")),
     UnionType(0, TagU, Members), UnionType(0, TagFake0, Members),
     UnionType(0, TagFakeNeg, Members), UnionType(0, TagFakeX, Members),
     UnionType(0, TagFake0, PlainMembers)}

\* Leaves with an empty tag, as the decoder yields for a Def2 whose TagLen
\* is 0.
EmptyTagLeaves == {StructType(0, <<>>, <<>>), UnionType(0, <<>>, Members), EnumType(<<>>)}

\* A struct and a union with the same fake tag.
FakeTagLeaves == {StructType(0, TagFake0, Members), UnionType(0, TagFake0, Members)}

ParamLists == {<<>>, <<Field(IntT, <<T("x")>>)>>}

\* The legal types with at most n constructors around a leaf.
RECURSIVE Types(_)
Types(n) ==
    IF n = 0 THEN Leaves
    ELSE LET ts == Types(n - 1)
         IN  ts \cup {PointerType(t) : t \in ts}
                \cup {ArrayType(t, 4) : t \in {u \in ts : u.k # "func"}}
                \cup {FuncType(t, ps, v) : t \in {u \in ts : u.k \notin {"arr", "func"}},
                                           ps \in ParamLists, v \in BOOLEAN}

MCInputs == {Field(t, <<T("p")>>) : t \in Types(Depth)}

MCIdents == {T("p"), T("x"), T("a"), T("b")}

-----------------------------------------------------------------------------
(* Properties.                                                             *)

\* Some pointer in t points directly at an array.
RECURSIVE HasPtrToArray(_)
HasPtrToArray(t) ==
    CASE t.k = "ptr"   -> t.elem.k = "arr" \/ HasPtrToArray(t.elem)
      [] t.k = "arr"   -> HasPtrToArray(t.elem)
      [] t.k = "func"  -> \/ HasPtrToArray(t.ret)
                          \/ \E i \in 1..Len(t.params) : HasPtrToArray(t.params[i].type)
      [] t.k = "union" /\ isFakeTag(t.tag) ->
           \E i \in 1..Len(t.fields) : HasPtrToArray(t.fields[i].type)
      [] OTHER -> FALSE

\* The tokens Field.String can print for these inputs.
Tokens ==
    {T(w) : w \in {"*", "[", "]", "(", ")", ",", "...", ";", "{", "}", "int",
                   "short", "struct", "union", "enum", "u_char"}}
      \cup {Dec(2), Dec(4), TagS, TagE, TagU, TagFake0, TagFakeNeg, TagFakeX}
      \cup MCIdents

TypeOK ==
    /\ caller \in Inputs
    /\ f.type \in Types(Depth)
    /\ f.name \in Seq(Tokens)
    /\ out \in Seq(Tokens)

\* Field.String prints a well-formed C declaration of the field's name:
\* the text reads as one declaration, with balanced parentheses and
\* brackets, declaring exactly that name.
WellFormedDeclaration ==
    out # <<>> =>
        LET r == ReadBack(out)
        IN  r.ok /\ <<r.name>> = caller.name

\* Field.String's declaration declares the field's type, wherever no
\* pointer points directly at an array: pointer, array and function
\* wrappers nest as C reads them (a pointer to a function is "(*p)(..)",
\* an array of pointers "*p[4]", a function returning a pointer "*(p)()").
ReadsBackUnlessPointerToArray ==
    (out # <<>> /\ ~HasPtrToArray(caller.type)) =>
        ReadBack(out).type = Visible(caller.type)

\* spec.md 4.4 (C's declarator rule): the declaration Field.String prints
\* declares the field's type, whatever the type.
ReadsBack ==
    out # <<>> => ReadBack(out).type = Visible(caller.type)

\* spec.md 4.4: a union is printed inline exactly when its tag is "_",
\* a non-negative integer, then "fake".
SpecFakeTag(tag) ==
    /\ Len(tag) >= 6 /\ tag[1] = "_" /\ IsSuffix(Fake, tag)
    /\ \A i \in 2..Len(tag) - 4 : tag[i] \in Digits

InlinedExactlyForFakeTags ==
    (out # <<>> /\ caller.type.k = "union") =>
        ((T("{") \in ToSet(out)) <=> SpecFakeTag(caller.type.tag))

\* spec.md 4.4: a struct or union whose tag is fake ("_", a non-negative
\* integer, "fake") is printed inline with its body, whichever of the two
\* it is.
FakeTaggedAggregatesInlined ==
    (out # <<>> /\ caller.type.k \in {"struct", "union"} /\ SpecFakeTag(caller.type.tag))
        => T("{") \in ToSet(out)

=============================================================================
