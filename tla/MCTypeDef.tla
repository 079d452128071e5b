----------------------------- MODULE MCTypeDef -----------------------------
(***************************************************************************)
(* Model-checking setup for CTypeDef: structs and unions of up to two     *)
(* fields with and without a size, a tag and layout (offsets 0, 4 and     *)
(* 0x1A, sizes 0 and 4), and typedefs of base, pointer, array, function-  *)
(* pointer and struct types.  The text Def returns is read back by the    *)
(* declaration grammar of CDecl, extended by definitions and by one       *)
(* comment token before a member.  Base, pointer, array and function      *)
(* types nested two deep are read back as C type names.                   *)
(***************************************************************************)
EXTENDS CTypeDef, CDecl

IntT == BaseType("int")

\* The field types: no pointer to an array (Field.String prints those
\* wrongly; see MCDeclarator).
FieldTypes ==
    {IntT, ArrayType(BaseType("short"), 2), PointerType(FuncType(IntT, <<>>, FALSE)),
     UnionType(0, <<"_", "1", "f", "a", "k", "e">>, <<Field(IntT, <<T("x")>>)>>)}

FieldsA == {FieldAt(o, s, ty, <<T("a")>>) : o \in {0, 4}, s \in {0, 4}, ty \in FieldTypes}
FieldsB == {FieldAt(o, s, ty, <<T("b")>>) : o \in {0, 26}, s \in {0, 4}, ty \in FieldTypes}

FieldLists == {<<>>} \cup {<<a>> : a \in FieldsA} \cup {<<a, b>> : a \in FieldsA, b \in FieldsB}

Aggregates ==
    {StructType(sz, tg, fs) : sz \in {0, 300}, tg \in {<<"S">>, <<>>}, fs \in FieldLists}
      \cup {UnionType(sz, tg, fs) : sz \in {0, 4}, tg \in {<<"U">>}, fs \in FieldLists}

Typedefs ==
    {Typedef("t", ty) : ty \in {IntT, PointerType(IntT), ArrayType(IntT, 4),
                                PointerType(FuncType(IntT, <<Field(IntT, <<T("x")>>)>>, TRUE)),
                                StructType(0, <<"S">>, <<>>)}}

\* The types that wrap t one level: arrays of a one- and a two-digit
\* length, functions without parameters and with one and "...".
Wrapped(t) ==
    {PointerType(t), ArrayType(t, 2), ArrayType(t, 10),
     FuncType(t, <<>>, FALSE), FuncType(t, <<Field(IntT, <<T("x")>>)>>, TRUE)}

NameLeaves == {IntT, StructType(0, <<"S">>, <<>>)}
Level1 == UNION {Wrapped(l) : l \in NameLeaves}

\* The receivers of the reference forms.
TypeNames == NameLeaves \cup Level1 \cup UNION {Wrapped(t) : t \in Level1}

MCTypes == Aggregates \cup Typedefs \cup TypeNames

MCIdents == {T("a"), T("b"), T("x"), T("t")}

-----------------------------------------------------------------------------
(* Reading a definition back.                                              *)

IsComment(tok) == Len(tok) > 0 /\ tok[1] \in {"//size=0x", "//offset:"}

\* The value of hexadecimal digits.
HexValue(cs) ==
    FoldLeft(LAMBDA acc, c : 16 * acc + (CHOOSE d \in 0..15 : HexChar[d + 1] = c), 0, cs)

\* An offset comment as [offset, size], size -1 when it prints none.
ParseOffsetComment(c) ==
    IF \E i \in 1..Len(c) : c[i] = "("
    THEN LET k == CHOOSE i \in 1..Len(c) : c[i] = "("
         IN  [offset |-> HexValue(SubSeq(c, 2, k - 1)),
              size |-> DecValue(SubSeq(c, k + 1, Len(c) - 1))]
    ELSE [offset |-> HexValue(Tail(c)), size |-> -1]

\* The comment token at the head of toks, or <<>>.
CommentOf(toks) == IF IsComment(At(toks, 1)) THEN At(toks, 1) ELSE <<>>

RECURSIVE ReadCommentedMembers(_, _)

\* The member d, preceded by the comment c, read after acc; then ";".
NextCommented(c, d, acc) ==
    IF d.ok /\ At(d.rest, 1) = T(";")
    THEN ReadCommentedMembers(Tail(d.rest),
             Append(acc, [field |-> Field(d.type, <<d.name>>), comment |-> c]))
    ELSE Fail

\* The members after "{", each one declaration ended by ";" and preceded
\* by at most one comment, up to and including "}".
ReadCommentedMembers(toks, acc) ==
    IF At(toks, 1) = T("}")
    THEN [ok |-> TRUE, members |-> acc, rest |-> Tail(toks)]
    ELSE NextCommented(CommentOf(toks),
                       ReadDeclaration(IF CommentOf(toks) # <<>> THEN Tail(toks) ELSE toks),
                       acc)

\* The keyword ts[1], the tag, the size comment sc and the members m.
Aggregate(ts, tag, sc, m) ==
    IF /\ At(ts, 1) \in {T("struct"), T("union")}
       /\ At(ts, IF tag # <<>> THEN 3 ELSE 2) = T("{")
       /\ m.ok /\ m.rest = <<>>
    THEN [ok |-> TRUE, k |-> At(ts, 1)[1], tag |-> tag, sizeComment |-> sc, members |-> m.members]
    ELSE Fail

\* [size comment] ("struct" | "union") [tag] "{" members "}".
ReadAggregateDef(toks) ==
    LET sc  == CommentOf(toks)
        ts  == IF sc # <<>> THEN Tail(toks) ELSE toks
        tag == IF At(ts, 2) # T("{") THEN At(ts, 2) ELSE <<>>
    IN  Aggregate(ts, tag, sc, ReadCommentedMembers(Drop(ts, IF tag # <<>> THEN 3 ELSE 2), <<>>))

\* The aggregate r read back is t: keyword, tag and every field in order.
AggregateIs(r, t) ==
    /\ r.ok /\ r.k = t.k /\ r.tag = t.tag
    /\ Len(r.members) = Len(t.fields)
    /\ \A i \in 1..Len(t.fields) :
           r.members[i].field = Field(Visible(t.fields[i].type), t.fields[i].name)

\* The declaration d read between "typedef" and ";" declares t.
TypedefIs(d, t) == d.ok /\ d.name = T(t.name) /\ d.type = Visible(t.type)

\* The layout comments of r state t's size and its fields' offsets and sizes.
LayoutIs(r, t) ==
    /\ (r.sizeComment # <<>>) <=> (t.size > 0)
    /\ r.sizeComment # <<>> => HexValue(Tail(r.sizeComment)) = t.size
    /\ \A i \in 1..Len(t.fields) :
         LET c == r.members[i].comment
             fld == t.fields[i]
         IN  /\ c # <<>> => ParseOffsetComment(c).offset = fld.offset
             /\ c # <<>> /\ ParseOffsetComment(c).size # -1 =>
                    ParseOffsetComment(c).size = fld.size
             /\ fld.size > 0 => c # <<>> /\ ParseOffsetComment(c).size = fld.size

\* What a type name denotes for a type: FuncType.String prints a pointer
\* to the function ("int (*)(int a, int b)" in the code's comment).
Named(t) == IF t.k = "func" THEN PointerType(Visible(t)) ELSE Visible(t)

\* No pointer or array wraps an array or a function, and no function
\* returns one.
RECURSIVE Flat(_)
Flat(t) ==
    CASE t.k \in {"ptr", "arr"} -> t.elem.k \notin {"arr", "func"} /\ Flat(t.elem)
      [] t.k = "func"           -> t.ret.k \notin {"arr", "func"} /\ Flat(t.ret)
      [] OTHER                  -> TRUE

\* The type name r read back is t.
TypeNameIs(r, t) == r.ok /\ r.type = t

\* Def of a base, pointer, array or function type has returned.
IsReferenceForm == out # <<>> /\ type.k \in {"base", "ptr", "arr", "func"}

-----------------------------------------------------------------------------
(* Properties.                                                             *)

\* StructType.Def, UnionType.Def and Typedef.Def print a definition C
\* reads back as the type: the keyword, the tag and every field, in order,
\* with its name and type, and for a typedef one declaration of the name
\* with the underlying type.
DefReadsBack ==
    out # <<>> /\ type.k \in {"typedef", "struct", "union"} =>
        IF type.k = "typedef"
        THEN /\ out[1] = T("typedef") /\ out[Len(out)] = T(";")
             /\ TypedefIs(ReadBack(SubSeq(out, 2, Len(out) - 1)), type)
        ELSE AggregateIs(ReadAggregateDef(out), type)

\* The layout comments of a definition are true: the size comment states
\* the aggregate's size and is printed exactly when the size is known; the
\* comment before a field states that field's offset (and its size, when
\* printed), and every field with a known size has one stating its size.
LayoutCommentsTruthful ==
    (out # <<>> /\ type.k \in {"struct", "union"}) => LayoutIs(ReadAggregateDef(out), type)

\* The reference form printed by the String methods names the type
\* whenever no pointer or array wraps an array or a function and no
\* function returns one: "%s*" and "%s[%d]" append to the element's text,
\* and C reads that text wrongly, or not at all, only when it ends in a
\* declarator suffix or a group.
ReferenceFormReadsBackWhenFlat ==
    IsReferenceForm /\ Flat(type) => TypeNameIs(ReadTypeName(out), Named(type))

=============================================================================
