------------------------------- MODULE CDecl -------------------------------
(***************************************************************************)
(* A reader of C declarations over the token sequences of Declarator: the *)
(* reference against which Field.String is checked.  It follows the C    *)
(* declarator grammar, where the suffixes [n] and (params) bind tighter   *)
(* than the prefix *:                                                     *)
(*                                                                         *)
(*   declaration := spec declarator                                        *)
(*   declarator  := "*" declarator | direct                                *)
(*   direct      := (ident | "(" declarator ")") suffix*                   *)
(*   suffix      := "[" n "]" | "(" [param {"," param}] [[","] "..."] ")"   *)
(*                                                                         *)
(* A declarator is read as the list of type constructors ("ops") that wrap *)
(* the type named by spec, outermost first: in "T *D" the thing D         *)
(* declares has type pointer-to-T, so "*D" has the ops of D followed by a *)
(* pointer; in "T D s1 .. sk" D has type s1(..(sk(T))), so the suffixes   *)
(* come after the ops of D.                                               *)
(***************************************************************************)
EXTENDS Integers, Sequences, CTypes

CONSTANT Idents     \* the identifier tokens

Fail == [ok |-> FALSE]

\* The type the ops make of t, ops[1] outermost.
\* (Each result of a recursive reader below is passed to an operator that
\* takes it apart, rather than bound by LET and named several times.)
WrapOne(op, inner) ==
    CASE op.k = "ptr"  -> PointerType(inner)
      [] op.k = "arr"  -> ArrayType(inner, op.len)
      [] op.k = "func" -> FuncType(inner, op.params, op.variadic)

RECURSIVE Wrap(_, _)
Wrap(ops, t) == IF ops = <<>> THEN t ELSE WrapOne(Head(ops), Wrap(Tail(ops), t))

At(toks, i) == IF i <= Len(toks) THEN toks[i] ELSE <<>>

\* The number a decimal token denotes, or -1.
DecValue(tok) ==
    IF tok # <<>> /\ \A i \in 1..Len(tok) : tok[i] \in Digits
    THEN FoldLeft(LAMBDA acc, c : 10 * acc + (CHOOSE d \in 0..9 : DigitChar[d + 1] = c),
                  0, tok)
    ELSE -1

Drop(toks, n) == SubSeq(toks, n + 1, Len(toks))

\* A struct, union, enum or typedef named by its tag or name, and a struct
\* or union written with its members and no tag.
Ref(k, tag) == [k |-> k, tag |-> tag]
Body(k, fields) == [k |-> k, fields |-> fields]

RECURSIVE ReadDeclaration(_), ReadDeclarator(_), ReadSuffixes(_), ReadParamList(_, _),
          ReadMemberList(_, _), ReadTypeSpec(_)

\* The body of a struct or union written inline, from its member list m.
BodyRead(k, m) == IF m.ok THEN [ok |-> TRUE, type |-> Body(k, m.fields), rest |-> m.rest] ELSE Fail

\* A type specifier: a base type, a tagged struct, union or enum, an
\* inline union body, or a typedef name.
ReadTypeSpec(toks) ==
    LET t1 == At(toks, 1)
        t2 == At(toks, 2)
    IN  CASE t1 \in {T("int"), T("short"), T("char"), T("long")} ->
               [ok |-> TRUE, type |-> BaseType(t1[1]), rest |-> Drop(toks, 1)]
          [] t1 \in {T("struct"), T("union")} /\ t2 = T("{") ->
               BodyRead(t1[1], ReadMemberList(Drop(toks, 2), <<>>))
          [] t1 \in {T("struct"), T("union"), T("enum")} /\ t2 # T("{") /\ Len(toks) >= 2 ->
               [ok |-> TRUE, type |-> Ref(t1[1], t2), rest |-> Drop(toks, 2)]
          [] t1 \in {T("u_char")} ->
               [ok |-> TRUE, type |-> Ref("typedef", t1[1]), rest |-> Drop(toks, 1)]
          [] OTHER -> Fail

\* The declaration made of the type specifier s and the declarator d.
Declared(s, d) ==
    IF d.ok THEN [ok |-> TRUE, type |-> Wrap(d.ops, s.type), name |-> d.name, rest |-> d.rest]
    ELSE Fail

\* A type specifier s and the declarator that follows it.
DeclarationAfter(s) == IF s.ok THEN Declared(s, ReadDeclarator(s.rest)) ELSE Fail

\* "spec declarator": the declared name and its type.
ReadDeclaration(toks) == DeclarationAfter(ReadTypeSpec(toks))

\* "*" d: the ops of d, then a pointer.
PointerTo(d) == IF d.ok THEN [d EXCEPT !.ops = @ \o <<[k |-> "ptr"]>>] ELSE Fail

\* A name or "( declarator )" with ops and name, followed by the suffixes s.
Suffixed(ops, name, s) ==
    IF s.ok THEN [ok |-> TRUE, ops |-> ops \o s.ops, name |-> name, rest |-> s.rest] ELSE Fail

\* "(" d ")" and the suffixes after it.
Grouped(d) ==
    IF d.ok /\ At(d.rest, 1) = T(")") THEN Suffixed(d.ops, d.name, ReadSuffixes(Drop(d.rest, 1)))
    ELSE Fail

ReadDeclarator(toks) ==
    CASE At(toks, 1) = T("*")    -> PointerTo(ReadDeclarator(Tail(toks)))
      [] At(toks, 1) = T("(")    -> Grouped(ReadDeclarator(Tail(toks)))
      [] At(toks, 1) \in Idents  -> Suffixed(<<>>, At(toks, 1), ReadSuffixes(Tail(toks)))
      [] OTHER                   -> Fail

\* The suffix op, followed by the suffixes s.
Prefixed(op, s) == IF s.ok THEN [s EXCEPT !.ops = <<op>> \o @] ELSE Fail

\* "(" p and the suffixes after it.
FuncSuffix(p) ==
    IF p.ok THEN Prefixed([k |-> "func", params |-> p.params, variadic |-> p.variadic],
                          ReadSuffixes(p.rest))
    ELSE Fail

ReadSuffixes(toks) ==
    CASE At(toks, 1) = T("[") ->
           IF DecValue(At(toks, 2)) >= 0 /\ At(toks, 3) = T("]")
           THEN Prefixed([k |-> "arr", len |-> DecValue(At(toks, 2))], ReadSuffixes(Drop(toks, 3)))
           ELSE Fail
      [] At(toks, 1) = T("(") -> FuncSuffix(ReadParamList(Tail(toks), <<>>))
      [] OTHER -> [ok |-> TRUE, ops |-> <<>>, rest |-> toks]

\* The parameter d read after params, then "," and more, or ")".
NextParam(d, params) ==
    IF d.ok /\ At(d.rest, 1) \in {T(","), T(")")}
    THEN ReadParamList(Drop(d.rest, IF At(d.rest, 1) = T(",") THEN 1 ELSE 0),
                       Append(params, Field(d.type, <<d.name>>)))
    ELSE Fail

\* The parameters after "(", up to and including ")".
ReadParamList(toks, params) ==
    CASE At(toks, 1) = T(")") ->
           [ok |-> TRUE, params |-> params, variadic |-> FALSE, rest |-> Tail(toks)]
      [] At(toks, 1) = T("...") /\ At(toks, 2) = T(")") ->
           [ok |-> TRUE, params |-> params, variadic |-> TRUE, rest |-> Drop(toks, 2)]
      [] OTHER -> NextParam(ReadDeclaration(toks), params)

\* The member d read after fields, then ";" and more.
NextMember(d, fields) ==
    IF d.ok /\ At(d.rest, 1) = T(";")
    THEN ReadMemberList(Tail(d.rest), Append(fields, Field(d.type, <<d.name>>)))
    ELSE Fail

\* The members after "struct {" or "union {", each ended by ";", up to and including "}".
ReadMemberList(toks, fields) ==
    IF At(toks, 1) = T("}") THEN [ok |-> TRUE, fields |-> fields, rest |-> Tail(toks)]
    ELSE NextMember(ReadDeclaration(toks), fields)

\* The whole text is one declaration.
Whole(d) == IF d.ok /\ d.rest = <<>> THEN d ELSE Fail
ReadBack(toks) == Whole(ReadDeclaration(toks))

\* An abstract declarator, the declarator of a type name, which declares
\* no identifier: "*" a, "(" a ")" suffix*, or suffix*.  A "(" opens a
\* group only before "*"; else it opens a parameter list.
RECURSIVE ReadAbstract(_)
ReadAbstract(toks) ==
    CASE At(toks, 1) = T("*")                       -> PointerTo(ReadAbstract(Tail(toks)))
      [] At(toks, 1) = T("(") /\ At(toks, 2) = T("*") -> Grouped(ReadAbstract(Tail(toks)))
      [] OTHER -> Suffixed(<<>>, <<>>, ReadSuffixes(toks))

\* A type specifier s and the abstract declarator that follows it.
TypeNameAfter(s) == IF s.ok THEN Declared(s, ReadAbstract(s.rest)) ELSE Fail

\* The whole text is one type name, as in a cast "(type-name)".
ReadTypeName(toks) == Whole(TypeNameAfter(ReadTypeSpec(toks)))

\* What a declaration can say about a type: an aggregate printed inline
\* has no tag, size or layout, one referenced by its tag shows no fields,
\* and a typedef shows only its name.
RECURSIVE Visible(_), VisibleBody(_)
Visible(t) ==
    CASE t.k = "ptr"   -> PointerType(Visible(t.elem))
      [] t.k = "arr"   -> ArrayType(Visible(t.elem), t.len)
      [] t.k = "func"  -> FuncType(Visible(t.ret),
                              [i \in 1..Len(t.params) |->
                                 Field(Visible(t.params[i].type), t.params[i].name)],
                              t.variadic)
      [] t.k = "union" /\ isFakeTag(t.tag) -> VisibleBody(t)
      [] t.k \in {"struct", "union", "enum"} -> Ref(t.k, t.tag)
      [] t.k = "typedef" -> Ref(t.k, t.name)
      [] OTHER -> t

VisibleBody(t) ==
    Body(t.k, [i \in 1..Len(t.fields) |-> Field(Visible(t.fields[i].type), t.fields[i].name)])

=============================================================================
