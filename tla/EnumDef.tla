------------------------------ MODULE EnumDef ------------------------------
(***************************************************************************)
(* EnumType.Def of src/class.go: sort.Slice sorts the enum's own Members  *)
(* slice in place by Value, then each member is printed as one line       *)
(* "name = value,".  The line layout (tabwriter alignment, the "\t" and   *)
(* "=") is left out: a rendering is the tag and the list of members in    *)
(* the order printed.                                                     *)
(*                                                                         *)
(* sort.Slice is not stable, and its algorithm depends on the Go release  *)
(* the program is built with.  For slices of at most 12 elements (the     *)
(* enums of the model) Go 1.19 and later (pdqsort) run an insertion sort, *)
(* while Go 1.18 and earlier (quickSort) first run one Shell-sort pass    *)
(* with gap 6 and then the insertion sort.  The build is a constant of    *)
(* the model, chosen in Init.                                              *)
(***************************************************************************)
EXTENDS Naturals, Sequences, SequencesExt

CONSTANTS
    Enums,      \* the enum types Def may be called on: [tag, members]
    Builds,     \* the Go releases the program may be built with
    MaxDefs     \* the most Def calls on one enum

ASSUME \A e \in Enums : Len(e.members) <= 12

VARIABLES
    build,      \* the Go release of this run
    tag,        \* t.Tag
    members,    \* t.Members, shared with every holder of the type
    outs        \* the renderings returned so far, in order

vars == <<build, tag, members, outs>>

-----------------------------------------------------------------------------
(* sort.Slice(t.Members, less) for len(t.Members) <= 12.                   *)

\* Mutant: less written with <=.
LessOrEqual(s, i, j) == s[i].value <= s[j].value

\* The less closure of EnumType.Def, on the slice as it is now.
Less(s, i, j) == s[i].value < s[j].value

\* Mutant: a swap that copies one element over the other.
SwapLossy(s, i, j) == [s EXCEPT ![i] = s[j]]

\* The swapper of sort.Slice (reflect.Swapper).
Swap(s, i, j) == [s EXCEPT ![i] = s[j], ![j] = s[i]]

\* Mutant: the inner loop stopping one element early (j > a + 1).
RECURSIVE SinkOffByOne(_, _)
SinkOffByOne(s, j) ==
    IF j > 2 /\ Less(s, j, j - 1) THEN SinkOffByOne(Swap(s, j, j - 1), j - 1) ELSE s

\* The inner loop of insertionSort: for j := i; j > a && less(j, j-1); j--.
RECURSIVE Sink(_, _)
Sink(s, j) ==
    IF j > 1 /\ Less(s, j, j - 1) THEN Sink(Swap(s, j, j - 1), j - 1) ELSE s

\* insertionSort(data, 0, n): sink each element from the second on.
InsertionSort(s) == FoldLeft(LAMBDA acc, i : Sink(acc, i), s, [k \in 1..Len(s) - 1 |-> k + 1])

\* quickSort's "ShellSort pass with gap 6" for 1 < n <= 12.
ShellPass(s) ==
    FoldLeft(LAMBDA acc, i : IF Less(acc, i, i - 6) THEN Swap(acc, i, i - 6) ELSE acc,
             s, [k \in 1..Len(s) - 6 |-> k + 6])

SortSlice(b, s) ==
    IF b = "go1.18" /\ Len(s) > 1 THEN InsertionSort(ShellPass(s)) ELSE InsertionSort(s)

-----------------------------------------------------------------------------

Init ==
    /\ build \in Builds
    /\ \E e \in Enums : tag = e.tag /\ members = e.members
    /\ outs = <<>>

\* EnumType.Def: sort t.Members in place, then print the tag and the
\* members in their new order.
Def ==
    /\ Len(outs) < MaxDefs
    /\ LET sorted == SortSlice(build, members)
       IN  /\ members' = sorted
           /\ outs' = Append(outs, [tag |-> tag, lines |-> sorted])
    /\ UNCHANGED <<build, tag>>

\* No more calls.
Done == Len(outs) = MaxDefs /\ UNCHANGED vars

Next == Def \/ Done

Spec == Init /\ [][Next]_vars

=============================================================================
