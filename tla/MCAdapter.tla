----------------------------- MODULE MCAdapter ------------------------------
(* Programs of up to three blocks for Adapter: one function, two, or blocks *)
(* no function owns, with every way their blocks may end.                   *)
EXTENDS Adapter, FiniteSets

\* Owners of blocks, up to the names of the functions; the first block of a
\* function is its entry.
Owners ==
    {<<"f">>, <<"f", "f">>, <<"f", "g">>, <<"none", "f">>, <<"none", "none">>,
     <<"f", "f", "f">>, <<"f", "f", "g">>, <<"f", "g", "f">>,
     <<"f", "none", "f">>, <<"none", "f", "g">>}

\* How a block ends that may go to the blocks of S: nowhere, at one of them, or
\* with a JUMPI that falls through to one of two, which is not the block itself.
Ends(S) == {<<{}, {}>>} \cup {<<{b}, {}>> : b \in S}
               \cup UNION {{<<{b, c}, {c}>> : b \in S \ {c}} : c \in S}

Program(owners, ends, selectors, effects) ==
    LET B == DOMAIN owners
        O == {b \in B : owners[b] # "none"}
        J == {b \in B : Cardinality(ends[b][1]) = 2}
    IN  [blocks |-> B,
         owner |-> [b \in O |-> owners[b]],
         entries |-> {b \in O : \A c \in O : owners[c] = owners[b] => b <= c},
         edges |-> UNION {{b} \X ends[b][1] : b \in B},
         falls |-> [b \in J |-> CHOOSE c \in ends[b][2] : TRUE],
         home |-> [s \in {10 + b : b \in B} |-> s - 10],
         effects |-> effects,
         selectors |-> selectors]

Same(owners, b) == {c \in DOMAIN owners : owners[c] = owners[b]}
EndsOf(owners) ==
    {e \in [DOMAIN owners -> Ends(DOMAIN owners)] :
        \A b \in DOMAIN owners : e[b] \in Ends(Same(owners, b)) /\ b \notin e[b][2]}
OwnersOf(owners) == {owners[b] : b \in DOMAIN owners} \ {"none"}

\* None, one or two selectors, 1 before 2, of the same function or of two; the
\* effect is in the first block or in the last.
SelectorsOf(F) ==
    {s \in SUBSET (F \X {1, 2}) :
        /\ Cardinality(s) <= 2
        /\ (\E f \in F : <<f, 2>> \in s) => \E f \in F : <<f, 1>> \in s}

ManyPrograms ==
    UNION {{Program(o, e, s, x) :
                e \in EndsOf(o),
                s \in SelectorsOf(OwnersOf(o)),
                x \in {{11}, {10 + Cardinality(DOMAIN o)}}} : o \in Owners}

\* At most one relation file is missing.
OneAbsent == {{}} \cup {{n} : n \in Names \ Required}
=============================================================================
