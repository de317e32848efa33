------------------------------ MODULE MCLifter ------------------------------
(* Small sets of blocks for Lifter: every short block over an alphabet, and *)
(* the Solidity idiom that reads balances[msg.sender] with edits to it.     *)
EXTENDS Lifter, FiniteSets

I(op) == [op |-> op]
P(n) == [op |-> "PUSH", n |-> n]
D(n) == [op |-> "DUP", n |-> n]
S(n) == [op |-> "SWAP", n |-> n]
Op(pops, pushes, writes) ==
    [op |-> "OTHER", pops |-> pops, pushes |-> pushes, writes |-> writes]

Jumpdest == Op(0, 0, FALSE)
Callvalue == Op(0, 1, FALSE)
Add == Op(2, 1, FALSE)
Calldatacopy == Op(3, 0, TRUE)

Alphabet ==
    {P(0), P(32), D(1), D(2), S(1), S(2), Jumpdest, Callvalue, Add}
        \cup {I(op) : op \in PlainOps}

\* Every block of at most four instructions ending in a storage access.
ShortBlocks ==
    {s \o <<I(op)>> : s \in UNION {[1..k -> Alphabet] : k \in 0..3},
                      op \in {"SLOAD", "SSTORE"}}

Idiom == <<I("CALLER"), P(0), I("MSTORE"), P(5), P(32), I("MSTORE"),
           P(64), P(0), I("SHA3"), I("SLOAD")>>

Edits == Alphabet \cup {P(16), P(64), Calldatacopy}
Insert(s, i, x) == SubSeq(s, 1, i) \o <<x>> \o SubSeq(s, i + 1, Len(s))
Replace(s, i, x) == [s EXCEPT ![i] = x]

Replaced == {Replace(Idiom, i, x) : i \in 1..9, x \in Edits}
\* The hash is the key of a second mapping, which the lifter leaves symbolic.
Nested == SubSeq(Idiom, 1, 9) \o <<P(0), I("MSTORE"), P(64), P(0), I("SHA3"), I("SLOAD")>>

EditedIdioms == {Nested} \cup {Replace(Nested, i, x) : i \in 1..14, x \in Edits} \cup Replaced \cup {Insert(s, i, x) : s \in Replaced, i \in 0..9, x \in Edits}

\* Seven known operands and a call of each kind, then a store; with the size
\* of the answer zero or not.
CallBlocks ==
    {<<I("CALLER"), P(0), I("MSTORE"), P(5), P(32), I("MSTORE"), P(out), P(6), P(5),
       P(4), P(3), P(2), P(1), I(op), P(64), P(0), I("SHA3"), I("SSTORE")>> :
       out \in {0, 7}, op \in CallOps \ {"SELFDESTRUCT"}}
        \cup {<<P(9), I("SELFDESTRUCT")>>}

FullCalls == {s \in CallBlocks : \E i \in DOMAIN s : s[i] = I("CALL")}

ManyBlocks == ShortBlocks \cup EditedIdioms \cup CallBlocks
ShallowBlocks == {s \in ShortBlocks : Len(s) <= 3}
AllDepths == {0, 1, 2, 3}
=============================================================================
