--------------------------- MODULE MCControlFlow ---------------------------
(* Small bytecodes for ControlFlow and its decoder: every short string of  *)
(* the opcodes that steer control flow, and dispatchers with small bodies.  *)
EXTENDS ControlFlow

Steering == {STOP, JUMP, JUMPI, JUMPDEST, PUSH0, PUSH1, PUSH4, PUSH1 + 1, 4}

\* Every bytecode of one to four of these bytes (4 is also MUL... any opcode
\* without effect here, and a destination).
ShortCodes == UNION {[1..n -> Steering] : n \in 1..4}

\* PUSH4 selector EQ PUSH1 destination JUMPI
Case(selector, destination) ==
    <<PUSH4, 0, 0, 0, selector, EQ, PUSH1, destination, JUMPI>>

\* Bodies placed behind two cases and a STOP, that is from offset 19 on: a
\* loop, a shared tail, a branch out of one body into the other, and data.
Bodies ==
    {<<JUMPDEST, PUSH1, 19, JUMP, JUMPDEST, STOP>>,
     <<JUMPDEST, PUSH1, 23, JUMP, JUMPDEST, PUSH1, 19, JUMPI, STOP>>,
     <<JUMPDEST, PUSH1, 23, JUMPI, JUMPDEST, PUSH1, 0, JUMP>>,
     <<JUMPDEST, PUSH0, JUMPI, PUSH1, JUMPDEST, JUMPDEST, STOP>>,
     <<JUMPDEST, STOP, STOP, STOP, JUMPDEST, PUSH1 + 1, JUMPDEST>>}

\* Destinations: the two bodies, the middle of an operand, the end of the code,
\* a block that is no JUMPDEST, and an offset nothing starts at.
Targets == {19, 23, 0, 20, 24, 9, 2}

Programs ==
    {Case(s, d) \o Case(t, e) \o <<STOP>> \o body :
        s \in {1, 2}, t \in {1, 2}, d \in Targets, e \in Targets, body \in Bodies}
        \cup {Case(1, d) \o body : d \in {9, 13, 14}, body \in Bodies}

\* Comparisons that only look like a dispatcher.
Lookalikes ==
    {<<PUSH4, 0, 0, 0, 1, x, EQ, y, PUSH1, 11, z, JUMPDEST, STOP>> :
        x \in {EQ, 4, PUSH0}, y \in {4, PUSH0, JUMPI}, z \in {JUMPI, JUMP, 4}}

\* Strings whose operands run past the end, with the widest PUSH.
Cuts == UNION {[1..n -> {JUMPDEST, PUSH1, PUSH1 + 1, PUSH32}] : n \in 1..5}

ManyCodes == ShortCodes \cup Programs \cup Lookalikes \cup Cuts
=============================================================================
