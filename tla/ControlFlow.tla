---------------------------- MODULE ControlFlow ----------------------------
(***************************************************************************)
(* From decoded instructions to owned functions: build_blocks of           *)
(* gigahorse/parser.py, _selectors and _reachable of gigahorse/builtin.py, *)
(* the checks of gigahorse/relations.py on the rows they produce and the   *)
(* checks of the IR models on the functions built from them                *)
(* (ir/builder.py, models/ir.py).                                          *)
(*                                                                         *)
(* Decoding goes on as in Disassembler; the blocks and the dispatcher      *)
(* entries are then computed in one step, the worklist of _reachable is    *)
(* run turn by turn for each entry, and the rows are checked twice, as     *)
(* relations and as IR.  Blocks are named by the offset they start at      *)
(* (block_id is injective), functions by the selector they answer to.      *)
(***************************************************************************)
EXTENDS Disassembler, FiniteSets

VARIABLES
    phase,      \* "decode", "reach", "validate", "build" and how it ended
    blocks,     \* by_id: block -> the sequence of its successors
    entries,    \* FunctionEntry: the sequence of <<function, block>> found
    fn,         \* the entry whose blocks are being collected
    seen, todo, \* the locals of _reachable
    rows        \* FunctionBlock: the <<function, block>> pairs

flow == <<phase, blocks, entries, fn, seen, todo, rows>>
vars == <<code, pc, instructions, phase, blocks, entries, fn, seen, todo, rows>>

Ended == {"built", "bad_relations", "bad_IR"}
Phases == {"decode", "reach", "validate", "build"} \cup Ended

----------------------------------------------------------------------------
(* Blocks (parser.py:128-171) *)

Positions == 1..Len(instructions)
Terminators == {STOP, JUMP, JUMPI, RETURN, REVERT, INVALID, SELFDESTRUCT}

BigEndian(raw) ==
    LET value[n \in 0..Len(raw)] == IF n = 0 THEN 0 ELSE 256 * value[n - 1] + raw[n]
    IN  value[Len(raw)]

Operand(i) == BigEndian(instructions[i].operand[1])
HasOperand(i) == instructions[i].operand # None

\* Where blocks start: the first instruction, every JUMPDEST, and whatever
\* follows an instruction that ends one.
LeadsAtJumpdest(i) == i = 1 \/ instructions[i].opcode = JUMPDEST
LeadsAfterTerminator(i) == i = 1 \/ (i > 1 /\ instructions[i - 1].opcode \in Terminators)
Leads(i) ==
    \/ i = 1
    \/ instructions[i].opcode = JUMPDEST
    \/ i > 1 /\ instructions[i - 1].opcode \in Terminators

Leaders == {i \in Positions : Leads(i)}
BlockPcs == {instructions[i].pc : i \in Leaders}

\* The instructions of a block: from the one at b up to the next start.
First(b) == CHOOSE i \in Positions : instructions[i].pc = b
EndsAt(b, i) ==
    /\ First(b) <= i
    /\ i = Len(instructions) \/ Leads(i + 1)
    /\ \A j \in First(b)..(i - 1) : ~Leads(j + 1)
Final(b) == CHOOSE i \in Positions : EndsAt(b, i)
Body(b) == First(b)..Final(b)

\* The nearest PUSH before a jump (PUSH0 does not count), if a block starts
\* where it points.
IsPush(i) == HasOperand(i) /\ instructions[i].opcode >= PUSH1
Pushes(b, i) ==
    /\ IsPush(i) /\ i \in Body(b) \ {Final(b)}
    /\ \A j \in (i + 1)..(Final(b) - 1) : ~IsPush(j)
TargetAnywhere(b) == {Operand(i) : i \in {j \in Positions : Pushes(b, j)}}
Target(b) == {Operand(i) : i \in {j \in Positions : Pushes(b, j)}} \cap BlockPcs
JumpTarget(b) ==
    IF instructions[Final(b)].opcode \in {JUMP, JUMPI} /\ Target(b) # {}
      THEN <<CHOOSE target \in Target(b) : TRUE>>
      ELSE <<>>

\* The block that runs next when this one does not end the flow.
NextBlockUnlessJump(b) ==
    LET last == Final(b)
    IN  IF last < Len(instructions) /\ instructions[last].opcode \notin Terminators
          THEN <<instructions[last + 1].pc>>
          ELSE <<>>
NextBlock(b) ==
    LET last == Final(b)
    IN  IF last < Len(instructions) /\ instructions[last].opcode \notin Terminators \ {JUMPI}
          THEN <<instructions[last + 1].pc>>
          ELSE <<>>

\* The jump's block, then the next one, and no block twice.
Successors(b) ==
    IF JumpTarget(b) = NextBlock(b) THEN NextBlock(b) ELSE JumpTarget(b) \o NextBlock(b)

----------------------------------------------------------------------------
(* Selectors (builtin.py:12-33) *)

\* In the six instructions after a PUSH4: the first EQ, the first operand
\* after it, and a JUMPI after that.
Window(i) == {j \in Positions : i < j /\ j <= i + 6}
Compares(i, e) ==
    /\ instructions[e].opcode = EQ
    /\ \A j \in (i + 1)..(e - 1) : instructions[j].opcode # EQ
Destines(e, d) ==
    /\ e < d /\ HasOperand(d)
    /\ \A j \in (e + 1)..(d - 1) : ~HasOperand(j)

\* Where that operand is, if the PUSH4 at i starts a dispatcher.
Destinations(i) ==
    {d \in Window(i) :
        /\ instructions[i].opcode = PUSH4 /\ HasOperand(i)
        /\ \E e \in Window(i) : Compares(i, e) /\ Destines(e, d)
        /\ \E j \in Window(i) : j > d /\ instructions[j].opcode = JUMPI}

Dispatchers == {i \in Positions : Destinations(i) # {}}
EntryOf(i) == <<Operand(i), Operand(CHOOSE d \in Destinations(i) : TRUE)>>

\* The dispatchers in the order of the code.
Nth(n) == CHOOSE i \in Dispatchers :
             Cardinality({j \in Dispatchers : j < i}) = n - 1

----------------------------------------------------------------------------
(* The run *)

Init ==
    /\ DecodeInit
    /\ phase = "decode"
    /\ blocks = <<>> /\ entries = <<>> /\ fn = 0
    /\ seen = {} /\ todo = <<>> /\ rows = {}

DecodeStep == phase = "decode" /\ Decode /\ UNCHANGED flow

\* The code is decoded.
Lift ==
    /\ phase = "decode" /\ pc = Len(code)
    /\ blocks' = [b \in BlockPcs |-> Successors(b)]
    /\ UNCHANGED <<code, pc, instructions, seen>>

\* Without a dispatcher all blocks are one function, entered at the first.
NoDispatcher ==
    /\ Lift
    /\ Dispatchers = {}
    /\ entries' = <<<<"fallback", instructions[1].pc>>>>
    /\ rows' = {<<"fallback", b>> : b \in BlockPcs}
    /\ phase' = "validate"
    /\ UNCHANGED <<fn, todo>>

Dispatcher ==
    /\ Lift
    /\ Dispatchers # {}
    /\ entries' = [n \in 1..Cardinality(Dispatchers) |-> EntryOf(Nth(n))]
    /\ fn' = 1 /\ todo' = <<EntryOf(Nth(1))[2]>>
    /\ phase' = "reach"
    /\ UNCHANGED rows

\* One turn of the while loop: pop, and expand a block not seen before.
PassesUnknown(b) == b \notin DOMAIN blocks
Passes(b) == b \in seen \/ b \notin DOMAIN blocks
ExpandFirst(b, rest) == IF blocks[b] = <<>> THEN rest ELSE Append(rest, blocks[b][1])
Expand(b, rest) == rest \o blocks[b]

Visit ==
    /\ phase = "reach" /\ todo # <<>>
    /\ LET current == todo[Len(todo)]
           rest == SubSeq(todo, 1, Len(todo) - 1)
       IN  IF Passes(current)
             THEN todo' = rest /\ UNCHANGED seen
             ELSE seen' = seen \cup {current} /\ todo' = Expand(current, rest)
    /\ UNCHANGED <<code, pc, instructions, phase, blocks, entries, fn, rows>>

\* Every call of _reachable has a seen of its own.
SeenShared == seen
SeenAtStart == {}

\* The worklist is empty: the function owns what was seen.
Collect ==
    /\ phase = "reach" /\ todo = <<>>
    /\ rows' = rows \cup {<<entries[fn][1], b>> : b \in seen}
    /\ seen' = SeenAtStart
    /\ IF fn < Len(entries)
         THEN fn' = fn + 1 /\ todo' = <<entries[fn + 1][2]>> /\ UNCHANGED phase
         ELSE phase' = "validate" /\ UNCHANGED <<fn, todo>>
    /\ UNCHANGED <<code, pc, instructions, blocks, entries>>

\* validate_relations: the reference checks the lifter's rows can fail.
EntriesKnown == \A n \in 1..Len(entries) : entries[n][2] \in DOMAIN blocks
RowsKnown ==
    \A r \in rows : /\ r[2] \in DOMAIN blocks
                    /\ \E n \in 1..Len(entries) : entries[n][1] = r[1]

Validate ==
    /\ phase = "validate"
    /\ phase' = IF EntriesKnown /\ RowsKnown THEN "build" ELSE "bad_relations"
    /\ UNCHANGED <<code, pc, instructions, blocks, entries, fn, seen, todo, rows>>

\* build_contract_ir: of several FunctionEntry rows of a function the last of
\* the sorted file is its entry; its members are its rows and that entry.  The
\* file is sorted by names, 'B_%04x' strings, which are in the order of the
\* offsets up to 64 KiB (EIP-170 allows a contract 24).
Functions == {entries[n][1] : n \in 1..Len(entries)}
EntryBlocks(f) == {entries[n][2] : n \in {m \in 1..Len(entries) : entries[m][1] = f}}
IsEntry(f, b) == b \in EntryBlocks(f) /\ \A c \in EntryBlocks(f) : c <= b
Members(f) == {b \in DOMAIN blocks : <<f, b>> \in rows \/ IsEntry(f, b)}

\* ConditionalSuccessor (builtin.py:195-199): a JUMPI with two successors.
Branches(b) ==
    /\ instructions[Final(b)].opcode = JUMPI
    /\ Len(blocks[b]) = 2

\* A function needs a block, and (BasicBlockIR) both branches of a member must
\* be edges the function keeps.
ModelsAccept ==
    \A f \in Functions :
        /\ Members(f) # {}
        /\ \A b \in Members(f) :
              Branches(b) => \A i \in 1..2 : blocks[b][i] \in Members(f)

Build ==
    /\ phase = "build"
    /\ phase' = IF ModelsAccept THEN "built" ELSE "bad_IR"
    /\ UNCHANGED <<code, pc, instructions, blocks, entries, fn, seen, todo, rows>>

Next == DecodeStep \/ NoDispatcher \/ Dispatcher \/ Visit \/ Collect \/ Validate \/ Build

Spec == Init /\ [][Next]_vars
\* The worklist loop runs on.
FairSpec == Spec /\ WF_vars(Visit \/ Collect)

----------------------------------------------------------------------------
(* Properties *)

TypeOK ==
    /\ DecodeTypeOK
    /\ phase \in Phases
    /\ DOMAIN blocks \subseteq Nat
    /\ \A b \in DOMAIN blocks : blocks[b] \in Seq(DOMAIN blocks)
    /\ fn \in 0..Len(entries)
    /\ seen \subseteq DOMAIN blocks
    /\ \A i \in 1..Len(todo) : todo[i] \in DOMAIN blocks \/ todo[i] = entries[fn][2]
    /\ \A r \in rows : r[2] \in DOMAIN blocks

LeadsTo(b, c) == \E i \in 1..Len(blocks[b]) : blocks[b][i] = c
Closed(S) == \A b \in S, c \in DOMAIN blocks : LeadsTo(b, c) => c \in S

\* S holds the blocks there are among E and all that its own lead to.
ClosedOver(E, S) == E \cap DOMAIN blocks \subseteq S /\ Closed(S)

\* _reachable collects nothing but what the entry can reach: seen lies in
\* every set of blocks that holds the entry and is closed under the edges.
SeenIsReached ==
    phase = "reach" =>
        \A S \in SUBSET DOMAIN blocks :
            ClosedOver({entries[fn][2]}, S) => seen \subseteq S

\* ... and where dispatchers were found a function owns nothing but what its
\* entries reach.
RowsAreReached ==
    fn > 0 =>
        \A S \in SUBSET DOMAIN blocks : \A r \in rows :
            ClosedOver(EntryBlocks(r[1]), S) => r[2] \in S

\* Nor is anything left out: a function owns what its blocks lead to, and,
\* once all are collected, every one of its entries that is a block.
MembershipIsClosed ==
    /\ \A r \in rows : \A c \in DOMAIN blocks : LeadsTo(r[2], c) => <<r[1], c>> \in rows
    /\ phase \in {"validate", "build"} \cup Ended =>
          \A n \in 1..Len(entries) : entries[n][2] \in DOMAIN blocks => entries[n] \in rows

\* A function owns exactly what its entries reach.
OwnsExactly == SeenIsReached /\ RowsAreReached /\ MembershipIsClosed

\* Relations that pass the boundary check (relations.py:60-138) are never
\* refused later on by the validators of the IR models.
NoLateRefusal == phase # "bad_IR"

\* A program whose dispatchers all lead to destinations the EVM accepts is
\* never refused.
RealDispatchersAccepted ==
    phase \in {"bad_relations", "bad_IR"} =>
        \E n \in 1..Len(entries) : ~ValidJumpdest(entries[n][2])

\* Control enters a block only at its first instruction and leaves it only at
\* its last, so the straight-line lifting of a block sees all of it in order.
BlocksAreBasic ==
    \A b \in DOMAIN blocks : \A i \in Body(b) :
        /\ instructions[i].opcode = JUMPDEST => i = First(b)
        /\ instructions[i].opcode \in Terminators => i = Final(b)

\* No static edge is missing: a jump straight after the PUSH (not PUSH0) of a
\* destination the EVM accepts has its edge, and so has falling through.
JumpsTo(j, d) ==
    /\ instructions[j].opcode \in {JUMP, JUMPI}
    /\ j > 1 /\ HasOperand(j - 1) /\ instructions[j - 1].opcode # PUSH0
    /\ Operand(j - 1) = d /\ ValidJumpdest(d)

FallsThrough(j, d) ==
    /\ instructions[j].opcode \notin Terminators \ {JUMPI}
    /\ j < Len(instructions) /\ instructions[j + 1].pc = d

StaticEdgesPresent ==
    \A b \in DOMAIN blocks : \A d \in 0..(Len(code) - 1) :
        JumpsTo(Final(b), d) \/ FallsThrough(Final(b), d) => LeadsTo(b, d)

\* Whatever loops the code has, the worklist of every entry empties.
WorklistsEnd == phase = "reach" ~> phase = "validate"
=============================================================================
