------------------------------- MODULE Lifter -------------------------------
(***************************************************************************)
(* The storage and call facts of the built-in lifter: _storage_expressions *)
(* of gigahorse/builtin.py, run over one basic block beside the EVM that   *)
(* would execute it.                                                       *)
(*                                                                         *)
(* The lifter walks a block with a symbolic stack and memory that are      *)
(* empty at the block's start, whatever the real ones hold.  It labels     *)
(* each SLOAD and SSTORE with the slot it believes is touched and each     *)
(* call with its operands.  The model executes every instruction twice,    *)
(* once as the lifter reads it and once as the EVM runs it, and records    *)
(* both sides, so that a label can be compared with what really happened.  *)
(*                                                                         *)
(* Both sides describe a 256-bit word by its shape: a known constant,      *)
(* msg.sender, a word of calldata at a known offset, the hash of a key and *)
(* a constant base slot (a mapping element), or anything else.  The texts  *)
(* the lifter writes (_expr_text) are these shapes: "unknown", "sha3",     *)
(* "sload@0005", "calldata(unknown)" all say no more than Other.           *)
(* Addresses of instructions are their positions in the block.             *)
(***************************************************************************)
EXTENDS Integers, Sequences

CONSTANTS
    Blocks,         \* the blocks to lift: sequences of instructions
    EntryDepths     \* how many words the real stack may hold on entry

Leaf == [kind : {"constant", "caller", "calldata", "other"}, n : Nat]
Mapping == [kind : {"mapping"}, n : Nat, key : Leaf]
Values == Leaf \cup Mapping

Constant(n) == [kind |-> "constant", n |-> n]
Caller == [kind |-> "caller", n |-> 0]
Other == [kind |-> "other", n |-> 0]

(***************************************************************************)
(* Instructions.  OTHER stands for every opcode the lifter's if-chain does *)
(* not name: it takes pops words, leaves pushes words and may write memory *)
(* (ADD is 2, 1; MLOAD 1, 1; CALLVALUE 0, 1; LOG0 2, 0; JUMPDEST 0, 0;     *)
(* CALLDATACOPY 3, 0 and writes).                                          *)
(***************************************************************************)
CallOps == {"CREATE", "CALL", "CALLCODE", "DELEGATECALL", "CREATE2",
            "STATICCALL", "SELFDESTRUCT"}
PlainOps == {"CALLER", "CALLDATALOAD", "POP", "MSTORE", "SHA3", "SLOAD", "SSTORE"}

Instruction ==
    [op : {"PUSH"}, n : Nat]
        \cup [op : {"DUP", "SWAP"}, n : 1..16]
        \cup [op : PlainOps \cup CallOps]
        \cup [op : {"OTHER"}, pops : Nat, pushes : Nat, writes : BOOLEAN]

Arity == [CREATE |-> 3, CALL |-> 7, CALLCODE |-> 7, DELEGATECALL |-> 6,
          CREATE2 |-> 4, STATICCALL |-> 6, SELFDESTRUCT |-> 1]

ASSUME LifterAssumption ==
    /\ Blocks \subseteq Seq(Instruction)
    /\ EntryDepths \subseteq Nat

VARIABLES
    block,      \* the instructions of the block being lifted
    at,         \* the position of the next instruction
    stack,      \* the lifter's stack, top first
    memory,     \* the lifter's memory: offset -> value
    result,     \* position of an SLOAD or SSTORE -> the slot label
    values,     \* position of an SSTORE -> the label of the stored value
    calls,      \* position of a call -> the operands as the lifter lists them
    evm,        \* the real stack, top first
    ram,        \* the real memory words whose shape is determined
    truth,      \* position of a labelled instruction -> its real operands
    lost        \* first position whose effect the lifter does not follow

lifter == <<stack, memory, result, values, calls>>
real == <<evm, ram, truth, lost>>
vars == <<block, at, stack, memory, result, values, calls, evm, ram, truth, lost>>

----------------------------------------------------------------------------
(* Stacks, memories and hashes *)

Rest(s, k) == SubSeq(s, k + 1, Len(s))
PushOn(v, s) == <<v>> \o s
Put(f, k, v) == [x \in DOMAIN f \cup {k} |-> IF x = k THEN v ELSE f[x]]
Empty == [x \in {} |-> Other]

\* The k-th pop of the lifter: a stack it has exhausted yields "unknown".
Operand(s, k) == IF k <= Len(s) THEN s[k] ELSE Other

\* CALLDATALOAD: the text of the offset is kept when it is a number.
Calldata(offset) ==
    IF offset.kind = "constant" THEN [kind |-> "calldata", n |-> offset.n] ELSE Other

\* A key inside a mapping label is the text of a value of one level.
KeyTextNested(v) == v
KeyText(v) == IF v \in Leaf THEN v ELSE Other

\* What the hash of a key word and a base word is.
HashOf(key, base) ==
    IF base.kind = "constant"
        THEN [kind |-> "mapping", n |-> base.n, key |-> KeyText(key)]
        ELSE Other

Both(m, offset) == {offset, offset + 32} \subseteq DOMAIN m

\* SHA3 as the lifter sees it: two remembered words, and no nested mapping.
Sha3Label(offset, size) ==
    IF /\ offset.kind = "constant"
       /\ size = Constant(64)
       /\ Both(memory, offset.n)
       /\ memory[offset.n].kind # "mapping"
        THEN HashOf(memory[offset.n], memory[offset.n + 32])
        ELSE Other

\* SHA3 as the EVM computes it.
Sha3Word(offset, size) ==
    IF offset.kind = "constant" /\ size = Constant(64) /\ Both(ram, offset.n)
        THEN HashOf(ram[offset.n], ram[offset.n + 32])
        ELSE Other

Overlaps(x, y) == x # y /\ x < y + 32 /\ y < x + 32

\* The real memory after a word is stored at a known or an unknown offset.
Written(offset, v) ==
    IF offset.kind = "constant"
        THEN Put([x \in {y \in DOMAIN ram : ~Overlaps(y, offset.n)} |-> ram[x]], offset.n, v)
        ELSE Empty

----------------------------------------------------------------------------
(* One action per instruction *)

Instr == block[at]

\* The EVM has the operands (it halts on an underflow, and the rest of the
\* block is never run).
Runs(op, needs) ==
    /\ at <= Len(block)
    /\ Instr.op = op
    /\ Len(evm) >= needs
    /\ at' = at + 1
    /\ UNCHANGED block

\* The ghost that says from where on the lifter is no longer in step.
Follows(inStep) == lost' = IF ~inStep /\ lost > at THEN at ELSE lost

\* Both sides take k words and put one back.
Swaps(k, label, word) ==
    /\ stack' = PushOn(label, Rest(stack, k))
    /\ evm' = PushOn(word, Rest(evm, k))

Drops(k) == stack' = Rest(stack, k) /\ evm' = Rest(evm, k)

Init ==
    /\ block \in Blocks
    /\ at = 1
    /\ stack = <<>> /\ memory = Empty
    /\ result = Empty /\ values = Empty /\ calls = Empty
    /\ \E d \in EntryDepths : evm = [i \in 1..d |-> Other]
    /\ ram = Empty /\ truth = Empty
    /\ lost = Len(block) + 1

Push ==
    /\ Runs("PUSH", 0)
    /\ Swaps(0, Constant(Instr.n), Constant(Instr.n))
    /\ Follows(TRUE)
    /\ UNCHANGED <<memory, result, values, calls, ram, truth>>

PushCaller ==
    /\ Runs("CALLER", 0)
    /\ Swaps(0, Caller, Caller)
    /\ Follows(TRUE)
    /\ UNCHANGED <<memory, result, values, calls, ram, truth>>

LoadCalldata ==
    /\ Runs("CALLDATALOAD", 1)
    /\ Swaps(1, Calldata(Operand(stack, 1)), Calldata(evm[1]))
    /\ Follows(TRUE)
    /\ UNCHANGED <<memory, result, values, calls, ram, truth>>

Dup ==
    /\ Runs("DUP", Instr.n)
    /\ Swaps(0, Operand(stack, Instr.n), evm[Instr.n])
    /\ Follows(TRUE)
    /\ UNCHANGED <<memory, result, values, calls, ram, truth>>

Exchange(s, n) ==
    [i \in 1..Len(s) |-> IF i = 1 THEN s[n + 1] ELSE IF i = n + 1 THEN s[1] ELSE s[i]]

SwapLabelsDeep(n) == IF Len(stack) > n + 1 THEN Exchange(stack, n) ELSE stack

\* The lifter leaves its stack alone when the swap reaches below it.
SwapLabels(n) == IF Len(stack) > n THEN Exchange(stack, n) ELSE stack

Swap ==
    /\ Runs("SWAP", Instr.n + 1)
    /\ stack' = SwapLabels(Instr.n)
    /\ evm' = Exchange(evm, Instr.n)
    /\ Follows(Len(stack) > Instr.n)
    /\ UNCHANGED <<memory, result, values, calls, ram, truth>>

Pop ==
    /\ Runs("POP", 1)
    /\ Drops(1)
    /\ Follows(TRUE)
    /\ UNCHANGED <<memory, result, values, calls, ram, truth>>

\* A store at an offset the lifter does not know leaves its memory alone, and
\* no store makes it forget a word it overlaps.
Remember(offset, v) == IF offset.kind = "constant" THEN Put(memory, offset.n, v) ELSE memory

InStepWith(offset) ==
    /\ offset.kind = "constant"
    /\ \A x \in DOMAIN memory : ~Overlaps(x, offset.n)

Mstore ==
    /\ Runs("MSTORE", 2)
    /\ Drops(2)
    /\ memory' = Remember(Operand(stack, 1), Operand(stack, 2))
    /\ ram' = Written(evm[1], evm[2])
    /\ Follows(InStepWith(Operand(stack, 1)))
    /\ UNCHANGED <<result, values, calls, truth>>

Sha3 ==
    /\ Runs("SHA3", 2)
    /\ Swaps(2, Sha3Label(Operand(stack, 1), Operand(stack, 2)), Sha3Word(evm[1], evm[2]))
    /\ Follows(TRUE)
    /\ UNCHANGED <<memory, result, values, calls, ram, truth>>

\* "fixed:n", "mapping:base:key" or "symbolic:..."
SlotLabel(v) == IF v.kind \in {"constant", "mapping"} THEN v ELSE Other

Sload ==
    /\ Runs("SLOAD", 1)
    /\ result' = Put(result, at, SlotLabel(Operand(stack, 1)))
    /\ truth' = Put(truth, at, <<evm[1]>>)
    /\ Swaps(1, Other, Other)
    /\ Follows(TRUE)
    /\ UNCHANGED <<memory, values, calls, ram>>

StoredText == Operand(stack, 2)

Sstore ==
    /\ Runs("SSTORE", 2)
    /\ result' = Put(result, at, SlotLabel(Operand(stack, 1)))
    /\ values' = Put(values, at, StoredText)
    /\ truth' = Put(truth, at, <<evm[1], evm[2]>>)
    /\ Drops(2)
    /\ Follows(TRUE)
    /\ UNCHANGED <<memory, calls, ram>>

\* The operands as the lifter lists them: popped in order, then reversed.
CallArgs(a) == [i \in 1..a |-> Operand(stack, a + 1 - i)]

\* The size of the memory a call writes its answer to (its last operand).
OutSize(op, s) ==
    IF op \in {"CREATE", "CREATE2", "SELFDESTRUCT"}
        THEN Constant(0)
        ELSE Operand(s, Arity[op])

Call(op) ==
    /\ Runs(op, Arity[op])
    /\ calls' = Put(calls, at, CallArgs(Arity[op]))
    /\ truth' = Put(truth, at, SubSeq(evm, 1, Arity[op]))
    /\ IF op = "SELFDESTRUCT" THEN Drops(1) ELSE Swaps(Arity[op], Other, Other)
    /\ ram' = IF OutSize(op, evm) = Constant(0) THEN ram ELSE Empty
    /\ Follows(OutSize(op, stack) = Constant(0))
    /\ UNCHANGED <<memory, result, values>>

\* Any other opcode: the EVM runs it, the lifter does nothing.
Ignore ==
    /\ Runs("OTHER", Instr.pops)
    /\ evm' = [i \in 1..Instr.pushes |-> Other] \o Rest(evm, Instr.pops)
    /\ ram' = IF Instr.writes THEN Empty ELSE ram
    /\ Follows(Instr.pops = 0 /\ Instr.pushes = 0 /\ ~Instr.writes)
    /\ UNCHANGED <<stack, memory, result, values, calls, truth>>

Next ==
    \/ Push \/ PushCaller \/ LoadCalldata \/ Dup \/ Swap \/ Pop
    \/ Mstore \/ Sha3 \/ Sload \/ Sstore
    \/ \E op \in CallOps : Call(op)
    \/ Ignore

Spec == Init /\ [][Next]_vars

----------------------------------------------------------------------------
(* Properties *)

\* What a label claims is true of the word it describes.  Other claims
\* nothing; a mapping label claims its base, and its key when it names one.
Describes(label, word) ==
    \/ label.kind = "other"
    \/ label.kind # "mapping" /\ label = word
    \/ /\ label.kind = "mapping" /\ word.kind = "mapping"
       /\ word.n = label.n
       /\ label.key.kind = "other" \/ label.key = word.key

\* Every variable has its type (the lifter's and the EVM's words are Values).
Partial(f, R) == DOMAIN f \subseteq Nat /\ \A x \in DOMAIN f : f[x] \in R

TypeOK ==
    /\ block \in Seq(Instruction)
    /\ at \in 1..(Len(block) + 1)
    /\ lost \in 1..(Len(block) + 1)
    /\ stack \in Seq(Values) /\ evm \in Seq(Values)
    /\ Partial(memory, Values) /\ Partial(ram, Values)
    /\ Partial(result, Values) /\ Partial(values, Values)
    /\ Partial(calls, Seq(Values)) /\ Partial(truth, Seq(Values))

\* A slot label is true of the slot the EVM touches, for every SLOAD and
\* SSTORE up to the first instruction whose effect the lifter does not follow
\* (builtin.py:59-142, "unambiguous local evidence").
SlotsTrue ==
    \A p \in DOMAIN result : p <= lost => Describes(result[p], truth[p][1])

\* The same for the label of the value an SSTORE writes.
StoredValuesTrue ==
    \A p \in DOMAIN values : p <= lost => Describes(values[p], truth[p][2])

\* Both kinds of label, as one property: what the IR asserts of storage from
\* local evidence is true of the chain.
LabelsTrue == SlotsTrue /\ StoredValuesTrue

\* The docstring taken at its word: the label is true wherever it is given.
EverySlotTrue == \A p \in DOMAIN result : Describes(result[p], truth[p][1])

----------------------------------------------------------------------------
(* The CallDetail row: gas, target, value, input offset and size, output   *)
(* offset and size, extra (salt or beneficiary).                           *)

CallDetail(op, args) ==
    LET padded(i) == Operand(args, i) IN
    IF op = "SELFDESTRUCT"
        THEN <<Other, Other, Other, Other, Other, Other, Other, padded(1)>>
    ELSE IF op \in {"CREATE", "CREATE2"}
        THEN <<Other, Other, padded(1), padded(2), padded(3), Other, Other,
               IF op = "CREATE2" THEN padded(4) ELSE Other>>
    ELSE [i \in 1..8 |-> padded(i)]

\* The same row filled in from the operands the EVM takes from its stack.
TrueDetail(op, s) ==
    IF op = "SELFDESTRUCT"
        THEN <<Other, Other, Other, Other, Other, Other, Other, s[1]>>
    ELSE IF op \in {"CREATE", "CREATE2"}
        THEN <<Other, Other, s[1], s[2], s[3], Other, Other,
               IF op = "CREATE2" THEN s[4] ELSE Other>>
    ELSE IF op \in {"DELEGATECALL", "STATICCALL"}
        THEN <<s[1], s[2], Other, s[3], s[4], s[5], s[6], Other>>
    ELSE s \o <<Other>>

\* docs/gigahorse-relations.md names the columns of CallDetail: each one the
\* lifter fills in describes the operand of that name.
CallColumnsTrue ==
    \A p \in DOMAIN calls : p <= lost =>
        \A c \in 1..8 : Describes(CallDetail(block[p].op, calls[p])[c],
                                  TrueDetail(block[p].op, truth[p])[c])
=============================================================================
