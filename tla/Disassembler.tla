---------------------------- MODULE Disassembler ----------------------------
(***************************************************************************)
(* disassemble of gigahorse/parser.py: one pass over the bytes of the code *)
(* that cuts them into instructions.  A PUSH takes the bytes after it as   *)
(* its operand; one that runs off the end of the code keeps the bytes      *)
(* there are and is marked truncated.                                      *)
(*                                                                         *)
(* The operand is kept as the bytes read; int.from_bytes is applied where  *)
(* the number is used (BigEndian).  Mnemonics are a function of the opcode *)
(* and are left out.                                                       *)
(***************************************************************************)
EXTENDS Integers, Sequences

CONSTANT Codes      \* the bytecodes to decode

Byte == 0..255

\* Empty bytecode is refused before it gets here (input/normalize.py).
ASSUME CodesAssumption == Codes \subseteq Seq(Byte) \ {<<>>}

\* Opcodes that matter to decoding and to control flow.
STOP == 0       EQ == 20        JUMP == 86      JUMPI == 87     JUMPDEST == 91
PUSH0 == 95     PUSH1 == 96     PUSH4 == 99     PUSH32 == 127
RETURN == 243   REVERT == 253   INVALID == 254  SELFDESTRUCT == 255

VARIABLES
    code,           \* the bytes
    pc,             \* the offset of the next instruction
    instructions    \* those decoded so far

decoding == <<code, pc, instructions>>

\* operand is a sequence of sequences: <<>> for none, <<raw>> for the bytes raw.
None == <<>>
Instructions == [pc : Nat, opcode : Byte, operand : Seq(Seq(Byte)), size : 0..32,
                 truncated : BOOLEAN]

At(offset) == code[offset + 1]
PushSizeSkipsLast(opcode) ==
    IF PUSH1 <= opcode /\ opcode < PUSH32 THEN opcode - PUSH0 ELSE 0
PushSize(opcode) == IF PUSH1 <= opcode /\ opcode <= PUSH32 THEN opcode - PUSH0 ELSE 0

\* code[pc + 1 : pc + 1 + size], as much of it as there is.
AvailableOrNothing(size) == IF pc + 1 + size <= Len(code) THEN size ELSE 0
Available(size) == IF pc + 1 + size <= Len(code) THEN size ELSE Len(code) - pc - 1

Emit(operand, size, truncated) ==
    /\ instructions' = Append(instructions,
          [pc |-> pc, opcode |-> At(pc), operand |-> operand, size |-> size,
           truncated |-> truncated])
    /\ pc' = pc + 1 + size
    /\ UNCHANGED code

DecodeInit == code \in Codes /\ pc = 0 /\ instructions = <<>>

DecodePush ==
    /\ pc < Len(code)
    /\ PushSize(At(pc)) > 0
    /\ LET size == PushSize(At(pc))
           read == Available(size)
           raw == SubSeq(code, pc + 2, pc + 1 + read)
       IN  Emit(IF read = size THEN <<raw>> ELSE None, read, read # size)

\* PUSH0 has the operand 0 and no bytes.
DecodePush0 == pc < Len(code) /\ At(pc) = PUSH0 /\ Emit(<< <<>> >>, 0, FALSE)

DecodePlain ==
    /\ pc < Len(code)
    /\ PushSize(At(pc)) = 0 /\ At(pc) # PUSH0
    /\ Emit(None, 0, FALSE)

Decode == DecodePush \/ DecodePush0 \/ DecodePlain

DecodeSpec == DecodeInit /\ [][Decode]_decoding

----------------------------------------------------------------------------
(* Properties *)

\* The variables have their types.
DecodeTypeOK ==
    /\ code \in Seq(Byte)
    /\ pc \in 0..Len(code)
    /\ instructions \in Seq(Instructions)

End(i) == instructions[i].pc + 1 + instructions[i].size

\* The instructions tile the code read so far: each starts where the one
\* before it ends, so no byte is read twice and none is skipped
\* (parser.py:102-121).
Tiles ==
    /\ instructions = <<>> => pc = 0
    /\ instructions # <<>> => instructions[1].pc = 0 /\ End(Len(instructions)) = pc
    /\ \A i \in 1..(Len(instructions) - 1) : End(i) = instructions[i + 1].pc

\* A truncated PUSH is the last instruction and swallows the rest of the code.
TruncatedEndsCode ==
    \A i \in 1..Len(instructions) :
        instructions[i].truncated => i = Len(instructions) /\ pc = Len(code)

\* How many bytes an instruction of the EVM has after its opcode (external:
\* the EVM).
Immediates(opcode) == IF opcode \in 96..127 THEN opcode - 95 ELSE 0

\* An instruction carries what the EVM would read there: the opcode, and of a
\* PUSH that is not cut off every byte it pushes, in order.
Carries(read) ==
    /\ read.opcode = At(read.pc)
    /\ read.operand = None <=> read.truncated \/ read.opcode \notin PUSH0..PUSH32
    /\ read.operand # None =>
          /\ Len(read.operand[1]) = Immediates(read.opcode)
          /\ \A k \in 1..Immediates(read.opcode) : read.operand[1][k] = At(read.pc + k)

OperandsExact == \A i \in 1..Len(instructions) : Carries(instructions[i])

\* Every byte is decoded once, to the end of the code and no further, and
\* none is altered.
TilesExactly == Tiles /\ TruncatedEndsCode /\ OperandsExact

\* Where instructions start by the EVM's own rule.
IsStart[p \in 0..(Len(code) - 1)] ==
    p = 0 \/ \E q \in 0..(p - 1) : p = q + 1 + Immediates(At(q)) /\ IsStart[q]

ValidJumpdest(p) ==
    /\ p \in 0..(Len(code) - 1)
    /\ At(p) = JUMPDEST
    /\ IsStart[p]

\* The JUMPDESTs the lifter sees are the destinations the EVM accepts: it
\* takes no byte of a PUSH operand for one, and misses none.
JumpdestsExact ==
    pc = Len(code) =>
        {instructions[i].pc : i \in {j \in 1..Len(instructions) :
                                        instructions[j].opcode = JUMPDEST}}
            = {p \in 0..(Len(code) - 1) : ValidJumpdest(p)}
=============================================================================
