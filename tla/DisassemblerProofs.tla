------------------------- MODULE DisassemblerProofs -------------------------
(***************************************************************************)
(* Proofs about Disassembler: for any set of bytecodes the instructions    *)
(* decoded so far tile the code read so far, a truncated PUSH is the last  *)
(* one, and the JUMPDESTs are those of the EVM.  Types are part of the     *)
(* invariant: that pc never passes the end of the code is what Available   *)
(* is for.                                                                 *)
(***************************************************************************)
EXTENDS Disassembler, SequenceTheorems, WellFoundedInduction, TLAPS

\* An instruction is what the code has where it starts; they are in order.
Faithful ==
    \A i \in 1..Len(instructions) :
        /\ instructions[i].pc < Len(code) /\ End(i) <= pc
        /\ instructions[i].opcode = At(instructions[i].pc)
        /\ ~instructions[i].truncated => instructions[i].size = Immediates(instructions[i].opcode)
        /\ instructions[i].operand # None => instructions[i].opcode \in PUSH0..PUSH32
        /\ \A j \in 1..Len(instructions) : i < j => instructions[i].pc < instructions[j].pc

\* Up to pc the instructions are where the EVM has them, and it has one at pc.
StartsFound ==
    /\ \A p \in 0..(Len(code) - 1) :
          p < pc => (IsStart[p] <=> \E i \in 1..Len(instructions) : instructions[i].pc = p)
    /\ pc < Len(code) => IsStart[pc]

DecodeInv ==
    /\ DecodeTypeOK /\ Tiles /\ TruncatedEndsCode /\ OperandsExact
    /\ Faithful /\ StartsFound

-----------------------------------------------------------------------------
(* Where instructions start.                                               *)

LEMMA LeastOf ==
  ASSUME NEW S, S \subseteq Nat, S # {}
  PROVE  \E x \in S : \A y \in S : x <= y
<1> DEFINE R == {p \in Nat \X Nat : p[1] < p[2]}
<1>1. IsWellFoundedOn(R, Nat)
  <2>1. OpToRel(<, Nat) = R
    BY DEF OpToRel
  <2> QED
    BY <2>1, NatLessThanWellFounded, Zenon
<1>2. PICK x \in S : \A y \in S : <<y, x>> \notin R
  <2> HIDE DEF R
  <2> QED
    BY <1>1, WFMin
<1>3. \A y \in S : x <= y
  <2> TAKE y \in S
  <2>1. ~(y < x)
    BY <1>2 DEF R
  <2> QED
    BY <2>1
<1> QED
  BY <1>3

\* IsStart is defined by recursion; the least set that holds 0 and what follows
\* its members is a function of that kind.
LEMMA StartRule ==
  \A p \in 0..(Len(code) - 1) :
      IsStart[p] <=> \/ p = 0
                     \/ \E q \in 0..(p - 1) : p = q + 1 + Immediates(At(q)) /\ IsStart[q]
<1> DEFINE D == 0..(Len(code) - 1)
           Follows(q, p) == q \in 0..(p - 1) /\ p = q + 1 + Immediates(At(q))
           Holds(S) == 0 \in S /\ \A q \in S, p \in D : Follows(q, p) => p \in S
           L == {p \in D : \A S \in SUBSET (D \cup {0}) : Holds(S) => p \in S}
           F == [p \in D |-> p \in L]
           Rule(f, p) == p = 0 \/ \E q \in 0..(p - 1) : p = q + 1 + Immediates(At(q)) /\ f[q]
<1>1. \A p \in D : \A q \in 0..(p - 1) : q \in D
  OBVIOUS
<1>2. ASSUME NEW p \in D, p = 0 \/ \E q \in L : Follows(q, p) PROVE p \in L
  BY <1>2
<1>3. ASSUME NEW p \in L PROVE p = 0 \/ \E q \in L : Follows(q, p)
  <2> DEFINE T == {0} \cup {r \in D : \E q \in L : Follows(q, r)}
  <2>1. T \in SUBSET (D \cup {0})
    OBVIOUS
  <2>2. \A q \in T : q \in D => q \in L
    BY <1>2
  <2>3. ASSUME NEW q \in T, NEW r \in D, Follows(q, r) PROVE r \in T
    <3>1. q \in D
      BY <1>1, <2>3
    <3> QED
      BY <2>2, <2>3, <3>1
  <2>4. Holds(T)
    BY <2>3
  <2>5. p \in T
    BY <2>1, <2>4
  <2> QED
    BY <2>5
<1>4. ASSUME NEW p \in D PROVE F[p] = Rule(F, p)
  <2>1. F[p] <=> p \in L
    OBVIOUS
  <2>2. ASSUME NEW q \in 0..(p - 1) PROVE F[q] <=> q \in L
    BY <1>1
  <2> HIDE DEF F, L
  <2>3. Rule(F, p) <=> p = 0 \/ \E q \in 0..(p - 1) : p = q + 1 + Immediates(At(q)) /\ q \in L
    BY <2>2
  <2>4. p \in L <=> p = 0 \/ \E q \in L : Follows(q, p)
    BY <1>2, <1>3
  <2>5. (\E q \in L : Follows(q, p))
          <=> \E q \in 0..(p - 1) : p = q + 1 + Immediates(At(q)) /\ q \in L
    OBVIOUS
  <2>6. F[p] \in BOOLEAN
    BY DEF F
  <2> QED
    BY <2>1, <2>3, <2>4, <2>5, <2>6
<1>5. F = [p \in D |-> Rule(F, p)]
  <2> DEFINE G == [p \in D |-> Rule(F, p)]
  <2>1. DOMAIN F = D /\ F = [p \in D |-> F[p]]
    OBVIOUS
  <2> HIDE DEF F, Rule
  <2> QED
    BY <1>4, <2>1
<1>6. IsStart = [p \in D |-> Rule(IsStart, p)]
  <2> HIDE DEF F
  <2> QED
    BY <1>5 DEF IsStart
<1> QED
  BY <1>6

-----------------------------------------------------------------------------
(* The invariant.                                                          *)

LEMMA DecodeInitInv == DecodeInit => DecodeInv
<1> SUFFICES ASSUME DecodeInit PROVE DecodeInv
  OBVIOUS
<1>1. code \in Seq(Byte) /\ Len(code) \in Nat
  BY CodesAssumption DEF DecodeInit
<1>2. pc \in 0..Len(code) /\ instructions = <<>>
  BY <1>1 DEF DecodeInit
<1>3. DecodeTypeOK /\ Tiles /\ TruncatedEndsCode /\ OperandsExact /\ Faithful
  BY <1>1, <1>2 DEF DecodeTypeOK, Tiles, TruncatedEndsCode, OperandsExact, Faithful, DecodeInit
<1>4. pc = 0 /\ Len(instructions) = 0
  BY <1>2 DEF DecodeInit
<1>5. pc < Len(code) => IsStart[pc]
  BY <1>1, <1>4, StartRule
<1>6. StartsFound
  BY <1>1, <1>4, <1>5 DEF StartsFound
<1> QED
  BY <1>3, <1>6 DEF DecodeInv

\* An opcode is a byte, and a PUSH has 1 to 32 bytes.
LEMMA OpcodeType ==
  ASSUME DecodeTypeOK, pc < Len(code)
  PROVE  /\ pc \in Nat /\ Len(code) \in Nat
         /\ At(pc) \in Byte
         /\ PushSize(At(pc)) \in 0..32
<1>1. pc \in Nat /\ Len(code) \in Nat /\ code \in Seq(Byte)
  BY DEF DecodeTypeOK
<1>2. At(pc) \in Byte
  BY <1>1 DEF At
<1>3. \A opcode \in Byte : PushSize(opcode) \in 0..32
  BY DEF PushSize, PUSH0, PUSH1, PUSH32, Byte
<1> QED
  BY <1>1, <1>2, <1>3

\* A slice of the code is a sequence of bytes.
LEMMA BytesOf ==
  ASSUME code \in Seq(Byte), NEW a \in Nat, NEW n \in Nat, a + n <= Len(code)
  PROVE  SubSeq(code, a + 1, a + n) \in Seq(Byte)
<1>1. \A i \in (a + 1)..(a + n) : code[i] \in Byte
  BY ElementOfSeq
<1> QED
  BY <1>1, SubSeqProperties

\* Between the start of an instruction and its end there is no other start.
LEMMA NoStartInside ==
  ASSUME DecodeInv, pc < Len(code), NEW size \in Nat, size <= Immediates(At(pc)),
         pc + 1 + size <= Len(code), NEW p \in Nat, pc < p, p < pc + 1 + size, IsStart[p]
  PROVE  FALSE
<1>1. /\ pc \in Nat /\ Len(code) \in Nat /\ Len(instructions) \in Nat
      /\ instructions \in Seq(Instructions)
  BY DEF DecodeInv, DecodeTypeOK
<1> DEFINE Bad == {q \in Nat : pc < q /\ q < pc + 1 + size /\ IsStart[q]}
<1>2. Bad \subseteq Nat /\ Bad # {}
  OBVIOUS
<1>3. PICK r \in Bad : \A q \in Bad : r <= q
  BY <1>2, LeastOf
<1>4. r \in Nat /\ pc < r /\ r < pc + 1 + size /\ IsStart[r]
  OBVIOUS
<1>5. r \in 0..(Len(code) - 1) /\ r # 0
  BY <1>1, <1>4
<1>6. PICK q \in 0..(r - 1) : r = q + 1 + Immediates(At(q)) /\ IsStart[q]
  BY <1>4, <1>5, StartRule
<1>7. CASE q < pc
  <2>1. q \in 0..(Len(code) - 1)
    BY <1>1, <1>7
  <2>2. PICK i \in 1..Len(instructions) : instructions[i].pc = q
    BY <1>6, <1>7, <2>1 DEF DecodeInv, StartsFound
  <2>3. ~instructions[i].truncated
    BY <1>1 DEF DecodeInv, TruncatedEndsCode
  <2>4. End(i) <= pc /\ instructions[i].size = Immediates(At(q))
    BY <2>2, <2>3 DEF DecodeInv, Faithful
  <2>5. End(i) = r
    BY <1>6, <2>2, <2>4 DEF End
  <2> QED
    BY <1>1, <1>4, <2>4, <2>5
<1>8. CASE q = pc
  <2>1. r = pc + 1 + Immediates(At(pc))
    BY <1>6, <1>8
  <2>2. Immediates(At(pc)) \in Nat
    <3>1. At(pc) \in Byte
      BY OpcodeType DEF DecodeInv
    <3>2. \A opcode \in Byte : Immediates(opcode) \in Nat
      BY DEF Immediates, Byte
    <3> QED
      BY <3>1, <3>2
  <2> QED
    BY <1>1, <1>4, <2>1, <2>2
<1>9. CASE q > pc
  <2>1. q \in Nat /\ q < r
    BY <1>4, <1>6
  <2>2. q \in Bad
    BY <1>1, <1>4, <1>6, <1>9, <2>1
  <2> QED
    BY <1>3, <1>4, <2>1, <2>2
<1> QED
  BY <1>1, <1>4, <1>6, <1>7, <1>8, <1>9

\* One more instruction of the right size keeps the tiling, and the next one
\* starts where the EVM's does.
LEMMA EmitInv ==
  ASSUME DecodeInv, pc < Len(code),
         NEW operand \in Seq(Seq(Byte)), NEW size \in 0..32, NEW truncated \in BOOLEAN,
         pc + 1 + size <= Len(code),
         truncated => pc + 1 + size = Len(code),
         size <= Immediates(At(pc)),
         ~truncated => size = Immediates(At(pc)),
         operand = None <=> truncated \/ At(pc) \notin PUSH0..PUSH32,
         operand # None =>
            /\ Len(operand[1]) = Immediates(At(pc))
            /\ \A k \in 1..Immediates(At(pc)) : operand[1][k] = At(pc + k),
         Emit(operand, size, truncated)
  PROVE  DecodeInv'
<1> DEFINE new == [pc |-> pc, opcode |-> At(pc), operand |-> operand, size |-> size,
                   truncated |-> truncated]
<1>1. /\ DecodeTypeOK /\ Tiles /\ TruncatedEndsCode /\ OperandsExact
      /\ Faithful /\ StartsFound
  BY DEF DecodeInv
<1>2. /\ pc \in Nat /\ Len(code) \in Nat /\ code \in Seq(Byte)
      /\ instructions \in Seq(Instructions) /\ Len(instructions) \in Nat
  BY <1>1 DEF DecodeTypeOK
<1>3. new \in Instructions
  BY <1>1, <1>2, OpcodeType DEF Instructions
<1>4. instructions' = Append(instructions, new) /\ pc' = pc + 1 + size /\ code' = code
  BY DEF Emit
<1> HIDE DEF new
<1>5. /\ instructions' \in Seq(Instructions)
      /\ Len(instructions') = Len(instructions) + 1
      /\ instructions'[Len(instructions) + 1] = new
      /\ \A i \in 1..Len(instructions) : instructions'[i] = instructions[i]
  BY <1>2, <1>3, <1>4
<1>6. DecodeTypeOK'
  BY <1>2, <1>4, <1>5 DEF DecodeTypeOK
<1>7. new.pc = pc /\ new.size = size /\ new.truncated = truncated
  BY DEF new
<1>8. instructions' # <<>>
  BY <1>2, <1>5
<1>9. Tiles'
  <2>1. instructions'[1].pc = 0
    <3>1. CASE Len(instructions) = 0
      BY <1>1, <1>2, <1>5, <1>7, <3>1 DEF Tiles
    <3>2. CASE Len(instructions) # 0
      <4>1. instructions # <<>> /\ 1 \in 1..Len(instructions)
        BY <1>2, <3>2
      <4> QED
        BY <1>1, <1>5, <4>1 DEF Tiles
    <3> QED
      BY <3>1, <3>2
  <2>2. instructions'[Len(instructions')].pc + 1 + instructions'[Len(instructions')].size = pc'
    BY <1>2, <1>4, <1>5, <1>7
  <2>3. ASSUME NEW i \in 1..(Len(instructions') - 1)
        PROVE  instructions'[i].pc + 1 + instructions'[i].size = instructions'[i + 1].pc
    <3>1. i \in 1..Len(instructions) /\ instructions'[i] = instructions[i]
      BY <1>2, <1>5
    <3>2. CASE i = Len(instructions)
      <4>1. End(i) = pc
        BY <1>1, <1>2, <3>1, <3>2 DEF Tiles
      <4> QED
        BY <1>2, <1>5, <1>7, <3>1, <3>2, <4>1 DEF End
    <3>3. CASE i # Len(instructions)
      <4>1. i \in 1..(Len(instructions) - 1) /\ i + 1 \in 1..Len(instructions)
        BY <1>2, <3>1, <3>3
      <4>2. End(i) = instructions[i + 1].pc
        BY <1>1, <4>1 DEF Tiles
      <4> QED
        BY <1>5, <3>1, <4>1, <4>2 DEF End
    <3> QED
      BY <3>2, <3>3
  <2> QED
    BY <1>8, <2>1, <2>2, <2>3 DEF Tiles, End
<1>10. TruncatedEndsCode'
  <2>1. ASSUME NEW i \in 1..Len(instructions'), instructions'[i].truncated
        PROVE  i = Len(instructions') /\ pc' = Len(code')
    <3>1. CASE i = Len(instructions) + 1
      BY <1>2, <1>4, <1>5, <1>7, <2>1, <3>1
    <3>2. CASE i \in 1..Len(instructions)
      BY <1>1, <1>2, <1>5, <2>1, <3>2 DEF TruncatedEndsCode
    <3> QED
      BY <1>2, <1>5, <3>1, <3>2
  <2> QED
    BY <2>1 DEF TruncatedEndsCode
<1>11. new.opcode = At(pc) /\ new.operand = operand
  BY DEF new
<1>12. /\ pc' \in Nat /\ pc < pc' /\ Len(instructions') \in Nat
       /\ \A i \in 1..Len(instructions) : instructions[i].pc \in Nat /\ instructions[i].size \in Nat
  <2>1. \A i \in 1..Len(instructions) : instructions[i] \in Instructions
    BY <1>2, ElementOfSeq
  <2>2. ASSUME NEW i \in 1..Len(instructions)
        PROVE  instructions[i].pc \in Nat /\ instructions[i].size \in Nat
    <3>1. instructions[i].pc \in Nat /\ instructions[i].size \in 0..32
      BY <2>1 DEF Instructions
    <3>2. \A n \in 0..32 : n \in Nat
      OBVIOUS
    <3> QED
      BY <3>1, <3>2
  <2>3. pc' \in Nat /\ pc < pc' /\ Len(instructions') \in Nat
    BY <1>2, <1>4, <1>5
  <2> QED
    BY <2>2, <2>3
<1>13. \A i \in 1..Len(instructions) : End(i) <= pc /\ instructions[i].pc < pc
  <2>1. ASSUME NEW i \in 1..Len(instructions)
        PROVE  End(i) <= pc /\ instructions[i].pc < pc
    <3>1. End(i) <= pc
      BY <1>1 DEF Faithful
    <3>2. PICK m \in Nat, n \in Nat : m = instructions[i].pc /\ n = instructions[i].size
      BY <1>12
    <3>3. m + 1 + n <= pc
      BY <3>1, <3>2 DEF End
    <3>4. m < pc
      BY <1>2, <3>3
    <3> QED
      BY <3>1, <3>2, <3>4
  <2> QED
    BY <2>1
<1>14. \A i \in 1..Len(instructions') : i \in 1..Len(instructions) \/ i = Len(instructions) + 1
  BY <1>2, <1>5
<1>15. Faithful'
  <2> SUFFICES ASSUME NEW i \in 1..Len(instructions')
               PROVE  /\ instructions'[i].pc < Len(code') /\ End(i)' <= pc'
                      /\ instructions'[i].opcode = code'[instructions'[i].pc + 1]
                      /\ ~instructions'[i].truncated =>
                            instructions'[i].size = Immediates(instructions'[i].opcode)
                      /\ instructions'[i].operand # None => instructions'[i].opcode \in PUSH0..PUSH32
                      /\ \A j \in 1..Len(instructions') :
                            i < j => instructions'[i].pc < instructions'[j].pc
    BY DEF Faithful, Immediates, At
  <2>1. CASE i \in 1..Len(instructions)
    <3>1. instructions'[i] = instructions[i]
      BY <1>5, <2>1
    <3>2. End(i) <= pc
      BY <1>13, <2>1
    <3>3. End(i)' <= pc'
      <4>1. End(i)' = End(i)
        BY <3>1 DEF End
      <4>2. PICK m \in Nat, n \in Nat : m = instructions[i].pc /\ n = instructions[i].size
        BY <1>12, <2>1
      <4>3. End(i) = m + 1 + n
        BY <4>2 DEF End
      <4>4. m + 1 + n <= pc
        BY <3>2, <4>3
      <4>5. m + 1 + n <= pc'
        BY <1>2, <1>12, <4>4
      <4> QED
        BY <4>1, <4>3, <4>5
    <3>4. ASSUME NEW j \in 1..Len(instructions'), i < j
          PROVE  instructions'[i].pc < instructions'[j].pc
      <4>1. CASE j \in 1..Len(instructions)
        BY <1>1, <1>5, <2>1, <3>1, <3>4, <4>1 DEF Faithful
      <4>2. CASE j = Len(instructions) + 1
        BY <1>5, <1>7, <1>13, <2>1, <3>1, <4>2
      <4> QED
        BY <1>14, <4>1, <4>2
    <3>5. instructions[i].opcode = code'[instructions'[i].pc + 1]
      BY <1>1, <1>4, <2>1, <3>1 DEF Faithful, At
    <3> QED
      BY <1>1, <1>4, <2>1, <3>1, <3>3, <3>4, <3>5 DEF Faithful
  <2>2. CASE i = Len(instructions) + 1
    <3>1. instructions'[i] = new
      BY <1>5, <2>2
    <3>2. End(i)' = pc'
      BY <1>4, <1>7, <3>1 DEF End
    <3>3. At(pc) = code'[instructions'[i].pc + 1]
      BY <1>4, <1>7, <3>1 DEF At
    <3>4. \A j \in 1..Len(instructions') : ~(i < j)
      BY <1>2, <1>5, <2>2
    <3>5. instructions'[i].pc < Len(code') /\ End(i)' <= pc'
      BY <1>4, <1>7, <1>12, <3>1, <3>2
    <3>6. /\ ~instructions'[i].truncated => instructions'[i].size = Immediates(instructions'[i].opcode)
          /\ instructions'[i].operand # None => instructions'[i].opcode \in PUSH0..PUSH32
      BY <1>7, <1>11, <3>1
    <3>7. instructions'[i].opcode = code'[instructions'[i].pc + 1]
      BY <1>11, <3>1, <3>3
    <3> QED
      BY <3>4, <3>5, <3>6, <3>7
  <2> QED
    BY <1>14, <2>1, <2>2
<1>16. IsStart' = IsStart
  BY <1>4 DEF IsStart, At
<1>17. StartsFound'
  <2>1. ASSUME NEW p \in 0..(Len(code) - 1), p < pc'
        PROVE  IsStart[p] <=> \E i \in 1..Len(instructions') : instructions'[i].pc = p
    <3>1. CASE p < pc
      <4>1. (\E i \in 1..Len(instructions') : instructions'[i].pc = p)
               <=> \E i \in 1..Len(instructions) : instructions[i].pc = p
        <5>1. instructions'[Len(instructions) + 1].pc # p
          BY <1>2, <1>5, <1>7, <3>1
        <5>2. 1..Len(instructions) \subseteq 1..Len(instructions')
          BY <1>2, <1>5
        <5> QED
          BY <1>5, <1>14, <5>1, <5>2
      <4> QED
        BY <1>1, <3>1, <4>1 DEF StartsFound
    <3>2. CASE p = pc
      <4>1. IsStart[p]
        BY <1>1, <3>2 DEF StartsFound
      <4>2. Len(instructions) + 1 \in 1..Len(instructions')
        BY <1>2, <1>5
      <4> QED
        BY <1>5, <1>7, <3>2, <4>1, <4>2
    <3>3. CASE p > pc
      <4>1. ~IsStart[p]
        BY <1>2, <1>4, <2>1, <3>3, NoStartInside
      <4>2. \A i \in 1..Len(instructions') : instructions'[i].pc # p
        <5>1. \A i \in 1..Len(instructions) : instructions'[i].pc # p
          <6> SUFFICES ASSUME NEW i \in 1..Len(instructions) PROVE instructions'[i].pc # p
            OBVIOUS
          <6>1. instructions'[i] = instructions[i] /\ instructions[i].pc \in Nat /\ instructions[i].pc < pc
            BY <1>5, <1>12, <1>13
          <6> QED
            BY <1>2, <3>3, <6>1
        <5>2. instructions'[Len(instructions) + 1].pc # p
          BY <1>2, <1>5, <1>7, <3>3
        <5> QED
          BY <1>14, <5>1, <5>2
      <4> QED
        BY <4>1, <4>2
    <3> QED
      BY <1>2, <3>1, <3>2, <3>3
  <2>2. ASSUME pc' < Len(code) PROVE IsStart[pc']
    <3>1. size = Immediates(At(pc)) /\ pc' = pc + 1 + size
      BY <1>2, <1>4, <2>2
    <3>2. IsStart[pc]
      BY <1>1 DEF StartsFound
    <3>3. pc' \in 0..(Len(code) - 1) /\ pc \in 0..(pc' - 1)
      <4>1. PICK n \in Nat : n = pc' /\ pc < n /\ n < Len(code)
        BY <1>12, <2>2
      <4>2. n \in 0..(Len(code) - 1) /\ pc \in 0..(n - 1)
        <5>1. PICK m \in Nat, k \in Nat : m = Len(code) /\ k = pc
          BY <1>2
        <5>2. k < n /\ n < m
          BY <4>1, <5>1
        <5>3. n \in 0..(m - 1) /\ k \in 0..(n - 1)
          BY <5>2
        <5> QED
          BY <5>1, <5>3
      <4> QED
        BY <4>1, <4>2
    <3> QED
      BY <3>1, <3>2, <3>3, StartRule
  <2> QED
    BY <1>4, <1>16, <2>1, <2>2 DEF StartsFound
<1>18. OperandsExact'
  <2>1. \A read : Carries(read)' <=> Carries(read)
    BY <1>4 DEF Carries, At
  <2>2. Carries(new)
    BY <1>7, <1>11 DEF Carries
  <2>3. \A i \in 1..Len(instructions') : Carries(instructions'[i])
    BY <1>1, <1>5, <1>14, <2>2 DEF OperandsExact
  <2> QED
    BY <1>4, <2>3 DEF OperandsExact, Carries, At
<1> QED
  BY <1>6, <1>9, <1>10, <1>15, <1>17, <1>18 DEF DecodeInv

LEMMA DecodeStepInv == DecodeInv /\ [Decode]_decoding => DecodeInv'
<1> SUFFICES ASSUME DecodeInv, [Decode]_decoding PROVE DecodeInv'
  OBVIOUS
<1>1. CASE DecodePush
  <2> DEFINE size == PushSize(At(pc))  read == Available(size)
             raw == SubSeq(code, pc + 2, pc + 1 + read)
  <2>1. /\ pc \in Nat /\ Len(code) \in Nat /\ code \in Seq(Byte)
        /\ pc < Len(code) /\ size \in 1..32
    BY <1>1, OpcodeType DEF DecodePush, DecodeInv, DecodeTypeOK
  <2>2. Emit(IF read = size THEN <<raw>> ELSE None, read, read # size)
    BY <1>1 DEF DecodePush
  <2>3. read = IF pc + 1 + size <= Len(code) THEN size ELSE Len(code) - pc - 1
    BY DEF Available
  <2> HIDE DEF size, read
  <2>4. /\ read \in 0..32
        /\ pc + 1 + read <= Len(code)
        /\ read # size => pc + 1 + read = Len(code)
    <3>1. CASE pc + 1 + size <= Len(code)
      BY <2>1, <2>3, <3>1
    <3>2. CASE ~(pc + 1 + size <= Len(code))
      BY <2>1, <2>3, <3>2
    <3> QED
      BY <3>1, <3>2
  <2>5. raw \in Seq(Byte)
    <3>1. pc + 1 \in Nat /\ read \in Nat /\ (pc + 1) + read <= Len(code)
      BY <2>1, <2>4
    <3>2. SubSeq(code, (pc + 1) + 1, (pc + 1) + read) \in Seq(Byte)
      BY <2>1, <3>1, BytesOf
    <3>3. (pc + 1) + 1 = pc + 2 /\ (pc + 1) + read = pc + 1 + read
      BY <2>1
    <3> QED
      BY <3>2, <3>3
  <2> HIDE DEF raw
  <2>6. (IF read = size THEN <<raw>> ELSE None) \in Seq(Seq(Byte))
    BY <2>5 DEF None
  <2>7. /\ size = Immediates(At(pc)) /\ At(pc) \in PUSH0..PUSH32
    <3>1. At(pc) \in Byte
      BY <2>1, OpcodeType DEF DecodeInv
    <3> QED
      BY <2>1, <3>1 DEF size, PushSize, Immediates, PUSH0, PUSH1, PUSH32, Byte
  <2>8. read <= size
    BY <2>1, <2>3
  <2> DEFINE operand == IF read = size THEN <<raw>> ELSE None
  <2>9. operand = None <=> read # size
    BY DEF None
  <2>10. ASSUME operand # None
         PROVE  /\ Len(operand[1]) = Immediates(At(pc))
                /\ \A k \in 1..Immediates(At(pc)) : operand[1][k] = At(pc + k)
    <3>1. read = size /\ operand[1] = raw /\ size = Immediates(At(pc))
      BY <2>7, <2>9, <2>10
    <3>2. \A i \in (pc + 2)..(pc + 1 + read) : code[i] \in Byte
      BY <2>1, <2>4, ElementOfSeq
    <3>3. /\ Len(raw) = IF pc + 2 <= pc + 1 + read THEN (pc + 1 + read) - (pc + 2) + 1 ELSE 0
          /\ \A k \in 1..((pc + 1 + read) - (pc + 2) + 1) : raw[k] = code[(pc + 2) + k - 1]
      BY <2>1, <2>4, <3>2, SubSeqProperties DEF raw
    <3>4. /\ (pc + 1 + read) - (pc + 2) + 1 = size /\ pc + 2 <= pc + 1 + read
          /\ \A k \in 1..size : (pc + 2) + k - 1 = (pc + k) + 1
      <4>1. PICK p \in Nat, n \in 1..32 : p = pc /\ n = size
        BY <2>1
      <4>2. /\ (p + 1 + n) - (p + 2) + 1 = n /\ p + 2 <= p + 1 + n
            /\ \A k \in 1..n : (p + 2) + k - 1 = (p + k) + 1
        OBVIOUS
      <4> QED
        BY <3>1, <4>1, <4>2
    <3> QED
      BY <3>1, <3>3, <3>4 DEF At
  <2> HIDE DEF operand
  <2> QED
    BY <2>1, <2>2, <2>4, <2>6, <2>7, <2>8, <2>9, <2>10, EmitInv DEF operand
<1>2. CASE DecodePush0
  <2>1. pc \in Nat /\ Len(code) \in Nat /\ pc < Len(code)
    BY <1>2, OpcodeType DEF DecodePush0, DecodeInv
  <2>2. << <<>> >> \in Seq(Seq(Byte)) /\ pc + 1 + 0 <= Len(code)
    BY <2>1
  <2> DEFINE operand == << <<>> >>  size == 0  truncated == FALSE
  <2>3. Emit(operand, size, truncated)
    BY <1>2 DEF DecodePush0
  <2>4. /\ operand \in Seq(Seq(Byte)) /\ size \in 0..32 /\ truncated \in BOOLEAN
        /\ pc + 1 + size <= Len(code) /\ ~truncated
    BY <2>1, <2>2
  <2>5. size = Immediates(At(pc)) /\ size <= Immediates(At(pc)) /\ At(pc) \in PUSH0..PUSH32
    BY <1>2 DEF DecodePush0, Immediates, PUSH0, PUSH32
  <2>6. operand # None /\ Len(operand[1]) = size /\ 1..size = {}
    BY DEF None
  <2> HIDE DEF operand, size, truncated
  <2> QED
    BY <2>1, <2>3, <2>4, <2>5, <2>6, EmitInv
<1>3. CASE DecodePlain
  <2>1. pc \in Nat /\ Len(code) \in Nat /\ pc < Len(code)
    BY <1>3, OpcodeType DEF DecodePlain, DecodeInv
  <2>2. None \in Seq(Seq(Byte)) /\ pc + 1 + 0 <= Len(code)
    BY <2>1 DEF None
  <2> DEFINE operand == None  size == 0  truncated == FALSE
  <2>3. Emit(operand, size, truncated)
    BY <1>3 DEF DecodePlain
  <2>4. /\ operand \in Seq(Seq(Byte)) /\ size \in 0..32 /\ truncated \in BOOLEAN
        /\ pc + 1 + size <= Len(code) /\ ~truncated
    BY <2>1, <2>2
  <2>5. /\ size = Immediates(At(pc)) /\ size <= Immediates(At(pc))
        /\ operand = None /\ At(pc) \notin PUSH0..PUSH32
    <3>1. At(pc) \in Byte /\ PushSize(At(pc)) = 0
      BY <1>3, OpcodeType DEF DecodePlain, DecodeInv
    <3>2. At(pc) # PUSH0
      BY <1>3 DEF DecodePlain
    <3> QED
      BY <3>1, <3>2 DEF PushSize, Immediates, PUSH0, PUSH1, PUSH32, Byte
  <2> HIDE DEF operand, size, truncated
  <2> QED
    BY <2>1, <2>3, <2>4, <2>5, EmitInv
<1>4. CASE UNCHANGED decoding
  <2>1. code' = code /\ pc' = pc /\ instructions' = instructions
    BY <1>4 DEF decoding
  <2>2. IsStart' = IsStart
    BY <2>1 DEF IsStart, At
  <2> QED
    BY <2>1, <2>2 DEF DecodeInv, DecodeTypeOK, Tiles, TruncatedEndsCode, OperandsExact, Carries,
                      Faithful, StartsFound, End, At, Immediates
<1> QED
  BY <1>1, <1>2, <1>3, <1>4 DEF Decode

\* The instructions decoded tile the code read, and a PUSH that runs off the
\* end of the code is the last of them (parser.py:100-121).
THEOREM DecodingIsSound == DecodeSpec => []TilesExactly
<1>1. DecodeInv => TilesExactly
  BY DEF DecodeInv, TilesExactly
<1> QED
  BY <1>1, DecodeInitInv, DecodeStepInv, PTL DEF DecodeSpec

\* Once the code is decoded, its JUMPDESTs are those of the EVM.
LEMMA JumpdestsFound ==
  ASSUME DecodeInv
  PROVE  JumpdestsExact
<1> SUFFICES ASSUME pc = Len(code)
             PROVE  {instructions[i].pc : i \in {j \in 1..Len(instructions) :
                                                    instructions[j].opcode = JUMPDEST}}
                        = {p \in 0..(Len(code) - 1) : ValidJumpdest(p)}
  BY DEF JumpdestsExact
<1>1. Len(code) \in Nat /\ \A i \in 1..Len(instructions) : instructions[i].pc \in Nat
  <2>1. \A i \in 1..Len(instructions) : instructions[i] \in Instructions
    BY ElementOfSeq DEF DecodeInv, DecodeTypeOK
  <2> QED
    BY <2>1 DEF DecodeInv, DecodeTypeOK, Instructions
<1>2. ASSUME NEW i \in 1..Len(instructions), instructions[i].opcode = JUMPDEST
      PROVE  instructions[i].pc \in 0..(Len(code) - 1) /\ ValidJumpdest(instructions[i].pc)
  <2> DEFINE p == instructions[i].pc
  <2>1. p \in 0..(Len(code) - 1) /\ p < pc /\ At(p) = JUMPDEST
    BY <1>1, <1>2 DEF DecodeInv, Faithful
  <2>2. IsStart[p]
    BY <2>1 DEF DecodeInv, StartsFound
  <2> QED
    BY <2>1, <2>2 DEF ValidJumpdest
<1>3. ASSUME NEW p \in 0..(Len(code) - 1), ValidJumpdest(p)
      PROVE  \E i \in 1..Len(instructions) :
                instructions[i].opcode = JUMPDEST /\ instructions[i].pc = p
  <2>1. p < pc /\ IsStart[p] /\ At(p) = JUMPDEST
    BY <1>1, <1>3 DEF ValidJumpdest
  <2>2. PICK i \in 1..Len(instructions) : instructions[i].pc = p
    BY <2>1 DEF DecodeInv, StartsFound
  <2> QED
    BY <2>1, <2>2 DEF DecodeInv, Faithful
<1> QED
  BY <1>2, <1>3
=============================================================================
