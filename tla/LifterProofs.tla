---------------------------- MODULE LifterProofs ----------------------------
(***************************************************************************)
(* Proofs about Lifter, for any set of blocks and any depth of the stack   *)
(* on entry.  The argument is a simulation: as long as the lifter has      *)
(* followed every instruction, each word on its stack and in its memory    *)
(* describes the real word in the same place.                              *)
(***************************************************************************)
EXTENDS Lifter, SequenceTheorems, TLAPS

Aligned(s, t) ==
    /\ Len(s) <= Len(t)
    /\ \A i \in 1..Len(s) : Describes(s[i], t[i])

Remembers(m, r) ==
    /\ DOMAIN m \subseteq DOMAIN r
    /\ \A x \in DOMAIN m : Describes(m[x], r[x])

InStep == lost >= at => Aligned(stack, evm) /\ Remembers(memory, ram)

Passed ==
    /\ DOMAIN result \subseteq 1..(at - 1)
    /\ DOMAIN values \subseteq 1..(at - 1)
    /\ DOMAIN calls \subseteq 1..(at - 1)
    /\ DOMAIN result \subseteq DOMAIN truth
    /\ DOMAIN values \subseteq DOMAIN truth

IInv == TypeOK /\ InStep /\ Passed /\ SlotsTrue /\ StoredValuesTrue

-----------------------------------------------------------------------------
(* Words.                                                                  *)

LEMMA LeafType ==
  /\ Other \in Leaf
  /\ Caller \in Leaf
  /\ \A n \in Nat : Constant(n) \in Leaf
  BY DEF Leaf, Other, Caller, Constant

LEMMA LeafIsValue == \A v \in Leaf : v \in Values
  BY DEF Values

LEMMA LeafKind ==
  \A v \in Leaf : v.kind # "mapping" /\ v.n \in Nat
  BY DEF Leaf

LEMMA MappingKind ==
  \A v \in Mapping : v.kind = "mapping" /\ v.n \in Nat /\ v.key \in Leaf
  BY DEF Mapping

LEMMA ValueKind ==
  ASSUME NEW v \in Values
  PROVE  /\ v.n \in Nat
         /\ v.kind = "mapping" => v \in Mapping
         /\ v.kind # "mapping" => v \in Leaf
  BY LeafKind, MappingKind DEF Values

LEMMA CalldataType ==
  ASSUME NEW v \in Values
  PROVE  Calldata(v) \in Values
<1>1. v.n \in Nat
  BY ValueKind
<1>2. [kind |-> "calldata", n |-> v.n] \in Leaf
  BY <1>1 DEF Leaf
<1>3. QED
  BY <1>2, LeafType, LeafIsValue DEF Calldata

LEMMA KeyTextType ==
  ASSUME NEW v \in Values
  PROVE  KeyText(v) \in Leaf
  BY LeafType DEF KeyText

LEMMA HashType ==
  ASSUME NEW k \in Values, NEW b \in Values
  PROVE  HashOf(k, b) \in Values
<1>1. [kind |-> "mapping", n |-> b.n, key |-> KeyText(k)] \in Mapping
  BY ValueKind, KeyTextType DEF Mapping
<1>2. QED
  BY <1>1, LeafType DEF HashOf, Values

LEMMA SlotLabelType ==
  ASSUME NEW v \in Values
  PROVE  SlotLabel(v) \in Values
  BY LeafType, LeafIsValue DEF SlotLabel

LEMMA OtherDescribes == ASSUME NEW w PROVE Describes(Other, w)
  BY DEF Describes, Other

LEMMA SelfDescribes ==
  ASSUME NEW v \in Values
  PROVE  Describes(v, v)
<1>1. CASE v.kind = "mapping"
  BY <1>1 DEF Describes
<1>2. CASE v.kind # "mapping"
  BY <1>2 DEF Describes
<1>3. QED
  BY <1>1, <1>2

(* A constant label is the word.                                           *)
LEMMA ConstantDescribes ==
  ASSUME NEW v, NEW w, Describes(v, w), v.kind = "constant"
  PROVE  v = w
  BY DEF Describes

LEMMA SlotLabelDescribes ==
  ASSUME NEW v, NEW w, Describes(v, w)
  PROVE  Describes(SlotLabel(v), w)
  BY OtherDescribes DEF SlotLabel

LEMMA CalldataDescribes ==
  ASSUME NEW v \in Values, NEW w \in Values, Describes(v, w)
  PROVE  Describes(Calldata(v), Calldata(w))
<1>1. CASE v.kind = "constant"
  <2>1. v = w
    BY <1>1, ConstantDescribes
  <2>2. QED
    BY <2>1, CalldataType, SelfDescribes
<1>2. CASE v.kind # "constant"
  BY <1>2, OtherDescribes DEF Calldata
<1>3. QED
  BY <1>1, <1>2

LEMMA HashDescribes ==
  ASSUME NEW k \in Values, NEW b \in Values, NEW k2 \in Values, NEW b2 \in Values,
         Describes(k, k2), Describes(b, b2), k.kind # "mapping"
  PROVE  Describes(HashOf(k, b), HashOf(k2, b2))
<1>1. CASE b.kind # "constant"
  BY <1>1, OtherDescribes DEF HashOf
<1>2. CASE b.kind = "constant"
  <2>1. b2 = b
    BY <1>2, ConstantDescribes
  <2>2. k \in Leaf /\ KeyText(k) = k
    BY ValueKind DEF KeyText
  <2>3. k.kind = "other" \/ KeyText(k) = KeyText(k2)
    BY <2>2 DEF Describes
  <2>4. HashOf(k, b) = [kind |-> "mapping", n |-> b.n, key |-> k]
    BY <1>2, <2>2 DEF HashOf
  <2>5. HashOf(k2, b2) = [kind |-> "mapping", n |-> b.n, key |-> KeyText(k2)]
    BY <1>2, <2>1 DEF HashOf
  <2>6. QED
    BY <2>2, <2>3, <2>4, <2>5 DEF Describes
<1>3. QED
  BY <1>1, <1>2

-----------------------------------------------------------------------------
(* Stacks and partial functions.                                           *)

LEMMA RestType ==
  ASSUME NEW s \in Seq(Values), NEW k \in Nat
  PROVE  /\ Rest(s, k) \in Seq(Values)
         /\ Len(Rest(s, k)) = IF k <= Len(s) THEN Len(s) - k ELSE 0
         /\ \A i \in 1..(Len(s) - k) : Rest(s, k)[i] = s[i + k]
<1>1. Len(s) \in Nat /\ k + 1 \in Int
  OBVIOUS
<1>2. \A i \in (k + 1)..Len(s) : s[i] \in Values
  BY ElementOfSeq
<1>3. /\ SubSeq(s, k + 1, Len(s)) \in Seq(Values)
      /\ Len(SubSeq(s, k + 1, Len(s))) =
            IF k + 1 <= Len(s) THEN Len(s) - (k + 1) + 1 ELSE 0
      /\ \A i \in 1..(Len(s) - (k + 1) + 1) :
            SubSeq(s, k + 1, Len(s))[i] = s[(k + 1) + i - 1]
  BY <1>1, <1>2, SubSeqProperties
<1>4. QED
  BY <1>1, <1>3 DEF Rest

LEMMA PushType ==
  ASSUME NEW v \in Values, NEW s \in Seq(Values)
  PROVE  /\ PushOn(v, s) \in Seq(Values)
         /\ Len(PushOn(v, s)) = Len(s) + 1
         /\ PushOn(v, s)[1] = v
         /\ \A i \in 2..(Len(s) + 1) : PushOn(v, s)[i] = s[i - 1]
<1>1. <<v>> \in Seq(Values) /\ Len(<<v>>) = 1 /\ <<v>>[1] = v
  OBVIOUS
<1>2. QED
  BY <1>1, ConcatProperties DEF PushOn

LEMMA OperandType ==
  ASSUME NEW s \in Seq(Values), NEW k \in Nat, k >= 1
  PROVE  Operand(s, k) \in Values
  BY ElementOfSeq, LeafType, LeafIsValue DEF Operand

LEMMA PutType ==
  ASSUME NEW R, NEW f, Partial(f, R), NEW k \in Nat, NEW v \in R
  PROVE  /\ Partial(Put(f, k, v), R)
         /\ DOMAIN Put(f, k, v) = DOMAIN f \cup {k}
         /\ Put(f, k, v)[k] = v
         /\ \A x \in DOMAIN f : x # k => Put(f, k, v)[x] = f[x]
  BY DEF Partial, Put

LEMMA EmptyType == ASSUME NEW R PROVE Partial(Empty, R) /\ DOMAIN Empty = {}
  BY DEF Partial, Empty

LEMMA OperandDescribes ==
  ASSUME NEW s \in Seq(Values), NEW t \in Seq(Values), Aligned(s, t),
         NEW k \in Nat, k >= 1
  PROVE  Describes(Operand(s, k), t[k])
  BY OtherDescribes DEF Aligned, Operand

LEMMA RestAligned ==
  ASSUME NEW s \in Seq(Values), NEW t \in Seq(Values), Aligned(s, t), NEW k \in Nat,
         k <= Len(t)
  PROVE  Aligned(Rest(s, k), Rest(t, k))
<1>1. Len(s) \in Nat /\ Len(t) \in Nat /\ Len(s) <= Len(t)
  BY DEF Aligned
<1>4. Len(Rest(s, k)) = IF k <= Len(s) THEN Len(s) - k ELSE 0
  BY RestType
<1>5. Len(Rest(t, k)) = IF k <= Len(t) THEN Len(t) - k ELSE 0
  BY RestType
<1>2. Len(Rest(s, k)) <= Len(Rest(t, k))
  BY <1>1, <1>4, <1>5
<1>3. ASSUME NEW i \in 1..Len(Rest(s, k))
      PROVE  Describes(Rest(s, k)[i], Rest(t, k)[i])
  <2>1. k <= Len(s) /\ i \in 1..(Len(s) - k) /\ i \in 1..(Len(t) - k)
    BY <1>1, <1>4
  <2>2. Rest(s, k)[i] = s[i + k] /\ Rest(t, k)[i] = t[i + k]
    BY <2>1, RestType
  <2>3. i + k \in 1..Len(s)
    BY <1>1, <2>1
  <2>4. QED
    BY <2>2, <2>3 DEF Aligned
<1>6. QED
  BY <1>2, <1>3 DEF Aligned

LEMMA PushAligned ==
  ASSUME NEW s \in Seq(Values), NEW t \in Seq(Values), Aligned(s, t),
         NEW v \in Values, NEW w \in Values, Describes(v, w)
  PROVE  Aligned(PushOn(v, s), PushOn(w, t))
<1>1. Len(s) \in Nat /\ Len(t) \in Nat /\ Len(s) <= Len(t)
  BY DEF Aligned
<1>2. ASSUME NEW i \in 1..(Len(s) + 1)
      PROVE  Describes(PushOn(v, s)[i], PushOn(w, t)[i])
  <2>1. CASE i = 1
    BY <2>1, PushType
  <2>2. CASE i # 1
    <3>1. i \in 2..(Len(s) + 1) /\ i \in 2..(Len(t) + 1) /\ i - 1 \in 1..Len(s)
      BY <1>1, <2>2
    <3>2. PushOn(v, s)[i] = s[i - 1] /\ PushOn(w, t)[i] = t[i - 1]
      BY <3>1, PushType
    <3>3. QED
      BY <3>1, <3>2 DEF Aligned
  <2>3. QED
    BY <2>1, <2>2
<1>3. Len(PushOn(v, s)) = Len(s) + 1 /\ Len(PushOn(w, t)) = Len(t) + 1
  BY PushType
<1>4. QED
  BY <1>1, <1>2, <1>3 DEF Aligned

(* Taking k words and pushing one keeps the stacks aligned.                *)
LEMMA SwapsAligned ==
  ASSUME NEW s \in Seq(Values), NEW t \in Seq(Values), Aligned(s, t), NEW k \in Nat,
         k <= Len(t), NEW v \in Values, NEW w \in Values, Describes(v, w)
  PROVE  Aligned(PushOn(v, Rest(s, k)), PushOn(w, Rest(t, k)))
  BY RestAligned, RestType, PushAligned

LEMMA ExchangeType ==
  ASSUME NEW s \in Seq(Values), NEW n \in 1..16, n < Len(s)
  PROVE  /\ Exchange(s, n) \in Seq(Values)
         /\ Len(Exchange(s, n)) = Len(s)
<1>1. Len(s) \in Nat
  OBVIOUS
<1>2. \A i \in 1..Len(s) : s[i] \in Values
  BY ElementOfSeq
<1>3. \A i \in 1..Len(s) : Exchange(s, n)[i] \in Values
  BY <1>1, <1>2 DEF Exchange
<1>4. QED
  BY <1>1, <1>3, IsASeq DEF Exchange

LEMMA ExchangeAligned ==
  ASSUME NEW s \in Seq(Values), NEW t \in Seq(Values), Aligned(s, t),
         NEW n \in 1..16, n < Len(s)
  PROVE  Aligned(Exchange(s, n), Exchange(t, n))
<1>1. Len(s) \in Nat /\ Len(t) \in Nat /\ Len(s) <= Len(t) /\ n < Len(t)
  BY DEF Aligned
<1>2. \A i \in 1..Len(s) : Describes(s[i], t[i])
  BY DEF Aligned
<1>3. \A i \in 1..Len(s) : Describes(Exchange(s, n)[i], Exchange(t, n)[i])
  BY <1>1, <1>2 DEF Exchange
<1>4. QED
  BY <1>1, <1>3, ExchangeType DEF Aligned

-----------------------------------------------------------------------------
(* Types and labels, one action at a time.                                 *)

LEMMA InitInv == Init => IInv
<1> SUFFICES ASSUME Init
             PROVE  IInv
  OBVIOUS
<1>1. block \in Seq(Instruction) /\ Len(block) \in Nat
  BY LifterAssumption DEF Init
<1>2. PICK d \in EntryDepths : evm = [i \in 1..d |-> Other]
  BY DEF Init
<1>3. evm \in Seq(Values) /\ Len(evm) \in Nat
  BY <1>2, LeafType, LeafIsValue, LifterAssumption
<1>4. stack \in Seq(Values) /\ Len(stack) = 0
  BY DEF Init
<1>5. TypeOK
  BY <1>1, <1>3, <1>4, EmptyType DEF Init, TypeOK
<1>6. InStep
  <2>1. DOMAIN memory = {}
    BY EmptyType DEF Init
  <2>2. Aligned(stack, evm) /\ Remembers(memory, ram)
    BY <1>3, <1>4, <2>1 DEF Aligned, Remembers
  <2>3. QED
    BY <2>2 DEF InStep
<1>7. Passed /\ SlotsTrue /\ StoredValuesTrue
  BY EmptyType DEF Init, Passed, SlotsTrue, StoredValuesTrue
<1>8. QED
  BY <1>5, <1>6, <1>7 DEF IInv

LEMMA InstrType ==
  ASSUME TypeOK, at <= Len(block)
  PROVE  /\ Instr.op = "PUSH" => Instr.n \in Nat
         /\ Instr.op \in {"DUP", "SWAP"} => Instr.n \in 1..16
         /\ Instr.op = "OTHER" => Instr.pops \in Nat /\ Instr.pushes \in Nat
<1>1. Instr \in Instruction
  BY ElementOfSeq DEF TypeOK, Instr
<1>2. QED
  BY <1>1 DEF Instruction, PlainOps, CallOps

(* A step that labels nothing.                                             *)
LEMMA SilentStep ==
  ASSUME IInv, at <= Len(block), at' = at + 1, block' = block,
         stack' \in Seq(Values), evm' \in Seq(Values),
         Partial(memory', Values), Partial(ram', Values),
         lost' \in 1..(Len(block) + 1), lost' <= lost,
         lost' >= at' => Aligned(stack', evm') /\ Remembers(memory', ram'),
         UNCHANGED <<result, values, calls, truth>>
  PROVE  IInv'
<1>1. TypeOK'
  BY DEF IInv, TypeOK
<1>2. InStep'
  BY DEF InStep, Aligned, Remembers
<1>3. Passed'
  BY DEF IInv, TypeOK, Passed
<1>4. SlotsTrue'
  <2>1. ASSUME NEW p \in DOMAIN result, p <= lost'
        PROVE  Describes(result[p], truth[p][1])
    <3>1. p \in Nat /\ lost \in Nat /\ lost' \in Nat
      BY DEF IInv, TypeOK, Partial
    <3>2. p <= lost
      BY <2>1, <3>1
    <3>3. QED
      BY <3>2 DEF IInv, SlotsTrue
  <2>2. QED
    BY <2>1 DEF SlotsTrue
<1>5. StoredValuesTrue'
  <2>1. ASSUME NEW p \in DOMAIN values, p <= lost'
        PROVE  Describes(values[p], truth[p][2])
    <3>1. p \in Nat /\ lost \in Nat /\ lost' \in Nat
      BY DEF IInv, TypeOK, Partial
    <3>2. p <= lost
      BY <2>1, <3>1
    <3>3. QED
      BY <3>2 DEF IInv, StoredValuesTrue
  <2>2. QED
    BY <2>1 DEF StoredValuesTrue
<1>6. QED
  BY <1>1, <1>2, <1>3, <1>4, <1>5 DEF IInv

(* A step that takes k words and pushes one, described on both sides.      *)
LEMMA StackStep ==
  ASSUME IInv, NEW op, NEW k \in Nat, Runs(op, k), NEW v \in Values, NEW w \in Values,
         Swaps(k, v, w), Follows(TRUE),
         lost >= at => Describes(v, w),
         UNCHANGED <<memory, result, values, calls, ram, truth>>
  PROVE  IInv'
<1>1. /\ stack \in Seq(Values) /\ evm \in Seq(Values)
      /\ at \in Nat /\ lost \in 1..(Len(block) + 1)
  BY DEF IInv, TypeOK
<1>2. /\ at <= Len(block) /\ at' = at + 1 /\ block' = block /\ k <= Len(evm)
      /\ lost' = lost
  BY <1>1 DEF Runs, Follows
<1>3. stack' = PushOn(v, Rest(stack, k)) /\ evm' = PushOn(w, Rest(evm, k))
  BY DEF Swaps
<1>4. stack' \in Seq(Values) /\ evm' \in Seq(Values)
  BY <1>1, <1>3, RestType, PushType
<1>5. ASSUME lost' >= at'
      PROVE  Aligned(stack', evm') /\ Remembers(memory', ram')
  <2>1. lost >= at
    BY <1>1, <1>2, <1>5
  <2>2. Aligned(stack, evm) /\ Remembers(memory, ram)
    BY <2>1 DEF IInv, InStep
  <2>3. QED
    BY <1>1, <1>2, <1>3, <2>1, <2>2, SwapsAligned
<1>6. Partial(memory', Values) /\ Partial(ram', Values)
  BY DEF IInv, TypeOK
<1>7. lost' <= lost
  BY <1>1, <1>2
<1>8. QED
  BY <1>1, <1>2, <1>4, <1>5, <1>6, <1>7, SilentStep

LEMMA PushStep == ASSUME IInv, Push PROVE IInv'
<1>1. Instr.n \in Nat
  BY InstrType DEF IInv, Push, Runs
<1>2. Constant(Instr.n) \in Values
  BY <1>1, LeafType, LeafIsValue
<1>3. QED
  BY <1>2, SelfDescribes, StackStep DEF Push

LEMMA PushCallerStep == ASSUME IInv, PushCaller PROVE IInv'
<1>1. Caller \in Values
  BY LeafType, LeafIsValue
<1>2. QED
  BY <1>1, SelfDescribes, StackStep DEF PushCaller

(* The operands of the two sides, and that one describes the other.        *)
LEMMA OperandsStep ==
  ASSUME IInv, NEW k \in Nat, k >= 1, k <= Len(evm)
  PROVE  /\ Operand(stack, k) \in Values
         /\ evm[k] \in Values
         /\ lost >= at => Describes(Operand(stack, k), evm[k])
<1>1. stack \in Seq(Values) /\ evm \in Seq(Values)
  BY DEF IInv, TypeOK
<1>2. k \in 1..Len(evm)
  BY <1>1
<1>3. QED
  BY <1>1, <1>2, ElementOfSeq, OperandType, OperandDescribes DEF IInv, InStep

LEMMA LoadCalldataStep == ASSUME IInv, LoadCalldata PROVE IInv'
<1>1. Len(evm) >= 1
  BY DEF LoadCalldata, Runs
<1>2. /\ Operand(stack, 1) \in Values
      /\ evm[1] \in Values
      /\ lost >= at => Describes(Operand(stack, 1), evm[1])
  BY <1>1, OperandsStep
<1>3. lost >= at => Describes(Calldata(Operand(stack, 1)), Calldata(evm[1]))
  BY <1>2, CalldataDescribes
<1>4. QED
  BY <1>2, <1>3, CalldataType, StackStep DEF LoadCalldata

LEMMA DupStep == ASSUME IInv, Dup PROVE IInv'
<1>1. Instr.n \in Nat /\ Instr.n >= 1 /\ Instr.n <= Len(evm)
  <2>1. Instr.n \in 1..16
    BY InstrType DEF IInv, Dup, Runs
  <2>2. QED
    BY <2>1, SMTT(30) DEF Dup, Runs
<1>2. /\ Operand(stack, Instr.n) \in Values
      /\ evm[Instr.n] \in Values
      /\ lost >= at => Describes(Operand(stack, Instr.n), evm[Instr.n])
  BY <1>1, OperandsStep
<1>3. Runs("DUP", 0)
  BY <1>1 DEF Dup, Runs, IInv, TypeOK
<1>4. QED
  BY <1>2, <1>3, StackStep DEF Dup

LEMMA Sha3Step == ASSUME IInv, Sha3 PROVE IInv'
<1>1. Len(evm) >= 2 /\ Len(evm) >= 1
  BY DEF Sha3, Runs, IInv, TypeOK
<1>2. \A k \in {1, 2} :
        /\ Operand(stack, k) \in Values
        /\ evm[k] \in Values
        /\ lost >= at => Describes(Operand(stack, k), evm[k])
  BY <1>1, OperandsStep
<1> DEFINE o == Operand(stack, 1)  s == Operand(stack, 2)
<1>3. Partial(memory, Values) /\ Partial(ram, Values)
  BY DEF IInv, TypeOK
<1>4. Other \in Values
  BY LeafType, LeafIsValue
<1>5. Sha3Label(o, s) \in Values /\ Sha3Word(evm[1], evm[2]) \in Values
  BY <1>3, <1>4, HashType DEF Sha3Label, Sha3Word, Both, Partial
<1>6. ASSUME lost >= at
      PROVE  Describes(Sha3Label(o, s), Sha3Word(evm[1], evm[2]))
  <2>1. Remembers(memory, ram)
    BY <1>6 DEF IInv, InStep
  <2>2. CASE Sha3Label(o, s) = Other
    BY <2>2, OtherDescribes
  <2>3. CASE Sha3Label(o, s) # Other
    <3>1. /\ o.kind = "constant" /\ s = Constant(64) /\ Both(memory, o.n)
          /\ memory[o.n].kind # "mapping"
          /\ Sha3Label(o, s) = HashOf(memory[o.n], memory[o.n + 32])
      BY <2>3 DEF Sha3Label
    <3>2. Describes(o, evm[1]) /\ Describes(s, evm[2])
      BY <1>2, <1>6
    <3>3. evm[1] = o
      BY <3>1, <3>2, ConstantDescribes
    <3>4. evm[2] = s
      <4>1. s.kind = "constant"
        BY <3>1 DEF Constant
      <4>2. QED
        BY <3>2, <4>1, ConstantDescribes
    <3>5. /\ Both(ram, o.n)
          /\ Describes(memory[o.n], ram[o.n])
          /\ Describes(memory[o.n + 32], ram[o.n + 32])
      BY <2>1, <3>1 DEF Remembers, Both
    <3>6. Sha3Word(evm[1], evm[2]) = HashOf(ram[o.n], ram[o.n + 32])
      BY <3>1, <3>3, <3>4, <3>5 DEF Sha3Word
    <3>7. /\ memory[o.n] \in Values /\ memory[o.n + 32] \in Values
          /\ ram[o.n] \in Values /\ ram[o.n + 32] \in Values
      BY <1>3, <3>1, <3>5 DEF Partial, Both
    <3>8. QED
      BY <3>1, <3>5, <3>6, <3>7, HashDescribes
  <2>4. QED
    BY <2>2, <2>3
<1>7. QED
  BY <1>5, <1>6, StackStep DEF Sha3

LEMMA SwapStep == ASSUME IInv, Swap PROVE IInv'
<1> DEFINE n == Instr.n
<1>1. /\ at <= Len(block) /\ at' = at + 1 /\ block' = block /\ n \in 1..16 /\ n < Len(evm)
      /\ at \in 1..(Len(block) + 1) /\ lost \in 1..(Len(block) + 1)
      /\ stack \in Seq(Values) /\ evm \in Seq(Values)
  <2>1. /\ at \in 1..(Len(block) + 1) /\ lost \in 1..(Len(block) + 1)
        /\ stack \in Seq(Values) /\ evm \in Seq(Values)
    BY DEF IInv, TypeOK
  <2>2. at <= Len(block) /\ at' = at + 1 /\ block' = block /\ Len(evm) >= n + 1
    BY DEF Swap, Runs
  <2>3. n \in 1..16
    BY <2>2, InstrType DEF IInv, Swap, Runs
  <2>4. Len(evm) \in Nat
    BY <2>1
  <2> HIDE DEF n
  <2>5. QED
    BY <2>1, <2>2, <2>3, <2>4
<1> HIDE DEF n
<1>2. stack' = SwapLabels(n) /\ evm' = Exchange(evm, n)
  BY DEF Swap, n
<1>3. stack' \in Seq(Values) /\ evm' \in Seq(Values)
  <2>1. Len(stack) > n => Exchange(stack, n) \in Seq(Values)
    BY <1>1, ExchangeType
  <2>2. QED
    BY <1>1, <1>2, <2>1, ExchangeType DEF SwapLabels
<1>4. lost' \in 1..(Len(block) + 1) /\ lost' <= lost
  BY <1>1 DEF Swap, Follows
<1>5. ASSUME lost' >= at'
      PROVE  Aligned(stack', evm') /\ Remembers(memory', ram')
  <2>1. lost >= at /\ Len(stack) > n
    BY <1>1, <1>5 DEF Swap, Follows, n
  <2>2. Aligned(stack, evm) /\ Remembers(memory, ram)
    BY <2>1 DEF IInv, InStep
  <2>3. stack' = Exchange(stack, n)
    BY <1>2, <2>1 DEF SwapLabels
  <2>4. n < Len(stack)
    BY <1>1, <2>1
  <2>5. Aligned(stack', evm')
    BY <1>1, <1>2, <2>2, <2>3, <2>4, ExchangeAligned
  <2>6. QED
    BY <2>2, <2>5 DEF Swap
<1>6. /\ Partial(memory', Values) /\ Partial(ram', Values)
      /\ UNCHANGED <<result, values, calls, truth>>
  BY DEF Swap, IInv, TypeOK
<1>7. QED
  BY <1>1, <1>3, <1>4, <1>5, <1>6, SilentStep

LEMMA PopStep == ASSUME IInv, Pop PROVE IInv'
<1>1. /\ stack \in Seq(Values) /\ evm \in Seq(Values)
      /\ at \in 1..(Len(block) + 1) /\ lost \in 1..(Len(block) + 1)
      /\ Partial(memory, Values) /\ Partial(ram, Values)
  BY DEF IInv, TypeOK
<1>2. /\ at <= Len(block) /\ at' = at + 1 /\ block' = block /\ 1 <= Len(evm)
      /\ lost' = lost
      /\ stack' = Rest(stack, 1) /\ evm' = Rest(evm, 1)
      /\ UNCHANGED <<memory, result, values, calls, ram, truth>>
  BY <1>1 DEF Pop, Runs, Follows, Drops
<1>3. stack' \in Seq(Values) /\ evm' \in Seq(Values)
  BY <1>1, <1>2, RestType
<1>4. ASSUME lost' >= at'
      PROVE  Aligned(stack', evm') /\ Remembers(memory', ram')
  <2>1. lost >= at
    BY <1>1, <1>2, <1>4
  <2>2. Aligned(stack, evm) /\ Remembers(memory, ram)
    BY <2>1 DEF IInv, InStep
  <2>3. QED
    BY <1>1, <1>2, <2>2, RestAligned
<1>5. lost' <= lost /\ Partial(memory', Values) /\ Partial(ram', Values)
  BY <1>1, <1>2
<1>6. QED
  BY <1>1, <1>2, <1>3, <1>4, <1>5, SilentStep

(* A store at a known offset, remembered on both sides.                    *)
LEMMA WrittenType ==
  ASSUME Partial(ram, Values), NEW o \in Values, NEW v \in Values
  PROVE  Partial(Written(o, v), Values)
<1>1. CASE o.kind = "constant"
  <2> DEFINE f == [x \in {y \in DOMAIN ram : ~Overlaps(y, o.n)} |-> ram[x]]
  <2>1. Partial(f, Values)
    BY DEF Partial
  <2>2. o.n \in Nat
    BY ValueKind
  <2>3. Partial(Put(f, o.n, v), Values)
    BY <2>1, <2>2, PutType
  <2>4. QED
    BY <1>1, <2>3 DEF Written
<1>2. CASE o.kind # "constant"
  BY <1>2, EmptyType DEF Written
<1>3. QED
  BY <1>1, <1>2

LEMMA StoreRemembered ==
  ASSUME Partial(memory, Values), Partial(ram, Values), Remembers(memory, ram),
         NEW o \in Values, o.kind = "constant",
         \A x \in DOMAIN memory : ~Overlaps(x, o.n),
         NEW v \in Values, NEW w \in Values, Describes(v, w)
  PROVE  Remembers(Put(memory, o.n, v), Written(o, w))
<1> DEFINE f == [x \in {y \in DOMAIN ram : ~Overlaps(y, o.n)} |-> ram[x]]
<1>1. o.n \in Nat /\ Partial(f, Values) /\ Written(o, w) = Put(f, o.n, w)
  BY ValueKind DEF Partial, Written
<1>2. \A x \in DOMAIN memory : x \in DOMAIN f /\ f[x] = ram[x]
  BY DEF Remembers
<1> HIDE DEF f
<1>3. /\ Partial(Put(memory, o.n, v), Values)
      /\ DOMAIN Put(memory, o.n, v) = DOMAIN memory \cup {o.n}
      /\ Put(memory, o.n, v)[o.n] = v
      /\ \A x \in DOMAIN memory : x # o.n => Put(memory, o.n, v)[x] = memory[x]
  BY <1>1 DEF Partial, Put
<1>4. /\ Partial(Put(f, o.n, w), Values)
      /\ DOMAIN Put(f, o.n, w) = DOMAIN f \cup {o.n}
      /\ Put(f, o.n, w)[o.n] = w
      /\ \A x \in DOMAIN f : x # o.n => Put(f, o.n, w)[x] = f[x]
  BY <1>1 DEF Partial, Put
<1>5. \A x \in DOMAIN memory : Describes(memory[x], ram[x])
  BY DEF Remembers
<1>6. QED
  BY <1>1, <1>2, <1>3, <1>4, <1>5 DEF Remembers

LEMMA MstoreStep == ASSUME IInv, Mstore PROVE IInv'
<1> DEFINE o == Operand(stack, 1)  v == Operand(stack, 2)
<1>1. /\ stack \in Seq(Values) /\ evm \in Seq(Values)
      /\ at \in 1..(Len(block) + 1) /\ lost \in 1..(Len(block) + 1)
      /\ Partial(memory, Values) /\ Partial(ram, Values)
  BY DEF IInv, TypeOK
<1>2. /\ at <= Len(block) /\ at' = at + 1 /\ block' = block
      /\ 2 <= Len(evm) /\ 1 <= Len(evm)
      /\ stack' = Rest(stack, 2) /\ evm' = Rest(evm, 2)
      /\ memory' = Remember(o, v)
      /\ ram' = Written(evm[1], evm[2])
      /\ UNCHANGED <<result, values, calls, truth>>
  BY <1>1 DEF Mstore, Runs, Drops
<1>3. stack' \in Seq(Values) /\ evm' \in Seq(Values)
  BY <1>1, <1>2, RestType
<1>4. \A k \in {1, 2} :
        /\ Operand(stack, k) \in Values
        /\ evm[k] \in Values
        /\ lost >= at => Describes(Operand(stack, k), evm[k])
  BY <1>2, OperandsStep
<1>5. lost' \in 1..(Len(block) + 1) /\ lost' <= lost
  BY <1>1 DEF Mstore, Follows
<1>6. ASSUME lost' >= at'
      PROVE  lost >= at /\ InStepWith(o)
  BY <1>1, <1>2, <1>6 DEF Mstore, Follows
<1> HIDE DEF o, v
<1>7. o \in Values /\ v \in Values
  BY <1>4 DEF o, v
<1>8. Partial(memory', Values) /\ Partial(ram', Values)
  <2>1. o.n \in Nat
    BY <1>7, ValueKind
  <2>2. Partial(Put(memory, o.n, v), Values)
    BY <1>1, <1>7, <2>1, PutType
  <2>3. Partial(memory', Values)
    BY <1>1, <1>2, <2>2 DEF Remember
  <2>4. Partial(ram', Values)
    BY <1>1, <1>2, <1>4, WrittenType
  <2>5. QED
    BY <2>3, <2>4
<1>9. ASSUME lost' >= at'
      PROVE  Aligned(stack', evm') /\ Remembers(memory', ram')
  <2>1. lost >= at /\ InStepWith(o)
    BY <1>6, <1>9
  <2>2. Aligned(stack, evm) /\ Remembers(memory, ram)
    BY <2>1 DEF IInv, InStep
  <2>3. Describes(o, evm[1]) /\ Describes(v, evm[2])
    BY <1>4, <2>1 DEF o, v
  <2>4. o.kind = "constant" /\ evm[1] = o
    BY <2>1, <2>3, ConstantDescribes DEF InStepWith
  <2>5. memory' = Put(memory, o.n, v) /\ ram' = Written(o, evm[2])
    BY <1>2, <2>4 DEF Remember
  <2>6. Remembers(memory', ram')
    BY <1>1, <1>4, <1>7, <2>1, <2>2, <2>3, <2>4, <2>5, StoreRemembered DEF InStepWith
  <2>7. Aligned(stack', evm')
    BY <1>1, <1>2, <2>2, RestAligned
  <2>8. QED
    BY <2>6, <2>7
<1>10. QED
  BY <1>1, <1>2, <1>3, <1>5, <1>8, <1>9, SilentStep

LEMMA IgnoreStep == ASSUME IInv, Ignore PROVE IInv'
<1>1. /\ stack \in Seq(Values) /\ evm \in Seq(Values)
      /\ at \in 1..(Len(block) + 1) /\ lost \in 1..(Len(block) + 1)
      /\ Partial(memory, Values) /\ Partial(ram, Values)
  BY DEF IInv, TypeOK
<1>2. /\ at <= Len(block) /\ at' = at + 1 /\ block' = block
      /\ Instr.pops \in Nat /\ Instr.pushes \in Nat
      /\ UNCHANGED <<stack, memory, result, values, calls, truth>>
  BY InstrType DEF Ignore, Runs, IInv
<1> DEFINE new == [i \in 1..Instr.pushes |-> Other]
<1>3. new \in Seq(Values)
  BY <1>2, LeafType, LeafIsValue
<1>4. Rest(evm, Instr.pops) \in Seq(Values)
  BY <1>1, <1>2, RestType
<1>5. evm' \in Seq(Values)
  BY <1>3, <1>4, ConcatProperties DEF Ignore
<1>6. lost' \in 1..(Len(block) + 1) /\ lost' <= lost
  BY <1>1 DEF Ignore, Follows
<1>7. Partial(ram', Values)
  BY <1>1, EmptyType DEF Ignore
<1>8. ASSUME lost' >= at'
      PROVE  Aligned(stack', evm') /\ Remembers(memory', ram')
  <2>1. /\ lost >= at
        /\ Instr.pops = 0 /\ Instr.pushes = 0 /\ ~Instr.writes
    BY <1>1, <1>2, <1>8 DEF Ignore, Follows
  <2>2. Aligned(stack, evm) /\ Remembers(memory, ram)
    BY <2>1 DEF IInv, InStep
  <2>3. new = <<>>
    BY <2>1
  <2>4. Rest(evm, 0) = evm
    BY <1>1, SubSeqFull DEF Rest
  <2>5. evm' = evm
    BY <1>1, <2>1, <2>3, <2>4, ConcatEmptySeq DEF Ignore
  <2>6. ram' = ram
    BY <2>1 DEF Ignore
  <2>7. QED
    BY <1>2, <2>2, <2>5, <2>6
<1>9. Partial(memory', Values) /\ stack' \in Seq(Values)
  BY <1>1, <1>2
<1>10. QED
  BY <1>1, <1>2, <1>5, <1>6, <1>7, <1>8, <1>9, SilentStep

(* A step that labels the instruction it executes: the new labels describe *)
(* the operands the EVM takes.                                             *)
LEMMA LabelStep ==
  ASSUME IInv, at <= Len(block), at' = at + 1, block' = block, lost' = lost,
         stack' \in Seq(Values), evm' \in Seq(Values),
         lost >= at => Aligned(stack', evm'),
         NEW slot \in Values, NEW operands \in Seq(Values),
         result' = Put(result, at, slot),
         truth' = Put(truth, at, operands),
         lost >= at => Describes(slot, operands[1]),
         \/ values' = values
         \/ \E v \in Values :
                /\ values' = Put(values, at, v)
                /\ lost >= at => Describes(v, operands[2]),
         UNCHANGED <<memory, calls, ram>>
  PROVE  IInv'
<1>1. /\ at \in Nat /\ at >= 1 /\ at \in 1..(Len(block) + 1)
      /\ lost \in Nat /\ Len(block) \in Nat
      /\ Partial(result, Values) /\ Partial(values, Values) /\ Partial(truth, Seq(Values))
  BY DEF IInv, TypeOK
<1>2. /\ Partial(result', Values)
      /\ DOMAIN result' = DOMAIN result \cup {at}
      /\ result'[at] = slot
      /\ \A x \in DOMAIN result : x # at => result'[x] = result[x]
  BY <1>1 DEF Partial, Put
<1>3. /\ Partial(truth', Seq(Values))
      /\ truth'[at] = operands
      /\ \A x \in DOMAIN truth : x # at => truth'[x] = truth[x]
  BY <1>1 DEF Partial, Put
<1>4. /\ DOMAIN truth' = DOMAIN truth \cup {at}
      /\ \A x \in DOMAIN result : x \in DOMAIN truth /\ x # at
      /\ \A x \in DOMAIN values : x \in DOMAIN truth /\ x # at
  BY <1>1 DEF IInv, Passed, Put
<1>5. /\ Partial(values', Values)
      /\ DOMAIN values' \subseteq DOMAIN values \cup {at}
      /\ \A x \in DOMAIN values : x # at => values'[x] = values[x]
      /\ at \in DOMAIN values' => (lost >= at => Describes(values'[at], operands[2]))
  <2>1. CASE values' = values
    BY <1>1, <1>4, <2>1
  <2>2. CASE values' # values
    <3>1. PICK v \in Values : /\ values' = Put(values, at, v)
                              /\ lost >= at => Describes(v, operands[2])
      BY <2>2
    <3>2. /\ Partial(values', Values)
          /\ DOMAIN values' = DOMAIN values \cup {at}
          /\ values'[at] = v
          /\ \A x \in DOMAIN values : x # at => values'[x] = values[x]
      BY <1>1, <3>1 DEF Partial, Put
    <3>3. QED
      BY <3>1, <3>2
  <2>3. QED
    BY <2>1, <2>2
<1>6. TypeOK'
  BY <1>1, <1>2, <1>3, <1>5 DEF IInv, TypeOK
<1>7. InStep'
  BY <1>1 DEF IInv, InStep, Aligned, Remembers
<1>8. Passed'
  BY <1>1, <1>2, <1>4, <1>5 DEF IInv, Passed
<1>9. SlotsTrue'
  <2>1. ASSUME NEW p \in DOMAIN result', p <= lost'
        PROVE  Describes(result'[p], truth'[p][1])
    <3>1. CASE p = at
      BY <1>2, <1>3, <2>1, <3>1
    <3>2. CASE p # at
      BY <1>2, <1>3, <1>4, <2>1, <3>2 DEF IInv, SlotsTrue
    <3>3. QED
      BY <3>1, <3>2
  <2>2. QED
    BY <2>1 DEF SlotsTrue
<1>10. StoredValuesTrue'
  <2>1. ASSUME NEW p \in DOMAIN values', p <= lost'
        PROVE  Describes(values'[p], truth'[p][2])
    <3>1. CASE p = at
      BY <1>3, <1>5, <2>1, <3>1
    <3>2. CASE p # at
      BY <1>3, <1>4, <1>5, <2>1, <3>2 DEF IInv, StoredValuesTrue
    <3>3. QED
      BY <3>1, <3>2
  <2>2. QED
    BY <2>1 DEF StoredValuesTrue
<1>11. QED
  BY <1>6, <1>7, <1>8, <1>9, <1>10 DEF IInv

LEMMA SloadStep == ASSUME IInv, Sload PROVE IInv'
<1>1. /\ stack \in Seq(Values) /\ evm \in Seq(Values)
      /\ at \in Nat /\ lost \in Nat /\ Other \in Values
  BY LeafType, LeafIsValue DEF IInv, TypeOK
<1>2. /\ at <= Len(block) /\ at' = at + 1 /\ block' = block /\ lost' = lost
      /\ 1 <= Len(evm)
      /\ stack' = PushOn(Other, Rest(stack, 1)) /\ evm' = PushOn(Other, Rest(evm, 1))
  BY <1>1 DEF Sload, Runs, Follows, Swaps
<1>3. /\ Operand(stack, 1) \in Values
      /\ evm[1] \in Values
      /\ lost >= at => Describes(Operand(stack, 1), evm[1])
  BY <1>2, OperandsStep
<1> DEFINE slot == SlotLabel(Operand(stack, 1))  operands == <<evm[1]>>
<1>4. /\ slot \in Values /\ operands \in Seq(Values) /\ operands[1] = evm[1]
      /\ lost >= at => Describes(slot, operands[1])
  BY <1>3, SlotLabelType, SlotLabelDescribes
<1>5. stack' \in Seq(Values) /\ evm' \in Seq(Values)
  BY <1>1, <1>2, RestType, PushType
<1>6. lost >= at => Aligned(stack', evm')
  BY <1>1, <1>2, OtherDescribes, SwapsAligned DEF IInv, InStep
<1>7. /\ result' = Put(result, at, slot) /\ truth' = Put(truth, at, operands)
      /\ values' = values
      /\ UNCHANGED <<memory, calls, ram>>
  BY DEF Sload
<1> HIDE DEF slot, operands
<1>8. QED
  BY <1>2, <1>4, <1>5, <1>6, <1>7, LabelStep

LEMMA SstoreStep == ASSUME IInv, Sstore PROVE IInv'
<1>1. /\ stack \in Seq(Values) /\ evm \in Seq(Values)
      /\ at \in Nat /\ lost \in Nat
  BY DEF IInv, TypeOK
<1>2. /\ at <= Len(block) /\ at' = at + 1 /\ block' = block /\ lost' = lost
      /\ 2 <= Len(evm) /\ 1 <= Len(evm)
      /\ stack' = Rest(stack, 2) /\ evm' = Rest(evm, 2)
  BY <1>1 DEF Sstore, Runs, Follows, Drops
<1>3. \A k \in {1, 2} :
        /\ Operand(stack, k) \in Values
        /\ evm[k] \in Values
        /\ lost >= at => Describes(Operand(stack, k), evm[k])
  BY <1>2, OperandsStep
<1> DEFINE slot == SlotLabel(Operand(stack, 1))
           operands == <<evm[1], evm[2]>>
           v == Operand(stack, 2)
<1>4. /\ slot \in Values /\ operands \in Seq(Values)
      /\ operands[1] = evm[1] /\ operands[2] = evm[2]
      /\ v \in Values
      /\ lost >= at => Describes(v, operands[2])
  BY <1>3, SlotLabelType
<1>5. lost >= at => Describes(slot, operands[1])
  BY <1>3, SlotLabelDescribes
<1>6. stack' \in Seq(Values) /\ evm' \in Seq(Values)
  BY <1>1, <1>2, RestType
<1>7. lost >= at => Aligned(stack', evm')
  BY <1>1, <1>2, RestAligned DEF IInv, InStep
<1>8. /\ result' = Put(result, at, slot) /\ truth' = Put(truth, at, operands)
      /\ values' = Put(values, at, v)
      /\ UNCHANGED <<memory, calls, ram>>
  BY DEF Sstore, StoredText
<1> HIDE DEF slot, operands, v
<1>9. QED
  BY <1>2, <1>4, <1>5, <1>6, <1>7, <1>8, LabelStep

LEMMA ArityType == \A op \in CallOps : Arity[op] \in Nat /\ Arity[op] >= 1
<1>1. /\ Arity["CREATE"] = 3 /\ Arity["CALL"] = 7 /\ Arity["CALLCODE"] = 7
      /\ Arity["DELEGATECALL"] = 6 /\ Arity["CREATE2"] = 4
      /\ Arity["STATICCALL"] = 6 /\ Arity["SELFDESTRUCT"] = 1
  BY DEF Arity
<1>2. QED
  BY <1>1 DEF CallOps

LEMMA CallArgsType ==
  ASSUME stack \in Seq(Values), NEW a \in Nat
  PROVE  CallArgs(a) \in Seq(Values)
<1>1. \A i \in 1..a : Operand(stack, a + 1 - i) \in Values
  BY OperandType
<1>2. QED
  BY <1>1 DEF CallArgs

LEMMA CallStep == ASSUME IInv, NEW op \in CallOps, Call(op) PROVE IInv'
<1> DEFINE a == Arity[op]  args == CallArgs(a)  operands == SubSeq(evm, 1, a)
<1>1. /\ stack \in Seq(Values) /\ evm \in Seq(Values) /\ block \in Seq(Instruction)
      /\ at \in 1..(Len(block) + 1) /\ lost \in 1..(Len(block) + 1)
      /\ Len(block) \in Nat /\ Len(evm) \in Nat
      /\ Other \in Values /\ a \in Nat /\ a >= 1
      /\ Partial(calls, Seq(Values)) /\ Partial(truth, Seq(Values))
  BY LeafType, LeafIsValue, ArityType DEF IInv, TypeOK
<1>2. /\ at <= Len(block) /\ at' = at + 1 /\ block' = block /\ a <= Len(evm)
      /\ UNCHANGED <<memory, result, values>>
  BY <1>1 DEF Call, Runs
<1>3. args \in Seq(Values)
  BY <1>1, CallArgsType
<1>4. operands \in Seq(Values)
  BY <1>1, <1>2, ElementOfSeq, SubSeqProperties
<1>5. calls' = Put(calls, at, args) /\ truth' = Put(truth, at, operands)
  BY DEF Call
<1>6. \/ stack' = Rest(stack, 1) /\ evm' = Rest(evm, 1)
      \/ stack' = PushOn(Other, Rest(stack, a)) /\ evm' = PushOn(Other, Rest(evm, a))
  BY DEF Call, Drops, Swaps
<1>7. lost' \in 1..(Len(block) + 1) /\ lost' <= lost
  BY <1>1 DEF Call, Follows
<1>8. ASSUME lost' >= at'
      PROVE  lost >= at /\ OutSize(op, stack) = Constant(0)
  BY <1>1, <1>2, <1>8 DEF Call, Follows
<1>9. ram' = IF OutSize(op, evm) = Constant(0) THEN ram ELSE Empty
  BY DEF Call
<1> HIDE DEF a, args, operands
<1>10. /\ Partial(calls', Seq(Values)) /\ Partial(truth', Seq(Values))
       /\ DOMAIN calls' = DOMAIN calls \cup {at}
       /\ DOMAIN truth' = DOMAIN truth \cup {at}
       /\ \A x \in DOMAIN truth : x # at => truth'[x] = truth[x]
  BY <1>1, <1>3, <1>4, <1>5 DEF Partial, Put
<1>11. stack' \in Seq(Values) /\ evm' \in Seq(Values)
  BY <1>1, <1>6, RestType, PushType, ZenonT(40)
<1>12. Partial(ram', Values)
  BY <1>9, EmptyType DEF IInv, TypeOK
<1>13. TypeOK'
  BY <1>1, <1>2, <1>7, <1>10, <1>11, <1>12 DEF IInv, TypeOK
<1>14. ASSUME lost' >= at'
       PROVE  Aligned(stack', evm') /\ Remembers(memory', ram')
  <2>1. lost >= at /\ OutSize(op, stack) = Constant(0)
    BY <1>8, <1>14
  <2>2. Aligned(stack, evm) /\ Remembers(memory, ram)
    BY <2>1 DEF IInv, InStep
  <2>3. Aligned(stack', evm')
    <3>1. Aligned(Rest(stack, 1), Rest(evm, 1))
      BY <1>1, <1>2, <2>2, RestAligned
    <3>2. Aligned(PushOn(Other, Rest(stack, a)), PushOn(Other, Rest(evm, a)))
      BY <1>1, <1>2, <2>2, OtherDescribes, SwapsAligned
    <3>3. QED
      BY <1>6, <3>1, <3>2
  <2>4. OutSize(op, evm) = Constant(0)
    <3>1. CASE op \in {"CREATE", "CREATE2", "SELFDESTRUCT"}
      BY <3>1 DEF OutSize
    <3>2. CASE op \notin {"CREATE", "CREATE2", "SELFDESTRUCT"}
      <4>1. Operand(stack, a) = Constant(0) /\ OutSize(op, evm) = Operand(evm, a)
        BY <2>1, <3>2 DEF OutSize, a
      <4>2. Operand(evm, a) = evm[a]
        BY <1>2 DEF Operand
      <4>3. Describes(Operand(stack, a), evm[a])
        BY <1>1, <2>2, OperandDescribes
      <4>4. Operand(stack, a).kind = "constant"
        BY <4>1 DEF Constant
      <4>5. QED
        BY <4>1, <4>2, <4>3, <4>4, ConstantDescribes
    <3>3. QED
      BY <3>1, <3>2
  <2>5. QED
    BY <1>2, <1>9, <2>2, <2>3, <2>4
<1>15. InStep'
  BY <1>14 DEF InStep, Aligned, Remembers
<1>16. /\ \A x \in DOMAIN result : x \in DOMAIN truth /\ x # at /\ x \in Nat
       /\ \A x \in DOMAIN values : x \in DOMAIN truth /\ x # at /\ x \in Nat
  BY <1>1 DEF IInv, Passed
<1>17. Passed'
  BY <1>1, <1>2, <1>10 DEF IInv, Passed
<1>18. SlotsTrue'
  <2>1. ASSUME NEW p \in DOMAIN result, p <= lost'
        PROVE  Describes(result[p], truth'[p][1])
    <3>1. p <= lost /\ truth'[p] = truth[p]
      BY <1>1, <1>7, <1>10, <1>16, <2>1
    <3>2. QED
      BY <3>1 DEF IInv, SlotsTrue
  <2>2. QED
    BY <1>2, <2>1 DEF SlotsTrue
<1>19. StoredValuesTrue'
  <2>1. ASSUME NEW p \in DOMAIN values, p <= lost'
        PROVE  Describes(values[p], truth'[p][2])
    <3>1. p <= lost /\ truth'[p] = truth[p]
      BY <1>1, <1>7, <1>10, <1>16, <2>1
    <3>2. QED
      BY <3>1 DEF IInv, StoredValuesTrue
  <2>2. QED
    BY <1>2, <2>1 DEF StoredValuesTrue
<1>20. QED
  BY <1>13, <1>15, <1>17, <1>18, <1>19 DEF IInv

LEMMA NextStep == ASSUME IInv, [Next]_vars PROVE IInv'
<1>1. CASE Next
  BY <1>1, PushStep, PushCallerStep, LoadCalldataStep, DupStep, SwapStep, PopStep,
     MstoreStep, Sha3Step, SloadStep, SstoreStep, CallStep, IgnoreStep DEF Next
<1>2. CASE UNCHANGED vars
  BY <1>2 DEF vars, IInv, TypeOK, InStep, Passed, SlotsTrue, StoredValuesTrue,
              Aligned, Remembers
<1>3. QED
  BY <1>1, <1>2

LEMMA Invariance == Spec => []IInv
  BY InitInv, NextStep, PTL DEF Spec

-----------------------------------------------------------------------------
(* Every variable of Lifter keeps its type, for any set of blocks.         *)
THEOREM TypeCorrect == Spec => []TypeOK
<1>1. IInv => TypeOK
  BY DEF IInv
<1>2. QED
  BY <1>1, Invariance, PTL

(* As long as the lifter follows the code, the slot it names for an SLOAD  *)
(* or SSTORE is the slot the EVM touches, and the value it names for an     *)
(* SSTORE is the value the EVM stores (builtin.py:59-142).                  *)
THEOREM LabelsAreTrue == Spec => []LabelsTrue
<1>1. IInv => LabelsTrue
  BY DEF IInv, LabelsTrue
<1>2. QED
  BY <1>1, Invariance, PTL
=============================================================================
