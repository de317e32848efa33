------------------------- MODULE ControlFlowProofs -------------------------
(***************************************************************************)
(* Proofs about ControlFlow, for any set of bytecodes: decoding stays      *)
(* sound, blocks are basic and their edges complete, a function owns       *)
(* exactly the blocks its entry reaches, the IR models accept whatever the *)
(* relation check accepts, and that refuses no real dispatcher.            *)
(*                                                                         *)
(* The values of operands are never looked into: it is enough that every   *)
(* successor in the block table is a block, and that a push before a jump  *)
(* is the one whose operand is taken.                                      *)
(***************************************************************************)
EXTENDS ControlFlow, DisassemblerProofs, FiniteSetTheorems, WellFoundedInduction

In(x, s) == \E i \in 1..Len(s) : s[i] = x

-----------------------------------------------------------------------------
(* Worklists.                                                              *)

\* Popping the end of a worklist.
LEMMA Popped ==
  ASSUME NEW S, NEW s \in Seq(S), s # <<>>
  PROVE  /\ s[Len(s)] \in S
         /\ SubSeq(s, 1, Len(s) - 1) \in Seq(S)
         /\ Len(SubSeq(s, 1, Len(s) - 1)) = Len(s) - 1 /\ Len(s) >= 1
         /\ \A x : In(x, s) <=> x = s[Len(s)] \/ In(x, SubSeq(s, 1, Len(s) - 1))
<1> DEFINE t == SubSeq(s, 1, Len(s) - 1)
<1>1. Len(s) \in Nat /\ Len(s) >= 1
  OBVIOUS
<1>2. \A i \in 1..Len(s) : s[i] \in S
  BY ElementOfSeq
<1>3. /\ t \in Seq(S) /\ Len(t) = Len(s) - 1
      /\ \A i \in 1..(Len(s) - 1) : t[i] = s[i]
  <2> DEFINE n == Len(s) - 1
  <2>1. n \in Nat /\ n <= Len(s) /\ n = Len(s) - 1
    BY <1>1
  <2> HIDE DEF n
  <2>2. \A i \in 1..n : s[i] \in S
    BY <1>1, <1>2, <2>1
  <2>3. /\ SubSeq(s, 1, n) \in Seq(S)
        /\ Len(SubSeq(s, 1, n)) = n
        /\ \A i \in 1..n : SubSeq(s, 1, n)[i] = s[i]
    BY <1>1, <2>1, <2>2
  <2> QED
    BY <2>1, <2>3 DEF n
<1> HIDE DEF t
<1>4. ASSUME NEW x PROVE In(x, s) <=> x = s[Len(s)] \/ In(x, t)
  BY <1>1, <1>3 DEF In
<1> QED
  BY <1>1, <1>2, <1>3, <1>4 DEF t

LEMMA Joined ==
  ASSUME NEW S, NEW s \in Seq(S), NEW t \in Seq(S)
  PROVE  /\ s \o t \in Seq(S)
         /\ \A x : In(x, s \o t) <=> In(x, s) \/ In(x, t)
<1> DEFINE u == s \o t
<1>1. /\ u \in Seq(S) /\ Len(u) = Len(s) + Len(t)
      /\ \A i \in 1..(Len(s) + Len(t)) : u[i] = IF i <= Len(s) THEN s[i] ELSE t[i - Len(s)]
  BY ConcatProperties
<1>2. Len(s) \in Nat /\ Len(t) \in Nat
  OBVIOUS
<1> HIDE DEF u
<1>3. ASSUME NEW x, In(x, u) PROVE In(x, s) \/ In(x, t)
  <2>1. PICK i \in 1..(Len(s) + Len(t)) : u[i] = x
    BY <1>1, <1>3 DEF In
  <2>2. CASE i <= Len(s)
    BY <1>1, <1>2, <2>1, <2>2 DEF In
  <2>3. CASE i > Len(s)
    <3>1. i - Len(s) \in 1..Len(t) /\ t[i - Len(s)] = x
      BY <1>1, <1>2, <2>1, <2>3
    <3> QED
      BY <3>1 DEF In
  <2> QED
    BY <1>2, <2>1, <2>2, <2>3
<1>4. ASSUME NEW x, In(x, s) PROVE In(x, u)
  BY <1>1, <1>2, <1>4 DEF In
<1>5. ASSUME NEW x, In(x, t) PROVE In(x, u)
  <2>1. PICK i \in 1..Len(t) : t[i] = x
    BY <1>5 DEF In
  <2> DEFINE k == i + Len(s)
  <2>2. k \in 1..(Len(s) + Len(t)) /\ ~(k <= Len(s)) /\ k - Len(s) = i
    BY <1>2, <2>1
  <2> HIDE DEF k
  <2>3. u[k] = x
    BY <1>1, <2>1, <2>2
  <2> QED
    BY <1>1, <2>2, <2>3 DEF In
<1> QED
  BY <1>1, <1>3, <1>4, <1>5 DEF u

LEMMA Single ==
  ASSUME NEW x
  PROVE  /\ Len(<<x>>) = 1 /\ <<x>>[1] = x
         /\ \A y : In(y, <<x>>) <=> y = x
  BY DEF In

LEMMA Nothing == \A x : ~In(x, <<>>)
  BY DEF In

LEMMA Element ==
  ASSUME NEW S, NEW s \in Seq(S), NEW x, In(x, s)
  PROVE  x \in S
  BY ElementOfSeq DEF In

-----------------------------------------------------------------------------
(* The block table.                                                        *)

Decoded == DecodeInv /\ code # <<>> /\ pc = Len(code)

LEMMA Decodings ==
  ASSUME Decoded
  PROVE  /\ Len(instructions) \in Nat /\ Len(instructions) >= 1
         /\ \A i \in Positions : instructions[i] \in Instructions
         /\ BlockPcs \subseteq Nat
         /\ instructions[1].pc \in BlockPcs
<1>1. /\ code \in Seq(Byte) /\ instructions \in Seq(Instructions) /\ Tiles
      /\ code # <<>> /\ pc = Len(code)
  BY DEF Decoded, DecodeInv, DecodeTypeOK
<1>2. pc # 0
  BY <1>1
<1>3. instructions # <<>>
  BY <1>1, <1>2 DEF Tiles
<1>4. Len(instructions) \in Nat /\ Len(instructions) >= 1
  BY <1>1, <1>3
<1>5. \A i \in Positions : instructions[i] \in Instructions
  BY <1>1, ElementOfSeq DEF Positions
<1>6. BlockPcs \subseteq Nat
  BY <1>5 DEF BlockPcs, Leaders, Instructions
<1>7. 1 \in Leaders
  BY <1>4 DEF Leaders, Leads, Positions
<1> QED
  BY <1>4, <1>5, <1>6, <1>7 DEF BlockPcs

\* A block has a first and a last instruction, and what follows that starts
\* another block.
LEMMA FinalOf ==
  ASSUME Decoded, NEW b \in BlockPcs
  PROVE  /\ Final(b) \in Positions
         /\ Final(b) < Len(instructions) => instructions[Final(b) + 1].pc \in BlockPcs
         /\ First(b) \in Positions /\ instructions[First(b)].pc = b
         /\ EndsAt(b, Final(b))
<1>1. Len(instructions) \in Nat /\ Len(instructions) >= 1
  BY Decodings
<1>2. First(b) \in Positions /\ instructions[First(b)].pc = b
  <2>1. \E i \in Positions : instructions[i].pc = b
    BY DEF BlockPcs, Leaders
  <2> QED
    BY <2>1 DEF First
<1> DEFINE T == {i \in Positions : First(b) <= i /\ (i = Len(instructions) \/ Leads(i + 1))}
<1>3. Len(instructions) \in T
  BY <1>1, <1>2 DEF Positions
<1>4. T \subseteq Nat /\ T # {}
  BY <1>1, <1>3 DEF Positions
<1>5. PICK i \in T : \A j \in T : ~(<<j, i>> \in OpToRel(<, Nat))
  BY <1>4, WFMin, NatLessThanWellFounded
<1>6. \A j \in T : ~(j < i)
  BY <1>4, <1>5 DEF OpToRel
<1>7. EndsAt(b, i)
  <2>1. ASSUME NEW j \in First(b)..(i - 1), Leads(j + 1) PROVE FALSE
    <3>1. j \in Positions /\ First(b) <= j /\ j < i
      <4> DEFINE f == First(b)
      <4>1. f \in 1..Len(instructions) /\ i \in 1..Len(instructions)
        BY <1>2, <1>5 DEF Positions
      <4>2. j \in f..(i - 1)
        OBVIOUS
      <4> HIDE DEF f
      <4>3. j \in 1..Len(instructions) /\ f <= j /\ j < i
        BY <1>1, <4>1, <4>2
      <4> QED
        BY <4>3 DEF f, Positions
    <3>2. j \in T
      BY <2>1, <3>1
    <3> QED
      BY <1>6, <3>1, <3>2
  <2> QED
    BY <1>5, <2>1 DEF EndsAt
<1>8. Final(b) \in Positions /\ EndsAt(b, Final(b))
  BY <1>5, <1>7 DEF Final
<1>9. ASSUME Final(b) < Len(instructions)
      PROVE  instructions[Final(b) + 1].pc \in BlockPcs
  <2>1. Final(b) + 1 \in Positions /\ Leads(Final(b) + 1)
    BY <1>1, <1>8, <1>9 DEF EndsAt, Positions
  <2> QED
    BY <2>1 DEF BlockPcs, Leaders
<1> QED
  BY <1>2, <1>8, <1>9

\* Every successor is a block.
LEMMA SuccessorsType ==
  ASSUME Decoded, NEW b \in BlockPcs
  PROVE  Successors(b) \in Seq(BlockPcs)
<1>1. JumpTarget(b) \in Seq(BlockPcs)
  <2>1. CASE Target(b) # {}
    <3>1. (CHOOSE target \in Target(b) : TRUE) \in BlockPcs
      BY <2>1 DEF Target
    <3> QED
      BY <3>1 DEF JumpTarget
  <2>2. CASE Target(b) = {}
    BY <2>2 DEF JumpTarget
  <2> QED
    BY <2>1, <2>2
<1>2. NextBlock(b) \in Seq(BlockPcs)
  BY FinalOf DEF NextBlock
<1> QED
  BY <1>1, <1>2, ConcatProperties DEF Successors

-----------------------------------------------------------------------------
(* The invariant.                                                          *)

Names == DOMAIN blocks \cup {entries[fn][2]}

\* Every edge leads to a block, and every entry is a pair.
TableOK ==
    /\ DOMAIN blocks \subseteq Nat
    /\ \A b \in DOMAIN blocks : blocks[b] \in Seq(DOMAIN blocks)
    /\ Len(entries) \in Nat
    /\ \A n \in 1..Len(entries) : entries[n] = <<entries[n][1], entries[n][2]>>
    /\ fn \in 0..Len(entries)
    /\ phase = "reach" => fn \in 1..Len(entries)

\* What is still to do is known, and done with when the phase is over.
WorkOK ==
    /\ seen \subseteq DOMAIN blocks
    /\ todo \in Seq(Names)
    /\ phase # "reach" => seen = {} /\ todo = <<>>

\* The frontier: what a block seen leads to is seen or waits in todo.
Frontier ==
    phase = "reach" =>
        /\ \A b \in seen : \A c : In(c, blocks[b]) => c \in seen \/ In(c, todo)
        /\ \/ entries[fn][2] \in seen
           \/ In(entries[fn][2], todo)
           \/ entries[fn][2] \notin DOMAIN blocks

\* All of it is in every closed set the entry is in.
Inside ==
    phase = "reach" =>
        \A S \in SUBSET DOMAIN blocks :
            ClosedOver({entries[fn][2]}, S) =>
                seen \subseteq S /\ \A c \in DOMAIN blocks : In(c, todo) => c \in S

\* The rows are closed under the edges.
RowsClosed ==
    \A r \in rows :
        /\ r[2] \in DOMAIN blocks
        /\ \A c : In(c, blocks[r[2]]) => <<r[1], c>> \in rows

\* The entries collected so far have their rows.
Collected ==
    \A n \in 1..Len(entries) :
        (phase = "reach" => n < fn) /\ entries[n][2] \in DOMAIN blocks => entries[n] \in rows

Undecided ==
    phase = "decode" =>
        DOMAIN blocks = {} /\ Len(entries) = 0 /\ fn = 0 /\ seen = {} /\ todo = <<>> /\ rows = {}

FlowInv ==
    /\ DecodeInv /\ code # <<>>
    /\ phase \in Phases
    /\ TableOK /\ WorkOK /\ Frontier /\ Inside /\ RowsClosed /\ Collected /\ Undecided
    /\ RowsAreReached
    /\ phase = "build" => EntriesKnown
    /\ phase # "bad_IR"

\* The program starts in it.
LEMMA InitInv == Init => FlowInv
<1> SUFFICES ASSUME Init PROVE FlowInv
  OBVIOUS
<1>1. DecodeInv
  BY DecodeInitInv DEF Init
<1>2. code # <<>>
  BY CodesAssumption DEF Init, DecodeInit
<1>3. /\ phase = "decode" /\ DOMAIN blocks = {} /\ Len(entries) = 0 /\ fn = 0
      /\ seen = {} /\ todo = <<>> /\ rows = {}
  BY DEF Init
<1>4. /\ TableOK /\ WorkOK /\ Frontier /\ Inside /\ RowsClosed /\ Collected /\ Undecided
      /\ RowsAreReached
  BY <1>3 DEF TableOK, WorkOK, Frontier, Inside, RowsClosed, Collected, Undecided,
              RowsAreReached
<1> QED
  BY <1>1, <1>2, <1>3, <1>4 DEF FlowInv, Phases

\* What the rows lie in is a matter of four variables.
LEMMA SameRows ==
  ASSUME RowsAreReached, UNCHANGED <<blocks, entries, fn, rows>>
  PROVE  RowsAreReached'
  BY DEF RowsAreReached, ClosedOver, EntryBlocks, Closed, LeadsTo

\* Decoding leaves the rest alone.
LEMMA DecodeKeeps ==
  ASSUME FlowInv, [DecodeStep]_vars
  PROVE  FlowInv'
<1>1. DecodeInv'
  BY DecodeStepInv DEF FlowInv, DecodeStep, vars, decoding
<1>2. code' = code /\ UNCHANGED flow
  BY DEF DecodeStep, Decode, DecodePush, DecodePush0, DecodePlain, Emit, vars, flow
<1>3. (TableOK /\ WorkOK /\ Frontier /\ Inside /\ RowsClosed /\ Collected /\ Undecided)'
  BY <1>2 DEF FlowInv, flow, TableOK, WorkOK, Names, Frontier, Inside, ClosedOver, Closed,
              LeadsTo, RowsClosed, Collected, Undecided
<1>4. RowsAreReached'
  BY <1>2, SameRows DEF FlowInv, flow
<1> QED
  BY <1>1, <1>2, <1>3, <1>4 DEF FlowInv, flow, EntriesKnown

\* The block table of a lift.
LEMMA LiftTable ==
  ASSUME FlowInv, Lift
  PROVE  /\ Decoded /\ UNCHANGED <<code, pc, instructions>>
         /\ DecodeInv' /\ code' # <<>>
         /\ DOMAIN blocks' = BlockPcs /\ BlockPcs \subseteq Nat
         /\ \A b \in BlockPcs : blocks'[b] \in Seq(BlockPcs)
         /\ fn = 0 /\ seen' = {} /\ todo = <<>> /\ rows = {}
<1>1. Decoded
  BY DEF FlowInv, Lift, Decoded
<1>2. UNCHANGED <<code, pc, instructions>>
  BY DEF Lift
<1>3. DecodeInv'
  BY <1>2, DecodeStepInv DEF FlowInv, decoding
<1>4. DOMAIN blocks' = BlockPcs /\ \A b \in BlockPcs : blocks'[b] = Successors(b)
  BY DEF Lift
<1>5. fn = 0 /\ seen' = {} /\ todo = <<>> /\ rows = {}
  BY DEF FlowInv, Undecided, Lift
<1>6. code' # <<>>
  BY <1>2 DEF FlowInv
<1> QED
  BY <1>1, <1>2, <1>3, <1>4, <1>5, <1>6, Decodings, SuccessorsType

\* Without a dispatcher every block is a row, so nothing leads out of them.
LEMMA NoDispatcherKeeps ==
  ASSUME FlowInv, NoDispatcher
  PROVE  FlowInv'
<1> DEFINE entry == instructions[1].pc
<1>1. /\ Decoded /\ DecodeInv' /\ code' # <<>>
      /\ DOMAIN blocks' = BlockPcs /\ BlockPcs \subseteq Nat
      /\ \A b \in BlockPcs : blocks'[b] \in Seq(BlockPcs)
      /\ fn = 0 /\ seen' = {} /\ todo = <<>> /\ rows = {}
  BY LiftTable DEF NoDispatcher
<1>2. entry \in BlockPcs
  BY <1>1, Decodings
<1>3. /\ phase' = "validate" /\ fn' = 0 /\ todo' = <<>>
      /\ entries' = << <<"fallback", entry>> >>
      /\ rows' = {<<"fallback", b>> : b \in BlockPcs}
  BY <1>1 DEF NoDispatcher
<1> HIDE DEF entry
<1>4. /\ Len(entries') = 1 /\ entries'[1] = <<"fallback", entry>>
      /\ entries'[1][1] = "fallback" /\ entries'[1][2] = entry
  BY <1>3
<1>5. TableOK'
  <2>1. \A n \in 1..Len(entries') : entries'[n] = <<entries'[n][1], entries'[n][2]>>
    <3>1. \A n \in 1..Len(entries') : n = 1
      BY <1>4
    <3>2. entries'[1] = <<entries'[1][1], entries'[1][2]>>
      BY <1>4, Zenon
    <3> QED
      BY <3>1, <3>2, Zenon
  <2>2. Len(entries') \in Nat /\ fn' \in 0..Len(entries')
    BY <1>3, <1>4
  <2> QED
    BY <1>1, <1>3, <2>1, <2>2 DEF TableOK
<1>6. WorkOK' /\ Frontier' /\ Inside' /\ Undecided'
  BY <1>1, <1>3 DEF WorkOK, Frontier, Inside, Undecided
<1>7. RowsClosed'
  <2> SUFFICES ASSUME NEW r \in rows'
               PROVE  /\ r[2] \in DOMAIN blocks'
                      /\ \A c : In(c, blocks'[r[2]]) => <<r[1], c>> \in rows'
    BY DEF RowsClosed, In
  <2>1. PICK b \in BlockPcs : r = <<"fallback", b>>
    BY <1>3
  <2>2. r[1] = "fallback" /\ r[2] = b
    BY <2>1
  <2>3. ASSUME NEW c, In(c, blocks'[b]) PROVE c \in BlockPcs
    BY <1>1, <2>3, Element
  <2> QED
    BY <1>1, <1>3, <2>2, <2>3
<1>8. Collected'
  BY <1>2, <1>3, <1>4 DEF Collected
<1>9. RowsAreReached'
  BY <1>3 DEF RowsAreReached
<1> QED
  BY <1>1, <1>3, <1>5, <1>6, <1>7, <1>8, <1>9 DEF FlowInv, Phases

\* A finite set that is not empty has a first element to count from.
LEMMA SomeDispatcher ==
  ASSUME Decoded, Dispatchers # {}
  PROVE  Cardinality(Dispatchers) \in Nat /\ Cardinality(Dispatchers) >= 1
<1>1. Len(instructions) \in Nat
  BY Decodings
<1>2. IsFiniteSet(Positions)
  BY <1>1, FS_Interval DEF Positions
<1>3. Dispatchers \in SUBSET Positions
  BY DEF Dispatchers
<1>4. IsFiniteSet(Dispatchers)
  BY <1>2, <1>3, FS_Subset
<1>5. Cardinality(Dispatchers) \in Nat
  BY <1>4, FS_CardinalityType
<1>6. Cardinality(Dispatchers) # 0
  BY <1>4, FS_EmptySet
<1> QED
  BY <1>5, <1>6

\* With dispatchers the worklist of the first starts with its entry.
LEMMA DispatcherKeeps ==
  ASSUME FlowInv, Dispatcher
  PROVE  FlowInv'
<1> DEFINE count == Cardinality(Dispatchers)
           entry == EntryOf(Nth(1))[2]
<1>1. /\ Decoded /\ DecodeInv' /\ code' # <<>>
      /\ DOMAIN blocks' = BlockPcs /\ BlockPcs \subseteq Nat
      /\ \A b \in BlockPcs : blocks'[b] \in Seq(BlockPcs)
      /\ seen' = {} /\ rows = {}
  BY LiftTable DEF Dispatcher
<1>2. count \in Nat /\ count >= 1
  BY <1>1, SomeDispatcher DEF Dispatcher
<1>3. /\ phase' = "reach" /\ fn' = 1 /\ todo' = <<entry>> /\ rows' = {}
      /\ entries' = [n \in 1..count |-> EntryOf(Nth(n))]
  BY <1>1 DEF Dispatcher
<1>4. \A i : EntryOf(i) = <<EntryOf(i)[1], EntryOf(i)[2]>>
  BY DEF EntryOf
<1> HIDE DEF count
<1>5. Len(entries') = count
  BY <1>2, <1>3
<1>6. \A n \in 1..count : entries'[n] = EntryOf(Nth(n))
  BY <1>3, Zenon
<1>7. 1 \in 1..count
  BY <1>2
<1>8. entries'[fn'][2] = entry
  BY <1>3, <1>6, <1>7, Zenon
<1> HIDE DEF entry
<1>9. TableOK'
  <2>1. \A n \in 1..Len(entries') : entries'[n] = <<entries'[n][1], entries'[n][2]>>
    BY <1>4, <1>5, <1>6, Zenon
  <2>2. Len(entries') \in Nat /\ fn' \in 0..Len(entries') /\ fn' \in 1..Len(entries')
    BY <1>2, <1>3, <1>5
  <2> QED
    BY <1>1, <2>1, <2>2 DEF TableOK
<1>10. In(entry, todo') /\ \A c : In(c, todo') => c = entry
  BY <1>3, Single
<1>11. WorkOK'
  <2>1. entry \in Names'
    BY <1>8 DEF Names
  <2>2. todo' \in Seq(Names')
    BY <1>3, <2>1
  <2> QED
    BY <1>1, <1>3, <2>2 DEF WorkOK
<1>12. Frontier'
  BY <1>1, <1>8, <1>10 DEF Frontier, In
<1>13. Inside'
  <2> SUFFICES ASSUME NEW S \in SUBSET DOMAIN blocks',
                      {entries'[fn'][2]} \cap DOMAIN blocks' \subseteq S
               PROVE  seen' \subseteq S /\ \A c \in DOMAIN blocks' : In(c, todo') => c \in S
    BY DEF Inside, ClosedOver, In
  <2> QED
    BY <1>1, <1>8, <1>10
<1>14. RowsClosed' /\ RowsAreReached' /\ Undecided'
  BY <1>3 DEF RowsClosed, RowsAreReached, Undecided
<1>15. Collected'
  <2>1. \A n \in 1..Len(entries') : ~(n < fn')
    BY <1>2, <1>3, <1>5
  <2> QED
    BY <1>3, <2>1 DEF Collected
<1> QED
  BY <1>1, <1>3, <1>9, <1>11, <1>12, <1>13, <1>14, <1>15 DEF FlowInv, Phases

\* A turn of the worklist: the block popped is passed over or expanded.
LEMMA VisitKeeps ==
  ASSUME FlowInv, Visit
  PROVE  FlowInv'
<1> DEFINE current == todo[Len(todo)]
           rest == SubSeq(todo, 1, Len(todo) - 1)
           entry == entries[fn][2]
<1>1. /\ phase = "reach" /\ todo # <<>>
      /\ UNCHANGED <<code, pc, instructions, phase, blocks, entries, fn, rows>>
  BY DEF Visit
<1>2. \/ Passes(current) /\ todo' = rest /\ seen' = seen
      \/ ~Passes(current) /\ seen' = seen \cup {current} /\ todo' = rest \o blocks[current]
  BY DEF Visit, Expand
<1>3. /\ TableOK /\ seen \subseteq DOMAIN blocks /\ todo \in Seq(Names)
      /\ Frontier /\ Inside /\ RowsClosed /\ Collected
  BY DEF FlowInv, WorkOK
<1>4. /\ current \in Names /\ rest \in Seq(Names)
      /\ \A x : In(x, todo) <=> x = current \/ In(x, rest)
  <2>1. todo \in Seq(Names) /\ todo # <<>>
    BY <1>1, <1>3
  <2> QED
    BY <2>1, Popped
<1> HIDE DEF current, rest
<1>5. DecodeInv' /\ code' # <<>>
  BY <1>1, DecodeStepInv DEF FlowInv, decoding
<1>6. Names' = Names /\ entry' = entry
  BY <1>1 DEF Names
<1>7. (TableOK /\ RowsClosed /\ Collected /\ Undecided)'
  BY <1>1, <1>3 DEF TableOK, RowsClosed, Collected, Undecided
<1>8. RowsAreReached'
  BY <1>1, SameRows DEF FlowInv
<1>9. (WorkOK /\ Frontier /\ Inside)'
  <2>1. CASE Passes(current) /\ todo' = rest /\ seen' = seen
    <3>1. current \in seen \/ current \notin DOMAIN blocks
      BY <2>1 DEF Passes
    <3>2. WorkOK'
      BY <1>1, <1>3, <1>4, <1>6, <2>1 DEF WorkOK
    <3>3. ASSUME NEW b \in seen, NEW c, In(c, blocks[b]) PROVE c \in seen \/ In(c, rest)
      <4>1. blocks[b] \in Seq(DOMAIN blocks)
        BY <1>3 DEF TableOK
      <4>2. c \in DOMAIN blocks
        BY <3>3, <4>1, Element
      <4> QED
        BY <1>1, <1>3, <1>4, <3>1, <3>3, <4>2 DEF Frontier
    <3>4. entry \in seen \/ In(entry, rest) \/ entry \notin DOMAIN blocks
      BY <1>1, <1>3, <1>4, <3>1 DEF Frontier
    <3>5. Frontier'
      BY <1>1, <1>6, <2>1, <3>3, <3>4 DEF Frontier
    <3>6. Inside'
      BY <1>1, <1>3, <1>4, <2>1 DEF Inside, ClosedOver, Closed, LeadsTo
    <3> QED
      BY <3>2, <3>5, <3>6
  <2>2. CASE /\ ~Passes(current)
             /\ seen' = seen \cup {current} /\ todo' = rest \o blocks[current]
    <3>1. current \in DOMAIN blocks
      BY <2>2 DEF Passes
    <3>2. blocks[current] \in Seq(DOMAIN blocks)
      BY <1>3, <3>1 DEF TableOK
    <3>3. blocks[current] \in Seq(Names)
      BY <3>2 DEF Names
    <3>4. /\ todo' \in Seq(Names)
          /\ \A x : In(x, todo') <=> In(x, rest) \/ In(x, blocks[current])
      BY <1>4, <2>2, <3>3, Joined
    <3>5. WorkOK'
      BY <1>1, <1>3, <1>6, <2>2, <3>1, <3>4 DEF WorkOK
    <3>6. ASSUME NEW b \in seen', NEW c, In(c, blocks[b]) PROVE c \in seen' \/ In(c, todo')
      <4>1. CASE b = current
        BY <3>4, <3>6, <4>1
      <4>2. CASE b \in seen
        BY <1>1, <1>3, <1>4, <2>2, <3>4, <3>6, <4>2 DEF Frontier
      <4> QED
        BY <2>2, <4>1, <4>2
    <3>7. entry \in seen' \/ In(entry, todo') \/ entry \notin DOMAIN blocks
      BY <1>1, <1>3, <1>4, <2>2, <3>4 DEF Frontier
    <3>8. Frontier'
      BY <1>1, <1>6, <3>6, <3>7 DEF Frontier
    <3>9. ASSUME NEW S \in SUBSET DOMAIN blocks, ClosedOver({entry}, S)
          PROVE  seen' \subseteq S /\ \A c \in DOMAIN blocks : In(c, todo') => c \in S
      <4>1. seen \subseteq S /\ \A c \in DOMAIN blocks : In(c, todo) => c \in S
        BY <1>1, <1>3, <3>9 DEF Inside
      <4>2. current \in S
        BY <1>4, <3>1, <4>1
      <4>3. ASSUME NEW c, In(c, blocks[current]) PROVE c \in S
        <5>1. c \in DOMAIN blocks
          BY <3>2, <4>3, Element
        <5>2. LeadsTo(current, c)
          BY <4>3 DEF LeadsTo, In
        <5> QED
          BY <3>9, <4>2, <5>1, <5>2 DEF ClosedOver, Closed
      <4> QED
        BY <1>4, <2>2, <3>4, <4>1, <4>2, <4>3
    <3>10. Inside'
      BY <1>1, <1>6, <3>9 DEF Inside, ClosedOver, Closed, LeadsTo
    <3> QED
      BY <3>5, <3>8, <3>10
  <2> QED
    BY <1>2, <2>1, <2>2
<1> QED
  BY <1>1, <1>5, <1>7, <1>8, <1>9 DEF FlowInv, Phases

\* An empty worklist: seen is closed, so the function's rows are.
LEMMA CollectKeeps ==
  ASSUME FlowInv, Collect
  PROVE  FlowInv'
<1> DEFINE name == entries[fn][1]
           entry == entries[fn][2]
<1>1. /\ phase = "reach" /\ todo = <<>> /\ seen' = {}
      /\ rows' = rows \cup {<<name, b>> : b \in seen}
      /\ UNCHANGED <<code, pc, instructions, blocks, entries>>
  BY DEF Collect, SeenAtStart
<1>2. \/ /\ fn < Len(entries) /\ fn' = fn + 1
         /\ todo' = <<entries[fn + 1][2]>> /\ phase' = phase
      \/ ~(fn < Len(entries)) /\ phase' = "validate" /\ fn' = fn /\ todo' = <<>>
  BY <1>1 DEF Collect
<1>3. /\ TableOK /\ seen \subseteq DOMAIN blocks
      /\ Frontier /\ RowsClosed /\ Collected
  BY DEF FlowInv, WorkOK
<1>4. Len(entries) \in Nat /\ fn \in 1..Len(entries)
  BY <1>1, <1>3 DEF TableOK
<1>5. entries[fn] = <<name, entry>>
  BY <1>3, <1>4 DEF TableOK
<1>6. \A b \in seen : \A c : In(c, blocks[b]) => c \in seen
  BY <1>1, <1>3, Nothing DEF Frontier
<1>7. entry \in DOMAIN blocks => entry \in seen
  BY <1>1, <1>3, Nothing DEF Frontier
<1> HIDE DEF name, entry
<1>8. DecodeInv' /\ code' # <<>>
  BY <1>1, DecodeStepInv DEF FlowInv, decoding
<1>9. RowsClosed'
  <2> SUFFICES ASSUME NEW r \in rows'
               PROVE  /\ r[2] \in DOMAIN blocks
                      /\ \A c : In(c, blocks[r[2]]) => <<r[1], c>> \in rows'
    BY <1>1 DEF RowsClosed
  <2>1. CASE r \in rows
    BY <1>1, <1>3, <2>1 DEF RowsClosed
  <2>2. ASSUME NEW b \in seen, r = <<name, b>>
        PROVE  /\ r[2] \in DOMAIN blocks
               /\ \A c : In(c, blocks[r[2]]) => <<r[1], c>> \in rows'
    <3>1. r[1] = name /\ r[2] = b
      BY <2>2
    <3> QED
      BY <1>1, <1>3, <1>6, <3>1
  <2> QED
    BY <1>1, <2>1, <2>2
<1>10. ASSUME NEW n \in 1..Len(entries), n <= fn, entries[n][2] \in DOMAIN blocks
       PROVE  entries[n] \in rows'
  <2>1. CASE n = fn
    <3>1. entry \in seen
      BY <1>7, <1>10, <2>1 DEF entry
    <3> QED
      BY <1>1, <1>5, <2>1, <3>1
  <2>2. CASE n < fn
    BY <1>1, <1>3, <1>10, <2>2 DEF Collected
  <2> QED
    BY <1>4, <1>10, <2>1, <2>2
<1>11. RowsAreReached'
  <2> SUFFICES ASSUME NEW S \in SUBSET DOMAIN blocks, NEW r \in rows',
                      ClosedOver(EntryBlocks(r[1]), S)
               PROVE  r[2] \in S
    BY <1>1 DEF RowsAreReached, ClosedOver, EntryBlocks, Closed, LeadsTo
  <2>1. CASE r \in rows
    BY <1>4, <2>1 DEF FlowInv, RowsAreReached
  <2>2. ASSUME NEW b \in seen, r = <<name, b>>
        PROVE  r[2] \in S
    <3>1. r[1] = name /\ r[2] = b
      BY <2>2
    <3>2. entry \in EntryBlocks(name)
      BY <1>4 DEF EntryBlocks, entry, name
    <3>3. ClosedOver({entry}, S)
      BY <3>1, <3>2 DEF ClosedOver
    <3>4. seen \subseteq S
      BY <1>1, <3>3 DEF FlowInv, Inside, entry
    <3> QED
      BY <2>2, <3>1, <3>4
  <2> QED
    BY <1>1, <2>1, <2>2
<1>12. CASE /\ fn < Len(entries) /\ fn' = fn + 1
            /\ todo' = <<entries[fn + 1][2]>> /\ phase' = phase
  <2> DEFINE next == entries[fn + 1][2]
  <2>1. fn' \in 1..Len(entries) /\ fn' \in 0..Len(entries)
    BY <1>4, <1>12
  <2>2. entries'[fn'][2] = next /\ todo' = <<next>>
    BY <1>1, <1>12
  <2> HIDE DEF next
  <2>3. In(next, todo') /\ \A c : In(c, todo') => c = next
    BY <2>2, Single
  <2>4. TableOK'
    BY <1>1, <1>3, <2>1 DEF TableOK
  <2>5. WorkOK'
    <3>1. next \in Names'
      BY <2>2 DEF Names
    <3>2. todo' \in Seq(Names')
      BY <2>2, <3>1
    <3> QED
      BY <1>1, <1>12, <3>2 DEF WorkOK
  <2>6. Frontier'
    BY <1>1, <2>2, <2>3 DEF Frontier, In
  <2>7. Inside'
    <3> SUFFICES ASSUME NEW S \in SUBSET DOMAIN blocks',
                        {entries'[fn'][2]} \cap DOMAIN blocks' \subseteq S
                 PROVE  seen' \subseteq S /\ \A c \in DOMAIN blocks' : In(c, todo') => c \in S
      BY DEF Inside, ClosedOver, In
    <3> QED
      BY <1>1, <2>2, <2>3
  <2>8. Collected'
    <3>1. \A n \in 1..Len(entries) : n < fn' => n <= fn
      BY <1>4, <1>12
    <3> QED
      BY <1>1, <1>10, <1>12, <3>1 DEF Collected
  <2> QED
    BY <1>1, <1>8, <1>9, <1>12, <1>11, <2>4, <2>5, <2>6, <2>7, <2>8
    DEF FlowInv, Phases, Undecided
<1>13. CASE /\ ~(fn < Len(entries))
            /\ phase' = "validate" /\ fn' = fn /\ todo' = <<>>
  <2>1. TableOK'
    BY <1>1, <1>3, <1>13 DEF TableOK
  <2>2. WorkOK'
    BY <1>1, <1>13 DEF WorkOK
  <2>3. Frontier' /\ Inside' /\ Undecided'
    BY <1>13 DEF Frontier, Inside, Undecided
  <2>4. Collected'
    <3>1. \A n \in 1..Len(entries) : n <= fn
      BY <1>4, <1>13
    <3> QED
      BY <1>1, <1>10, <3>1 DEF Collected
  <2> QED
    BY <1>1, <1>8, <1>9, <1>13, <1>11, <2>1, <2>2, <2>3, <2>4 DEF FlowInv, Phases
<1> QED
  BY <1>2, <1>12, <1>13

LEMMA ValidateKeeps ==
  ASSUME FlowInv, Validate
  PROVE  FlowInv'
<1>1. /\ phase = "validate" /\ UNCHANGED <<code, pc, instructions, blocks, entries, fn, seen, todo, rows>>
      /\ phase' \in {"build", "bad_relations"}
      /\ phase' = "build" => EntriesKnown
  BY DEF Validate
<1>2. DecodeInv'
  BY <1>1, DecodeStepInv DEF FlowInv, decoding
<1>3. (/\ TableOK /\ WorkOK /\ Frontier /\ Inside /\ RowsClosed /\ Collected /\ Undecided
       /\ RowsAreReached)'
  BY <1>1, SameRows DEF FlowInv, TableOK, WorkOK, Names, Frontier, Inside, RowsClosed, Collected,
                        Undecided
<1>4. phase' = "build" => EntriesKnown'
  BY <1>1 DEF EntriesKnown
<1> QED
  BY <1>1, <1>2, <1>3, <1>4 DEF FlowInv, Phases, Ended

\* Relations that passed are accepted by the IR models: a function owns the
\* block of each of its entries and all that those lead to.
LEMMA BuildAccepts ==
  ASSUME FlowInv, phase = "build"
  PROVE  ModelsAccept
<1>1. /\ TableOK /\ RowsClosed /\ EntriesKnown
      /\ \A n \in 1..Len(entries) : entries[n] \in rows
  BY DEF FlowInv, Collected, EntriesKnown
<1>2. \A n \in 1..Len(entries) : entries[n] = <<entries[n][1], entries[n][2]>>
  BY <1>1 DEF TableOK
<1> SUFFICES ASSUME NEW f \in Functions
             PROVE  /\ Members(f) # {}
                    /\ \A b \in Members(f) :
                          Branches(b) => \A i \in 1..2 : blocks[b][i] \in Members(f)
  BY DEF ModelsAccept
<1>3. ASSUME NEW n \in 1..Len(entries), entries[n][1] = f
      PROVE  <<f, entries[n][2]>> \in rows /\ entries[n][2] \in DOMAIN blocks
  BY <1>1, <1>2, <1>3 DEF EntriesKnown
<1>4. Members(f) # {}
  <2>1. PICK n \in 1..Len(entries) : entries[n][1] = f
    BY DEF Functions
  <2> QED
    BY <1>3, <2>1 DEF Members
<1>5. ASSUME NEW b \in Members(f), Branches(b), NEW i \in 1..2
      PROVE  blocks[b][i] \in Members(f)
  <2>1. b \in DOMAIN blocks /\ <<f, b>> \in rows
    <3>1. CASE <<f, b>> \in rows
      BY <3>1 DEF Members
    <3>2. CASE IsEntry(f, b)
      BY <1>3, <3>2 DEF Members, IsEntry, EntryBlocks
    <3> QED
      BY <3>1, <3>2 DEF Members
  <2>2. Len(blocks[b]) = 2 /\ blocks[b] \in Seq(DOMAIN blocks)
    BY <1>1, <1>5, <2>1 DEF Branches, TableOK
  <2>3. blocks[b][i] \in DOMAIN blocks /\ In(blocks[b][i], blocks[b])
    BY <2>2, ElementOfSeq DEF In
  <2>4. \A c : In(c, blocks[b]) => <<f, c>> \in rows
    <3> DEFINE r == <<f, b>>
    <3>1. r \in rows /\ r[1] = f /\ r[2] = b
      BY <2>1
    <3> HIDE DEF r
    <3> QED
      BY <1>1, <3>1 DEF RowsClosed
  <2> QED
    BY <2>3, <2>4 DEF Members
<1> QED
  BY <1>4, <1>5

LEMMA BuildKeeps ==
  ASSUME FlowInv, Build
  PROVE  FlowInv'
<1>1. /\ phase = "build" /\ UNCHANGED <<code, pc, instructions, blocks, entries, fn, seen, todo, rows>>
      /\ phase' = "built"
  BY BuildAccepts DEF Build
<1>2. DecodeInv'
  BY <1>1, DecodeStepInv DEF FlowInv, decoding
<1>3. (/\ TableOK /\ WorkOK /\ Frontier /\ Inside /\ RowsClosed /\ Collected /\ Undecided
       /\ RowsAreReached)'
  BY <1>1, SameRows DEF FlowInv, TableOK, WorkOK, Names, Frontier, Inside, RowsClosed, Collected,
                        Undecided
<1> QED
  BY <1>1, <1>2, <1>3 DEF FlowInv, Phases, Ended

LEMMA StepInv == FlowInv /\ [Next]_vars => FlowInv'
<1> SUFFICES ASSUME FlowInv, [Next]_vars PROVE FlowInv'
  OBVIOUS
<1> QED
  BY DecodeKeeps, NoDispatcherKeeps, DispatcherKeeps, VisitKeeps, CollectKeeps, ValidateKeeps,
     BuildKeeps
  DEF Next

LEMMA Invariant == Spec => []FlowInv
  BY InitInv, StepInv, PTL DEF Spec

-----------------------------------------------------------------------------
(* The block table stays what the code makes of it.                        *)

TableKept ==
    /\ phase # "decode" => Decoded /\ blocks = [b \in BlockPcs |-> Successors(b)]
    /\ \A r \in rows : \E n \in 1..Len(entries) : entries[n][1] = r[1]
    /\ phase = "bad_relations" => ~(EntriesKnown /\ RowsKnown)

LEMMA TableInit == Init => TableKept
  BY DEF Init, TableKept

\* What the code makes of it does not change with the rest of the state.
LEMMA SameTable ==
  ASSUME FlowInv, UNCHANGED <<code, pc, instructions>>
  PROVE  /\ Decoded => Decoded'
         /\ [b \in BlockPcs |-> Successors(b)]' = [b \in BlockPcs |-> Successors(b)]
<1>1. DecodeInv'
  BY DecodeStepInv DEF FlowInv, decoding
<1>2. Decoded => Decoded'
  BY <1>1 DEF Decoded
<1>3. [b \in BlockPcs |-> Successors(b)]' = [b \in BlockPcs |-> Successors(b)]
  BY DEF Successors, NextBlock, JumpTarget, Target, Pushes, IsPush, HasOperand, Operand,
         BigEndian, Body, First, Positions, Final, EndsAt, Leads, BlockPcs, Leaders
<1> QED
  BY <1>2, <1>3

LEMMA TableStep == FlowInv /\ TableKept /\ [Next]_vars => TableKept'
<1> SUFFICES ASSUME FlowInv, TableKept, [Next]_vars PROVE TableKept'
  OBVIOUS
<1>1. CASE [DecodeStep]_vars
  <2>1. UNCHANGED flow
    BY <1>1 DEF DecodeStep, vars, flow
  <2>2. phase = "decode" \/ UNCHANGED <<code, pc, instructions>>
    BY <1>1 DEF DecodeStep, vars
  <2> QED
    BY <2>1, <2>2, SameTable DEF flow, TableKept, EntriesKnown, RowsKnown
<1>2. CASE NoDispatcher \/ Dispatcher
  <2>1. Lift /\ phase' \in {"reach", "validate"}
    BY <1>2 DEF NoDispatcher, Dispatcher
  <2>2. Decoded /\ UNCHANGED <<code, pc, instructions>> /\ rows = {}
    BY <2>1, LiftTable
  <2>3. blocks' = [b \in BlockPcs |-> Successors(b)]
    BY <2>1 DEF Lift
  <2>4. Decoded' /\ blocks' = [b \in BlockPcs |-> Successors(b)]'
    BY <2>2, <2>3, SameTable
  <2>5. \A r \in rows' : \E n \in 1..Len(entries') : entries'[n][1] = r[1]
    <3>1. CASE NoDispatcher
      <4>1. /\ rows' = {<<"fallback", b>> : b \in BlockPcs}
            /\ entries' = << <<"fallback", instructions[1].pc>> >>
        BY <3>1 DEF NoDispatcher
      <4>2. Len(entries') = 1 /\ entries'[1][1] = "fallback"
        BY <4>1
      <4> QED
        BY <4>1, <4>2
    <3>2. CASE Dispatcher
      BY <2>2, <3>2 DEF Dispatcher
    <3> QED
      BY <1>2, <3>1, <3>2
  <2> QED
    BY <2>1, <2>4, <2>5 DEF TableKept
<1>3. CASE Visit
  <2>1. /\ phase = "reach" /\ UNCHANGED <<code, pc, instructions>>
        /\ UNCHANGED <<phase, blocks, entries, rows>>
    BY <1>3 DEF Visit
  <2> QED
    BY <2>1, SameTable DEF TableKept
<1>4. CASE Collect
  <2>1. /\ phase = "reach" /\ phase' \in {"reach", "validate"}
        /\ UNCHANGED <<code, pc, instructions>> /\ UNCHANGED <<blocks, entries>>
        /\ rows' = rows \cup {<<entries[fn][1], b>> : b \in seen}
    BY <1>4 DEF Collect
  <2>2. fn \in 1..Len(entries)
    BY <2>1 DEF FlowInv, TableOK
  <2>3. \A r \in rows' : \E n \in 1..Len(entries') : entries'[n][1] = r[1]
    BY <2>1, <2>2 DEF TableKept
  <2> QED
    BY <2>1, <2>3, SameTable DEF TableKept
<1>5. CASE Validate \/ Build
  <2>1. /\ phase \in {"validate", "build"} /\ phase' # "decode"
        /\ UNCHANGED <<code, pc, instructions>> /\ UNCHANGED <<blocks, entries, rows>>
        /\ phase' = "bad_relations" => ~(EntriesKnown /\ RowsKnown)
    BY <1>5 DEF Validate, Build
  <2> QED
    BY <2>1, SameTable DEF TableKept, EntriesKnown, RowsKnown
<1> QED
  BY <1>1, <1>2, <1>3, <1>4, <1>5 DEF Next

LEMMA TableInvariant == Spec => [](FlowInv /\ TableKept)
<1>1. Init => FlowInv /\ TableKept
  BY InitInv, TableInit
<1>2. FlowInv /\ TableKept /\ [Next]_vars => FlowInv' /\ TableKept'
  BY StepInv, TableStep
<1> QED
  BY <1>1, <1>2, PTL DEF Spec

\* A block starts at an instruction that leads.
LEMMA FirstLeads ==
  ASSUME Decoded, NEW b \in BlockPcs
  PROVE  Leads(First(b))
<1>1. PICK i \in Positions : Leads(i) /\ instructions[i].pc = b
  BY DEF BlockPcs, Leaders
<1>2. First(b) \in Positions /\ instructions[First(b)].pc = b
  BY FinalOf
<1>3. \A j, k \in Positions : j < k => instructions[j].pc < instructions[k].pc
  BY DEF Decoded, DecodeInv, Faithful, Positions
<1>4. Len(instructions) \in Nat /\ b \in Nat
  BY Decodings
<1>5. i = First(b)
  <2> DEFINE j == First(b)
  <2>1. i \in 1..Len(instructions) /\ j \in 1..Len(instructions)
    BY <1>2 DEF Positions
  <2>2. ~(i < j) /\ ~(j < i)
    BY <1>1, <1>2, <1>3, <1>4
  <2> HIDE DEF j
  <2>3. i = j
    BY <1>4, <2>1, <2>2
  <2> QED
    BY <2>3 DEF j
<1> QED
  BY <1>1, <1>5

\* A destination the EVM accepts is where a block starts.
LEMMA JumpdestLeads ==
  ASSUME Decoded, NEW d, ValidJumpdest(d)
  PROVE  d \in BlockPcs
<1>1. d \in {p \in 0..(Len(code) - 1) : ValidJumpdest(p)}
  BY DEF ValidJumpdest
<1>2. JumpdestsExact /\ pc = Len(code)
  BY JumpdestsFound DEF Decoded
<1>3. PICK i \in 1..Len(instructions) :
          instructions[i].opcode = JUMPDEST /\ instructions[i].pc = d
  BY <1>1, <1>2 DEF JumpdestsExact
<1> QED
  BY <1>3 DEF BlockPcs, Leaders, Leads, Positions

\* Only the last instruction of a block ends it, and only the first is a
\* destination.
LEMMA BasicBlock ==
  ASSUME Decoded, NEW b \in BlockPcs, NEW i \in Body(b)
  PROVE  /\ instructions[i].opcode = JUMPDEST => i = First(b)
         /\ instructions[i].opcode \in Terminators => i = Final(b)
<1> DEFINE f == First(b)  l == Final(b)
<1>1. /\ f \in 1..Len(instructions) /\ l \in 1..Len(instructions) /\ Len(instructions) \in Nat
      /\ \A j \in f..(l - 1) : ~Leads(j + 1)
  BY FinalOf, Decodings DEF Positions, EndsAt
<1>2. i \in f..l
  BY DEF Body
<1> HIDE DEF f, l
<1>3. ASSUME instructions[i].opcode = JUMPDEST, i # f PROVE FALSE
  <2>1. i - 1 \in f..(l - 1) /\ (i - 1) + 1 = i
    BY <1>1, <1>2, <1>3
  <2>2. ~Leads(i)
    BY <1>1, <2>1
  <2> QED
    BY <1>3, <2>2 DEF Leads
<1>4. ASSUME instructions[i].opcode \in Terminators, i # l PROVE FALSE
  <2>1. i \in f..(l - 1) /\ i + 1 > 1 /\ (i + 1) - 1 = i
    BY <1>1, <1>2, <1>4
  <2>2. ~Leads(i + 1)
    BY <1>1, <2>1
  <2> QED
    BY <1>4, <2>1, <2>2 DEF Leads
<1> QED
  BY <1>3, <1>4 DEF f, l

\* The jump after a push takes that push's operand for its target.
LEMMA TargetOfJump ==
  ASSUME Decoded, NEW b \in BlockPcs, NEW d, JumpsTo(Final(b), d)
  PROVE  JumpTarget(b) = <<d>>
<1> DEFINE l == Final(b)  f == First(b)
<1>1. /\ l \in 1..Len(instructions) /\ f \in 1..Len(instructions) /\ Len(instructions) \in Nat
      /\ f <= l
  BY FinalOf, Decodings DEF Positions, EndsAt
<1>2. /\ instructions[l].opcode \in {JUMP, JUMPI} /\ l > 1 /\ HasOperand(l - 1)
      /\ instructions[l - 1].opcode # PUSH0 /\ Operand(l - 1) = d /\ ValidJumpdest(d)
  BY DEF JumpsTo
<1>3. l # f
  <2>1. ASSUME l = f PROVE FALSE
    <3>1. Leads(l)
      BY <2>1, FirstLeads
    <3>2. instructions[l - 1].opcode \in PUSH0..PUSH32
      <4> HIDE DEF l
      <4>1. l - 1 \in 1..Len(instructions)
        BY <1>1, <1>2
      <4> QED
        BY <1>2, <4>1 DEF HasOperand, Decoded, DecodeInv, Faithful
    <3> QED
      BY <1>2, <3>1, <3>2 DEF Leads, Terminators, STOP, JUMP, JUMPI, RETURN, REVERT, INVALID,
                              SELFDESTRUCT, JUMPDEST, PUSH0, PUSH32
  <2> QED
    BY <2>1
<1>4. Body(b) = f..l
  BY DEF Body
<1> DEFINE Push(i) == Pushes(b, i)
<1>5. \A i : Push(i) <=> /\ IsPush(i) /\ i \in f..l /\ i # l
                         /\ \A j \in (i + 1)..(l - 1) : ~IsPush(j)
  BY <1>4 DEF Pushes
<1> HIDE DEF l, f, Push
<1>6. l - 1 \in 1..Len(instructions) /\ l - 1 \in f..l /\ l - 1 # l
  BY <1>1, <1>2, <1>3
<1>7. IsPush(l - 1)
  <2>1. instructions[l - 1].opcode \in PUSH0..PUSH32
    BY <1>2, <1>6 DEF HasOperand, Decoded, DecodeInv, Faithful
  <2> QED
    BY <1>2, <2>1 DEF IsPush, PUSH0, PUSH1, PUSH32
<1>8. Push(l - 1)
  <2>1. \A j \in ((l - 1) + 1)..(l - 1) : FALSE
    BY <1>1
  <2> QED
    BY <1>5, <1>6, <1>7, <2>1
<1>9. ASSUME NEW i, Push(i) PROVE i = l - 1
  <2>1. i \in f..l /\ i # l
    BY <1>5, <1>9
  <2>2. CASE i < l - 1
    <3>1. l - 1 \in (i + 1)..(l - 1)
      BY <1>1, <2>1, <2>2
    <3> QED
      BY <1>5, <1>7, <1>9, <3>1
  <2> QED
    BY <1>1, <2>1, <2>2
<1>10. d \in BlockPcs
  BY <1>2, JumpdestLeads
<1>11. Target(b) = {d}
  <2>1. l - 1 \in Positions
    BY <1>6 DEF Positions
  <2>2. {j \in Positions : Push(j)} = {l - 1}
    BY <1>8, <1>9, <2>1
  <2>3. Target(b) = {Operand(i) : i \in {j \in Positions : Push(j)}} \cap BlockPcs
    BY DEF Target, Push
  <2> QED
    BY <1>2, <1>10, <2>2, <2>3
<1>12. instructions[Final(b)].opcode \in {JUMP, JUMPI}
  BY <1>2 DEF l
<1> QED
  BY <1>11, <1>12 DEF JumpTarget

\* A block leads where its last instruction jumps or falls through to.
LEMMA EdgeOf ==
  ASSUME Decoded, NEW b \in BlockPcs, NEW d,
         JumpsTo(Final(b), d) \/ FallsThrough(Final(b), d)
  PROVE  In(d, Successors(b))
<1>1. In(d, JumpTarget(b)) \/ In(d, NextBlock(b))
  <2>1. CASE JumpsTo(Final(b), d)
    BY <2>1, TargetOfJump, Single
  <2>2. CASE FallsThrough(Final(b), d)
    <3>1. NextBlock(b) = <<d>>
      BY <2>2 DEF FallsThrough, NextBlock
    <3> QED
      BY <3>1, Single
  <2> QED
    BY <2>1, <2>2
<1>2. JumpTarget(b) \in Seq(BlockPcs)
  <2>1. CASE Target(b) # {}
    <3>1. (CHOOSE target \in Target(b) : TRUE) \in BlockPcs
      BY <2>1 DEF Target
    <3> QED
      BY <3>1 DEF JumpTarget
  <2>2. CASE Target(b) = {}
    BY <2>2 DEF JumpTarget
  <2> QED
    BY <2>1, <2>2
<1>3. NextBlock(b) \in Seq(BlockPcs)
  BY FinalOf DEF NextBlock
<1> QED
  BY <1>1, <1>2, <1>3, Joined DEF Successors

-----------------------------------------------------------------------------
(* What it implies.                                                        *)

\* The variables have their types throughout the lift.
THEOREM TypeCorrect == Spec => []TypeOK
<1>1. FlowInv => TypeOK
  <2> SUFFICES ASSUME FlowInv PROVE TypeOK
    OBVIOUS
  <2>1. todo \in Seq(Names)
    BY DEF FlowInv, WorkOK
  <2>2. \A i \in 1..Len(todo) : todo[i] \in Names
    BY <2>1, ElementOfSeq
  <2>3. \A i \in 1..Len(todo) : todo[i] \in DOMAIN blocks \/ todo[i] = entries[fn][2]
    BY <2>2 DEF Names
  <2> QED
    BY <2>3 DEF FlowInv, TypeOK, DecodeInv, TableOK, WorkOK, RowsClosed
<1> QED
  BY <1>1, Invariant, PTL

\* No byte of the code is read twice or skipped, and only the last instruction
\* can be a truncated PUSH (parser.py:102-121).
THEOREM DecodingTiles == Spec => []TilesExactly
<1>1. FlowInv => TilesExactly
  BY DEF FlowInv, DecodeInv, TilesExactly
<1> QED
  BY <1>1, Invariant, PTL

\* _reachable collects only what the entry reaches (builtin.py:36-45), and all of
\* it: a function owns whatever its blocks lead to.
THEOREM OwnershipIsExact == Spec => []OwnsExactly
<1>1. FlowInv => SeenIsReached /\ RowsAreReached
  BY DEF FlowInv, Inside, SeenIsReached
<1>2. FlowInv => MembershipIsClosed
  <2> SUFFICES ASSUME FlowInv PROVE MembershipIsClosed
    OBVIOUS
  <2>1. \A r \in rows : \A c \in DOMAIN blocks : LeadsTo(r[2], c) => <<r[1], c>> \in rows
    BY DEF FlowInv, RowsClosed, LeadsTo, In
  <2>2. phase \in {"validate", "build"} \cup Ended =>
          \A n \in 1..Len(entries) : entries[n][2] \in DOMAIN blocks => entries[n] \in rows
    BY DEF FlowInv, Collected, Ended
  <2> QED
    BY <2>1, <2>2 DEF MembershipIsClosed
<1>3. FlowInv => OwnsExactly
  BY <1>1, <1>2 DEF OwnsExactly
<1> QED
  BY <1>3, Invariant, PTL

\* The lift decodes as disassemble does, and does nothing to what is decoded
\* (builtin.py:160-162): what is true of Disassembler is true of it.
THEOREM LiftingDecodes == Spec => DecodeSpec
<1>1. Init => DecodeInit
  BY DEF Init
<1>2. [Next]_vars => [Decode]_decoding
  BY DEF Next, DecodeStep, NoDispatcher, Dispatcher, Lift, Visit, Collect, Validate, Build,
         vars, decoding
<1> QED
  BY <1>1, <1>2, PTL DEF Spec, DecodeSpec

\* The IR models never refuse relations the boundary check let through
\* (relations.py:60-138, models/ir.py).
THEOREM NoLateRefusals == Spec => []NoLateRefusal
<1>1. FlowInv => NoLateRefusal
  BY DEF FlowInv, NoLateRefusal
<1> QED
  BY <1>1, Invariant, PTL

\* The destinations the lifter sees are those of the EVM (parser.py:100-121).
THEOREM JumpdestsAreExact == Spec => []JumpdestsExact
<1>1. FlowInv => JumpdestsExact
  BY JumpdestsFound DEF FlowInv
<1> QED
  BY <1>1, Invariant, PTL

\* A block is entered at its first instruction and left at its last
\* (parser.py:128-171).
THEOREM BlocksAreAllBasic == Spec => []BlocksAreBasic
<1>1. FlowInv /\ TableKept => BlocksAreBasic
  <2> SUFFICES ASSUME FlowInv, TableKept, NEW b \in DOMAIN blocks, NEW i \in Body(b)
               PROVE  /\ instructions[i].opcode = JUMPDEST => i = First(b)
                      /\ instructions[i].opcode \in Terminators => i = Final(b)
    BY DEF BlocksAreBasic
  <2>1. Decoded /\ b \in BlockPcs
    BY DEF FlowInv, Undecided, TableKept
  <2> QED
    BY <2>1, BasicBlock
<1> QED
  BY <1>1, TableInvariant, PTL

\* A block has an edge to where a jump after a push of a valid destination goes,
\* and to what it falls through to (parser.py:150-168).
THEOREM EdgesAreComplete == Spec => []StaticEdgesPresent
<1>1. FlowInv /\ TableKept => StaticEdgesPresent
  <2> SUFFICES ASSUME FlowInv, TableKept, NEW b \in DOMAIN blocks, NEW d \in 0..(Len(code) - 1),
                      JumpsTo(Final(b), d) \/ FallsThrough(Final(b), d)
               PROVE  LeadsTo(b, d)
    BY DEF StaticEdgesPresent
  <2>1. Decoded /\ b \in BlockPcs /\ blocks[b] = Successors(b)
    BY DEF FlowInv, Undecided, TableKept
  <2>2. In(d, Successors(b))
    BY <2>1, EdgeOf
  <2> QED
    BY <2>1, <2>2 DEF LeadsTo, In
<1> QED
  BY <1>1, TableInvariant, PTL

\* A program whose dispatcher entries are all valid destinations passes both
\* checks (builtin.py:12-33, relations.py:60-138).
THEOREM DispatchersAreAccepted == Spec => []RealDispatchersAccepted
<1>1. FlowInv /\ TableKept => RealDispatchersAccepted
  <2> SUFFICES ASSUME FlowInv, TableKept, phase = "bad_relations"
               PROVE  \E n \in 1..Len(entries) : ~ValidJumpdest(entries[n][2])
    BY DEF FlowInv, RealDispatchersAccepted
  <2>1. Decoded /\ DOMAIN blocks = BlockPcs /\ ~(EntriesKnown /\ RowsKnown)
    BY DEF TableKept
  <2>2. RowsKnown
    BY DEF FlowInv, RowsClosed, TableKept, RowsKnown
  <2>3. PICK n \in 1..Len(entries) : entries[n][2] \notin BlockPcs
    BY <2>1, <2>2 DEF EntriesKnown
  <2> QED
    BY <2>1, <2>3, JumpdestLeads
<1> QED
  BY <1>1, TableInvariant, PTL

-----------------------------------------------------------------------------
(* What is left of termination without fairness: a worklist has only so    *)
(* many turns.                                                             *)

\* A turn passes a block over or adds at most two and takes one that was not
\* seen yet.
TurnsLeft == Len(todo) + 2 * Cardinality(DOMAIN blocks \ seen)

LEMMA BlocksAreFinite ==
  ASSUME Decoded
  PROVE  IsFiniteSet(BlockPcs)
<1>1. Len(code) \in Nat
  BY DEF Decoded, DecodeInv, DecodeTypeOK
<1>2. IsFiniteSet(0..Len(code))
  BY <1>1, FS_Interval
<1>3. \A i \in Positions : instructions[i].pc \in Nat /\ instructions[i].pc < Len(code)
  BY Decodings DEF Decoded, DecodeInv, Faithful, Positions, Instructions
<1>4. BlockPcs \in SUBSET (0..Len(code))
  BY <1>1, <1>3 DEF BlockPcs, Leaders
<1> QED
  BY <1>2, <1>4, FS_Subset

LEMMA AtMostOne ==
  ASSUME NEW S, NEW x \in S, NEW s, s = <<>> \/ s = <<x>>
  PROVE  s \in Seq(S) /\ Len(s) \in 0..1
<1>1. CASE s = <<>>
  BY <1>1
<1>2. CASE s = <<x>>
  BY <1>2
<1> QED
  BY <1>1, <1>2

LEMMA TwoSuccessors ==
  ASSUME NEW b
  PROVE  Len(Successors(b)) \in 0..2
<1> DEFINE J == JumpTarget(b)
           N == NextBlock(b)
           S == {J[1], N[1]}
<1>1. J = <<>> \/ J = <<J[1]>>
  <2>1. J = <<>> \/ \E t : J = <<t>>
    BY DEF JumpTarget
  <2> QED
    BY <2>1
<1>2. N = <<>> \/ N = <<N[1]>>
  <2>1. N = <<>> \/ \E n : N = <<n>>
    BY DEF NextBlock
  <2> QED
    BY <2>1
<1>3. Successors(b) \in {N, J \o N}
  BY DEF Successors
<1> HIDE DEF J, N
<1>4. J \in Seq(S) /\ Len(J) \in 0..1
  BY <1>1, AtMostOne
<1>5. N \in Seq(S) /\ Len(N) \in 0..1
  BY <1>2, AtMostOne
<1> HIDE DEF S
<1>6. Len(J \o N) = Len(J) + Len(N)
  BY <1>4, <1>5, ConcatProperties
<1>7. Len(N) \in 0..2 /\ Len(J \o N) \in 0..2
  <2>1. PICK j \in 0..1, n \in 0..1 : j = Len(J) /\ n = Len(N)
    BY <1>4, <1>5
  <2>2. j + n \in 0..2 /\ n \in 0..2
    OBVIOUS
  <2> QED
    BY <1>6, <2>1, <2>2
<1> QED
  BY <1>3, <1>7

LEMMA TurnDescends ==
  ASSUME FlowInv, TableKept, phase = "reach"
  PROVE  /\ TurnsLeft \in Nat
         /\ Visit => TurnsLeft' \in Nat /\ TurnsLeft' < TurnsLeft
<1>1. /\ Decoded /\ blocks = [b \in BlockPcs |-> Successors(b)]
      /\ todo \in Seq(Names) /\ \A b \in DOMAIN blocks : blocks[b] \in Seq(DOMAIN blocks)
  BY DEF FlowInv, WorkOK, TableOK, TableKept
<1> DEFINE unseen == DOMAIN blocks \ seen
<1>2. IsFiniteSet(unseen) /\ Cardinality(unseen) \in Nat /\ Len(todo) \in Nat
  BY <1>1, BlocksAreFinite, FS_Subset, FS_CardinalityType
<1>3. ASSUME Visit
      PROVE  TurnsLeft' \in Nat /\ TurnsLeft' < TurnsLeft
  <2> DEFINE current == todo[Len(todo)]
             rest == SubSeq(todo, 1, Len(todo) - 1)
  <2>1. /\ blocks' = blocks /\ todo # <<>>
        /\ \/ Passes(current) /\ todo' = rest /\ seen' = seen
           \/ /\ ~Passes(current) /\ seen' = seen \cup {current}
              /\ todo' = rest \o blocks[current]
    BY <1>3 DEF Visit, Expand
  <2>2. rest \in Seq(Names) /\ Len(rest) = Len(todo) - 1 /\ Len(todo) >= 1
    BY <1>1, <1>2, <2>1, Popped
  <2> HIDE DEF current, rest
  <2>3. CASE Passes(current) /\ todo' = rest /\ seen' = seen
    BY <1>2, <2>1, <2>2, <2>3 DEF TurnsLeft
  <2>4. CASE /\ ~Passes(current) /\ seen' = seen \cup {current}
             /\ todo' = rest \o blocks[current]
    <3>1. current \in unseen
      BY <2>4 DEF Passes
    <3>2. (DOMAIN blocks \ seen)' = unseen \ {current}
      BY <2>1, <2>4
    <3>3. /\ Cardinality((DOMAIN blocks \ seen)') = Cardinality(unseen) - 1
          /\ Cardinality((DOMAIN blocks \ seen)') \in Nat
      BY <1>2, <3>1, <3>2, FS_RemoveElement, FS_CardinalityType
    <3>4. /\ blocks[current] \in Seq(Names) /\ Len(blocks[current]) \in 0..2
      <4>1. blocks[current] \in Seq(DOMAIN blocks)
        BY <1>1, <3>1
      <4>2. blocks[current] \in Seq(Names)
        BY <4>1 DEF Names
      <4>3. blocks[current] = Successors(current)
        BY <1>1, <3>1
      <4> QED
        BY <4>2, <4>3, TwoSuccessors
    <3>5. Len(todo') = Len(rest) + Len(blocks[current])
      BY <2>2, <2>4, <3>4, ConcatProperties
    <3> HIDE DEF unseen
    <3>6. PICK k \in Nat, l \in Nat, m \in 0..2 :
             k = Cardinality(unseen) /\ l = Len(todo) /\ m = Len(blocks[current])
      BY <1>2, <3>4
    <3>7. Len(todo') = l - 1 + m /\ Cardinality((DOMAIN blocks \ seen)') = k - 1
      BY <2>2, <3>3, <3>5, <3>6
    <3>8. TurnsLeft = l + 2 * k
      BY <3>6 DEF TurnsLeft, unseen
    <3>9. TurnsLeft' = (l - 1 + m) + 2 * (k - 1)
      BY <3>7 DEF TurnsLeft
    <3>10. k - 1 \in Nat /\ l - 1 + m \in Nat
      BY <2>2, <3>3, <3>6
    <3>11. 2 * (k - 1) \in Nat /\ (l - 1 + m) + 2 * (k - 1) < l + 2 * k
      BY <3>10
    <3> QED
      BY <3>8, <3>9, <3>10, <3>11
  <2> QED
    BY <2>1, <2>3, <2>4
<1> QED
  BY <1>2, <1>3 DEF TurnsLeft

\* Whatever loops the code has, each turn of a worklist brings it closer to
\* its end, it has at most one more than twice as many as there are blocks, and
\* an empty one gives way to the next entry's or to the checks
\* (builtin.py:36-45, 296-301).
WorklistsDescend ==
  [][ /\ Visit => TurnsLeft' \in Nat /\ TurnsLeft' < TurnsLeft
      /\ (Dispatcher \/ Collect) /\ phase' = "reach" =>
            TurnsLeft' = 1 + 2 * Cardinality(DOMAIN blocks)'
      /\ Collect /\ phase' = "reach" => fn' = fn + 1 /\ fn' <= Len(entries) ]_vars

THEOREM WorklistsAreBounded == Spec => WorklistsDescend
<1>1. ASSUME FlowInv, TableKept, Dispatcher \/ Collect, phase' = "reach"
      PROVE  TurnsLeft' = 1 + 2 * Cardinality(DOMAIN blocks)'
  <2>1. seen' = {} /\ \E e : todo' = <<e>>
    <3>1. CASE Dispatcher
      BY <1>1, <3>1, LiftTable DEF Dispatcher
    <3>2. CASE Collect
      BY <1>1, <3>2 DEF Collect, SeenAtStart
    <3> QED
      BY <1>1, <3>1, <3>2
  <2>2. Len(todo') = 1 /\ (DOMAIN blocks \ seen)' = DOMAIN blocks'
    BY <2>1
  <2> QED
    BY <2>2 DEF TurnsLeft
<1>2. ASSUME FlowInv, Collect, phase' = "reach"
      PROVE  fn' = fn + 1 /\ fn' <= Len(entries)
  BY <1>2 DEF Collect, FlowInv, TableOK
<1>3. FlowInv /\ TableKept /\ [Next]_vars =>
        [ /\ Visit => TurnsLeft' \in Nat /\ TurnsLeft' < TurnsLeft
          /\ (Dispatcher \/ Collect) /\ phase' = "reach" =>
                TurnsLeft' = 1 + 2 * Cardinality(DOMAIN blocks)'
          /\ Collect /\ phase' = "reach" => fn' = fn + 1 /\ fn' <= Len(entries) ]_vars
  <2>1. Visit => phase = "reach"
    BY DEF Visit
  <2> QED
    BY <1>1, <1>2, <2>1, TurnDescends
<1> QED
  BY <1>3, TableInvariant, PTL DEF Spec, WorklistsDescend

=============================================================================
