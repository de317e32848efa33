------------------------- MODULE AnnotationsProofs ---------------------------
(***************************************************************************)
(* What holds of every contract, every limit and every proposal: the       *)
(* context accounts for what it leaves out, and what was accepted of its   *)
(* answer stays with the function it is about.                             *)
(***************************************************************************)
EXTENDS Annotations, FiniteSetTheorems, FunctionTheorems, WellFoundedInduction, TLAPS

----------------------------------------------------------------------------
(* The inductive invariant *)

\* The evidence of an entry is an access of its location.
LayoutInv ==
    /\ DOMAIN layout \subseteq {Key(a) : a \in Accesses}
    /\ \A k \in DOMAIN layout : layout[k] \in Accesses /\ Key(layout[k]) = k

\* The statements of the first n blocks.
Upto(n) == UNION {StatementsOf(contract, Blocks[m]) : m \in 1..n}

\* The first n blocks have been shown, cut or left out.
Handled(n) ==
    /\ ShownStatements \subseteq Upto(n)
    /\ included = Cardinality(ShownStatements) /\ included <= Limit
    /\ IsFiniteSet(Upto(n)) /\ included + omittedStatements = Cardinality(Upto(n))
    /\ Len(shown) + omittedBlocks = n
    /\ \A m \in 1..Len(shown) : shown[m].block \in 1..n
    /\ \A i \in 1..n : \/ \E m \in 1..Len(shown) : shown[m].block = i
                       \/ included + contract.size[Blocks[i]] > Limit

Answering == request.max >= 1 /\ Matching(request.selector) # {}

Untouched == shown = <<>> /\ included = 0 /\ omittedBlocks = 0 /\ omittedStatements = 0

ContextInv ==
    /\ phase \in {"infer", "look_up", "no_answer"} => Untouched
    /\ phase = "blocks" => Answering /\ cursor \in 1..(Len(Blocks) + 1) /\ Handled(cursor - 1)
    /\ request.selector # None /\ phase \in Phases \ {"infer", "look_up", "no_answer", "blocks"} =>
          Answering /\ Handled(Len(Blocks))

ProposalInv ==
    /\ phase \in {"render", "rendered"} => Accepted(proposal)
    /\ phase = "refused" => ~Accepted(proposal)

BodyInv ==
    IF phase = "rendered"
    THEN body = [f \in Places |-> [a \in AccessesOf(f) |-> NameIn(proposal, f, a)]]
    ELSE body = NoEntries /\ declared = NoEntries

IInv == TypeOK /\ LayoutInv /\ ContextInv /\ ProposalInv /\ BodyInv

----------------------------------------------------------------------------
(* Contracts *)

LEMMA ContractFacts ==
    ASSUME TypeOK
    PROVE  Built(contract) /\ request.max \in Int
BY SessionsAssumption DEF TypeOK

\* A block has as many statements as its size says.
LEMMA BlockCount ==
    ASSUME NEW b, NEW n \in Nat
    PROVE  IsFiniteSet({b} \X (1..n)) /\ Cardinality({b} \X (1..n)) = n
<1> DEFINE F == [i \in 1..n |-> <<b, i>>]
<1>1. F \in [1..n -> {b} \X (1..n)] /\ \A i, j \in 1..n : F[i] = F[j] => i = j
  OBVIOUS
<1>2. \A t \in {b} \X (1..n) : \E i \in 1..n : F[i] = t
  OBVIOUS
<1>3. F \in Bijection(1..n, {b} \X (1..n))
  BY <1>1, <1>2, Fun_IsBij
<1>4. ExistsBijection(1..n, {b} \X (1..n))
  BY <1>3, Fun_ExistsBij
<1>5. IsFiniteSet(1..n) /\ Cardinality(1..n) = n
  BY FS_Interval
<1> QED
  BY <1>4, <1>5, FS_Bijection

LEMMA LeastNatural ==
    ASSUME NEW S \in SUBSET Nat, S # {}
    PROVE  \E n \in S : \A m \in S : n <= m
<1> DEFINE R == {p \in Nat \X Nat : p[1] < p[2]}
<1>1. IsWellFoundedOn(R, Nat)
  <2>1. OpToRel(<, Nat) = R
    BY DEF OpToRel
  <2> QED
    BY <2>1, NatLessThanWellFounded, Zenon
<1>2. PICK n \in S : \A m \in S : <<m, n>> \notin R
  <2> HIDE DEF R
  <2> QED
    BY <1>1, WFMin
<1>3. \A m \in S : n <= m
  <2> TAKE m \in S
  <2>1. ~(m < n)
    BY <1>2
  <2> QED
    BY <2>1
<1> QED
  BY <1>3

\* The function asked for is one of the contract, and lists each block once.
LEMMA SelectedFacts ==
    ASSUME TypeOK, Answering
    PROVE  /\ Selected \in Functions /\ Selected # None
           /\ Blocks \in Seq(DOMAIN contract.size) /\ Len(Blocks) \in Nat
           /\ \A m, n \in 1..Len(Blocks) : Blocks[m] = Blocks[n] => m = n
           /\ \A n \in 1..Len(Blocks) : contract.size[Blocks[n]] \in Nat
           /\ Limit \in Nat \ {0}
           /\ BlocksOf(Selected) = {Blocks[n] : n \in 1..Len(Blocks)}
<1> DEFINE S == Matching(request.selector)
<1>1. Built(contract) /\ request.max \in Int
  BY ContractFacts
<1>2. S # {} /\ S \subseteq 1..Len(contract.order) /\ contract.order \in Seq(Functions)
  BY <1>1 DEF Answering, Matching, Built, Functions
<1>3. PICK least \in S : \A m \in S : least <= m
  <2>1. S \subseteq Nat
    BY <1>2
  <2> QED
    BY <2>1, <1>2, LeastNatural
<1>4. Selected \in {contract.order[n] : n \in S}
  BY <1>3, Zenon DEF Selected
<1>5. Selected \in Functions /\ Selected # None
  BY <1>1, <1>2, <1>4 DEF Functions, Built, FunctionsOf
<1>6. /\ Blocks \in Seq(DOMAIN contract.size)
      /\ \A m, n \in 1..Len(Blocks) : Blocks[m] = Blocks[n] => m = n
  BY <1>1, <1>5 DEF Blocks, Built, Functions
<1>7. Limit \in Nat \ {0}
  BY <1>1, LimitsAssumption DEF Limit, Smaller, Answering
<1>8. \A n \in 1..Len(Blocks) : contract.size[Blocks[n]] \in Nat
  BY <1>1, <1>6 DEF Built
<1> QED
  BY <1>5, <1>6, <1>7, <1>8 DEF BlocksOf, Blocks

\* The statements of one more block.
LEMMA UptoNext ==
    ASSUME TypeOK, Answering, NEW n \in 1..Len(Blocks)
    PROVE  /\ Upto(n) = Upto(n - 1) \cup StatementsOf(contract, Blocks[n])
           /\ Upto(n - 1) \cap StatementsOf(contract, Blocks[n]) = {}
           /\ IsFiniteSet(StatementsOf(contract, Blocks[n]))
           /\ Cardinality(StatementsOf(contract, Blocks[n])) = contract.size[Blocks[n]]
<1>0. Len(Blocks) \in Nat /\ n \in Nat /\ 1..n = (1..(n - 1)) \cup {n}
  BY SelectedFacts
<1>1. Upto(n) = Upto(n - 1) \cup StatementsOf(contract, Blocks[n])
  BY <1>0 DEF Upto
<1>2. \A m \in 1..(n - 1) : Blocks[m] # Blocks[n]
  BY <1>0, SelectedFacts
<1>3. Upto(n - 1) \cap StatementsOf(contract, Blocks[n]) = {}
  BY <1>2 DEF Upto, StatementsOf
<1> QED
  BY <1>1, <1>3, SelectedFacts, BlockCount DEF StatementsOf

LEMMA InsideSelected ==
    ASSUME TypeOK, Answering
    PROVE  Upto(Len(Blocks)) = Inside(Selected)
<1>1. BlocksOf(Selected) = {Blocks[n] : n \in 1..Len(Blocks)}
  BY SelectedFacts
<1> QED
  BY <1>1 DEF Upto, Inside

\* One more entry of shown shows the statements of one more block, from the
\* first on.
LEMMA ShownNext ==
    ASSUME TypeOK, Answering, NEW n \in 1..Len(Blocks), Handled(n - 1),
           NEW k \in 0..contract.size[Blocks[n]],
           contract' = contract, request' = request,
           shown' = Append(shown, [block |-> n, statements |-> k])
    PROVE  /\ ShownStatements' = ShownStatements \cup ({Blocks[n]} \X (1..k))
           /\ IsFiniteSet(ShownStatements') /\ Cardinality(ShownStatements') = included + k
           /\ ShownStatements' \subseteq Upto(n)
           /\ Len(shown') = Len(shown) + 1
           /\ \A m \in 1..Len(shown) : shown'[m] = shown[m]
           /\ shown'[Len(shown) + 1].block = n
<1> DEFINE new == {Blocks[n]} \X (1..k)
<1>0. /\ shown \in Seq([block : Nat, statements : Nat]) /\ Len(shown) \in Nat
      /\ k \in Nat /\ n \in Nat
      /\ Selected' = Selected /\ Blocks' = Blocks /\ Inside(Selected)' = Inside(Selected)
  <2>1. Selected' = Selected /\ Blocks' = Blocks
    BY DEF Selected, Matching, Blocks
  <2>2. contract.size[Blocks[n]] \in Nat /\ Len(Blocks) \in Nat
    BY SelectedFacts
  <2> QED
    BY <2>1, <2>2 DEF TypeOK, Inside, BlocksOf
<1>1. /\ Len(shown') = Len(shown) + 1
      /\ \A m \in 1..Len(shown) : shown'[m] = shown[m]
      /\ shown'[Len(shown) + 1] = [block |-> n, statements |-> k]
  BY <1>0
<1>2. 1..Len(shown') = 1..Len(shown) \cup {Len(shown) + 1}
  BY <1>0, <1>1, SMTT(30)
<1>3. new \subseteq StatementsOf(contract, Blocks[n])
  BY <1>0, SelectedFacts DEF StatementsOf
<1>4. new \subseteq Inside(Selected) /\ new \subseteq Upto(n)
  <2>1. new \subseteq Upto(n)
    BY <1>3, UptoNext
  <2>2. Blocks[n] \in BlocksOf(Selected)
    BY SelectedFacts
  <2> QED
    BY <1>3, <2>1, <2>2 DEF Inside
<1>5. ShownStatements' = ShownStatements \cup new
  <2>1. ASSUME NEW s \in Inside(Selected)
        PROVE  s \in ShownStatements' <=> s \in ShownStatements \/ s \in new
    <3>1. s[2] \in Nat \ {0} /\ s = <<s[1], s[2]>>
      BY SelectedFacts DEF Inside, StatementsOf
    <3>2. s \in ShownStatements' <=>
             \E m \in 1..Len(shown') : Blocks[shown'[m].block] = s[1] /\ s[2] <= shown'[m].statements
      BY <1>0 DEF ShownStatements
    <3>3. s \in ShownStatements <=>
             \E m \in 1..Len(shown) : Blocks[shown[m].block] = s[1] /\ s[2] <= shown[m].statements
      BY DEF ShownStatements
    <3>4. s \in new <=> Blocks[n] = s[1] /\ s[2] <= k
      BY <1>0, <3>1
    <3>5. (\E m \in 1..Len(shown') : Blocks[shown'[m].block] = s[1] /\ s[2] <= shown'[m].statements)
            <=> \/ \E m \in 1..Len(shown) : Blocks[shown[m].block] = s[1] /\ s[2] <= shown[m].statements
                \/ Blocks[n] = s[1] /\ s[2] <= k
      <4>1. shown'[Len(shown) + 1].block = n /\ shown'[Len(shown) + 1].statements = k
        BY <1>1
      <4>2. \A m \in 1..Len(shown) : /\ shown'[m].block = shown[m].block
                                     /\ shown'[m].statements = shown[m].statements
        BY <1>1
      <4> DEFINE L == Len(shown)
      <4> DEFINE L2 == Len(shown')
      <4>3. 1..L2 = 1..L \cup {L + 1}
        BY <1>2
      <4> HIDE DEF L, L2
      <4> QED
        BY <4>1, <4>2, <4>3 DEF L
    <3> HIDE DEF new
    <3> QED
      BY <3>2, <3>3, <3>4, <3>5
  <2>2. ShownStatements' \subseteq Inside(Selected) /\ ShownStatements \subseteq Inside(Selected)
    BY <1>0 DEF ShownStatements
  <2> QED
    BY <2>1, <2>2, <1>4
<1>6. IsFiniteSet(ShownStatements) /\ IsFiniteSet(new) /\ Cardinality(new) = k
  BY <1>0, BlockCount, FS_Subset DEF Handled
<1>7. ShownStatements \cap new = {}
  BY <1>3, UptoNext DEF Handled
<1>8. IsFiniteSet(ShownStatements') /\ Cardinality(ShownStatements') = included + k
  <2>1. Cardinality(ShownStatements) \in Nat
    BY <1>6, FS_CardinalityType
  <2>2. /\ IsFiniteSet(ShownStatements \cup new)
        /\ Cardinality(ShownStatements \cup new) = Cardinality(ShownStatements) + Cardinality(new)
    <3> HIDE DEF new
    <3>1. Cardinality(ShownStatements \cap new) = 0
      BY <1>7, FS_EmptySet
    <3>2. /\ IsFiniteSet(ShownStatements \cup new)
          /\ Cardinality(ShownStatements \cup new)
                = Cardinality(ShownStatements) + Cardinality(new) - Cardinality(ShownStatements \cap new)
      BY <1>6, FS_Union, Zenon
    <3> QED
      BY <1>0, <1>6, <2>1, <3>1, <3>2
  <2> QED
    BY <1>5, <1>6, <2>2 DEF Handled
<1>9. ShownStatements' \subseteq Upto(n)
  BY <1>4, <1>5, UptoNext DEF Handled
<1> QED
  BY <1>1, <1>5, <1>8, <1>9

----------------------------------------------------------------------------
(* The invariant holds *)

LEMMA InitInv == Init => IInv
<1> SUFFICES ASSUME Init PROVE IInv
  OBVIOUS
<1> USE DEF Init, ContextInit
<1>1. TypeOK
  BY SessionsAssumption DEF TypeOK, Phases, NoEntries
<1>2. LayoutInv
  BY DEF LayoutInv, NoEntries
<1>3. ContextInv /\ ProposalInv /\ BodyInv
  BY DEF ContextInv, ProposalInv, BodyInv, Untouched, Phases
<1> QED
  BY <1>1, <1>2, <1>3 DEF IInv

\* What only reads the contract and the request does not change with them.
LEMMA Fixed ==
    ASSUME contract' = contract, request' = request
    PROVE  /\ Accesses' = Accesses /\ Functions' = Functions /\ Places' = Places
           /\ \A a : Key(a)' = Key(a)
           /\ \A f : AccessesOf(f)' = AccessesOf(f) /\ Inside(f)' = Inside(f)
           /\ Blocks' = Blocks /\ Limit' = Limit /\ Answering' = Answering
           /\ Selected' = Selected
           /\ \A n : Upto(n)' = Upto(n)
BY DEF Accesses, Functions, Places, Key, AccessesOf, Inside, BlocksOf, Blocks, Selected,
       Matching, Limit, Answering, Upto

LEMMA HandledKept ==
    ASSUME contract' = contract, request' = request, context' = context, NEW n, Handled(n)
    PROVE  Handled(n)'
<1>1. ShownStatements' = ShownStatements
  BY DEF ShownStatements, context, Inside, BlocksOf, Selected, Matching, Blocks
<1> QED
  BY <1>1, Fixed DEF Handled, context

Aside == UNCHANGED <<proposal, body, declared>>

LEMMA TypeKept ==
    ASSUME IInv, Aside, contract' = contract, request' = request, layout' = layout,
           phase' \in Phases \ {"validate", "render"}, phase # "rendered", cursor' \in Nat \ {0},
           shown' \in Seq([block : Nat, statements : Nat]),
           included' \in Nat, omittedBlocks' \in Nat, omittedStatements' \in Nat
    PROVE  TypeOK' /\ LayoutInv'
<1>1. LayoutInv'
  BY Fixed DEF IInv, LayoutInv
<1>2. /\ [contract |-> contract, request |-> request]' \in Sessions
      /\ (DOMAIN layout)' \subseteq {Key(a) : a \in Accesses}'
      /\ \A k \in DOMAIN layout' : layout'[k] \in Accesses'
  BY <1>1 DEF IInv, TypeOK, LayoutInv
<1>3. IsProposal(proposal)' \/ (proposal = NoProposal /\ phase \notin {"validate", "render"})'
  BY DEF IInv, TypeOK, Aside, IsProposal
<1>4. (body # NoEntries =>
          DOMAIN body = Places /\ \A f \in Places : DOMAIN body[f] = AccessesOf(f))'
      /\ (declared # NoEntries => DOMAIN declared = DOMAIN layout)'
  BY DEF IInv, BodyInv, Aside, NoEntries
<1> QED
  BY <1>1, <1>2, <1>3, <1>4 DEF TypeOK

LEMMA InferStep ==
    ASSUME IInv, Infer, Aside
    PROVE  TypeOK' /\ LayoutInv' /\ ContextInv'
<1> USE DEF Aside, IInv, Infer, context
<1>1. LayoutInv'
  <2>1. cursor \in Accesses /\ DOMAIN layout' = DOMAIN layout \cup {Key(cursor)}
    OBVIOUS
  <2>2. \A k \in DOMAIN layout' : layout'[k] \in Accesses /\ Key(layout'[k]) = k
    BY DEF LayoutInv
  <2> QED
    BY <2>1, <2>2, Fixed DEF LayoutInv
<1>2. TypeOK'
  <2>1. DOMAIN layout' \subseteq {Key(a) : a \in Accesses}' /\ \A k \in DOMAIN layout' : layout'[k] \in Accesses'
    BY <1>1 DEF LayoutInv
  <2>2. cursor' \in Nat \ {0}
    BY DEF TypeOK
  <2> QED
    BY <2>1, <2>2, Fixed DEF TypeOK, BodyInv
<1>3. ContextInv'
  BY DEF ContextInv, Untouched
<1> QED
  BY <1>1, <1>2, <1>3

\* The steps that change neither the layout nor what is shown.
LEMMA QuietStep ==
    ASSUME IInv, Aside, LayoutDone \/ NotAnswered \/ LookUp \/ ContextDone
    PROVE  TypeOK' /\ LayoutInv' /\ ContextInv'
<1>0. /\ contract' = contract /\ request' = request /\ layout' = layout /\ context' = context
      /\ cursor' \in {cursor, 1} /\ phase' \in Phases \ {"validate", "render"} /\ phase # "rendered"
  BY DEF LayoutDone, NotAnswered, LookUp, ContextDone, Phases, Ended
<1>1. TypeOK' /\ LayoutInv'
  BY <1>0, TypeKept DEF IInv, TypeOK, context
<1>3. ContextInv'
  <2>1. CASE LayoutDone
    BY <2>1 DEF IInv, LayoutDone, Phases, Ended, ContextInv, Untouched, context
  <2>2. CASE NotAnswered
    BY <2>2 DEF IInv, NotAnswered, Phases, Ended, ContextInv, Untouched, context
  <2>3. CASE LookUp
    <3>1. Answering /\ Untouched
      BY <2>3 DEF IInv, LookUp, ContextInv, Answering
    <3>2. Len(Blocks) \in Nat /\ Limit \in Nat
      BY <3>1, SelectedFacts DEF IInv
    <3>3. ShownStatements = {} /\ Upto(0) = {} /\ Len(shown) = 0
      <4>1. Len(shown) = 0 /\ 1..0 = {}
        BY <3>1 DEF Untouched
      <4> QED
        BY <4>1 DEF ShownStatements, Upto
    <3>4. Handled(0)
      BY <3>1, <3>2, <3>3, FS_EmptySet DEF Handled, Untouched
    <3>5. Handled(0)' /\ Answering' /\ Len(Blocks)' = Len(Blocks)
      BY <1>0, <3>1, <3>4, Fixed, HandledKept
    <3>6. cursor' = 1 /\ phase' = "blocks"
      BY <2>3 DEF LookUp
    <3>7. Handled(cursor - 1)'
      BY <3>5, <3>6 DEF Handled
    <3> QED
      BY <3>2, <3>5, <3>6, <3>7 DEF ContextInv
  <2>4. CASE ContextDone
    <3>1. Answering /\ cursor \in 1..(Len(Blocks) + 1) /\ Handled(cursor - 1) /\ cursor > Len(Blocks)
      BY <2>4 DEF IInv, ContextDone, ContextInv
    <3>2. cursor - 1 = Len(Blocks)
      <4>1. Len(Blocks) \in Nat
        BY <3>1, SelectedFacts DEF IInv
      <4> QED
        BY <3>1, <4>1
    <3>3. Handled(Len(Blocks))
      BY <3>1, <3>2
    <3>4. Handled(Len(Blocks))'
      BY <1>0, <3>3, Fixed, HandledKept DEF Handled
    <3>5. Answering' /\ phase' = "propose"
      BY <1>0, <2>4, <3>1, Fixed DEF ContextDone
    <3> QED
      BY <3>4, <3>5 DEF ContextInv
  <2> QED
    BY <2>1, <2>2, <2>3, <2>4
<1> QED
  BY <1>1, <1>3

LEMMA CountNext ==
    ASSUME TypeOK, Answering, NEW n \in 1..Len(Blocks), Handled(n - 1)
    PROVE  /\ IsFiniteSet(Upto(n)) /\ Upto(n - 1) \subseteq Upto(n)
           /\ Cardinality(Upto(n)) = included + omittedStatements + contract.size[Blocks[n]]
<1> DEFINE more == StatementsOf(contract, Blocks[n])
<1>1. /\ Upto(n) = Upto(n - 1) \cup more /\ Upto(n - 1) \cap more = {}
      /\ IsFiniteSet(more) /\ Cardinality(more) = contract.size[Blocks[n]]
      /\ contract.size[Blocks[n]] \in Nat
  BY UptoNext, SelectedFacts
<1>2. IsFiniteSet(Upto(n - 1)) /\ Cardinality(Upto(n - 1)) = included + omittedStatements
  BY DEF Handled
<1> HIDE DEF more
<1>3. Cardinality(Upto(n - 1) \cap more) = 0
  BY <1>1, FS_EmptySet
<1>4. /\ IsFiniteSet(Upto(n - 1) \cup more)
      /\ Cardinality(Upto(n - 1) \cup more)
            = Cardinality(Upto(n - 1)) + Cardinality(more) - Cardinality(Upto(n - 1) \cap more)
  BY <1>1, <1>2, FS_Union, Zenon
<1>5. included + omittedStatements \in Nat
  BY DEF TypeOK
<1> QED
  BY <1>1, <1>2, <1>3, <1>4, <1>5

\* A block of which k statements are shown.
LEMMA HandledShown ==
    ASSUME TypeOK, Answering, NEW n \in 1..Len(Blocks), Handled(n - 1),
           NEW k \in 0..contract.size[Blocks[n]], included + k <= Limit,
           contract' = contract, request' = request,
           shown' = Append(shown, [block |-> n, statements |-> k]),
           included' = included + k,
           omittedStatements' = omittedStatements + (contract.size[Blocks[n]] - k),
           omittedBlocks' = omittedBlocks
    PROVE  Handled(n)'
<1>0. /\ included \in Nat /\ omittedStatements \in Nat /\ omittedBlocks \in Nat /\ Len(shown) \in Nat
      /\ k \in Nat /\ n \in Nat /\ contract.size[Blocks[n]] \in Nat /\ Limit \in Nat
      /\ \A i \in 1..(n - 1) : contract.size[Blocks[i]] \in Nat
      /\ 1..n = 1..(n - 1) \cup {n}
      /\ Blocks' = Blocks /\ Limit' = Limit /\ Upto(n)' = Upto(n)
  BY SelectedFacts, Fixed, SMTT(30) DEF TypeOK
<1>1. /\ IsFiniteSet(ShownStatements') /\ Cardinality(ShownStatements') = included + k
      /\ ShownStatements' \subseteq Upto(n)
      /\ Len(shown') = Len(shown) + 1
      /\ \A m \in 1..Len(shown) : shown'[m] = shown[m]
      /\ shown'[Len(shown) + 1].block = n
  BY ShownNext
<1>2. 1..Len(shown') = 1..Len(shown) \cup {Len(shown) + 1}
  BY <1>0, <1>1, SMTT(30)
<1>3. (ShownStatements \subseteq Upto(n))' /\ (included = Cardinality(ShownStatements) /\ included <= Limit)'
  BY <1>0, <1>1
<1>4. (IsFiniteSet(Upto(n)) /\ included + omittedStatements = Cardinality(Upto(n)))'
  BY <1>0, CountNext, SMTT(30)
<1>5. (Len(shown) + omittedBlocks = n)'
  BY <1>0, <1>1 DEF Handled
<1>6. (\A m \in 1..Len(shown) : shown[m].block \in 1..n)'
  BY <1>0, <1>1, <1>2 DEF Handled
<1>7. (\A i \in 1..n : \/ \E m \in 1..Len(shown) : shown[m].block = i
                       \/ included + contract.size[Blocks[i]] > Limit)'
  <2> SUFFICES ASSUME NEW i \in 1..n
               PROVE  \/ \E m \in 1..Len(shown') : shown'[m].block = i
                      \/ included' + contract.size[Blocks[i]] > Limit
    BY <1>0
  <2>1. CASE i = n
    BY <1>0, <1>1, <1>2, <2>1
  <2>2. CASE i \in 1..(n - 1)
    <3>1. \/ \E m \in 1..Len(shown) : shown[m].block = i
          \/ included + contract.size[Blocks[i]] > Limit
      BY <2>2 DEF Handled
    <3>2. CASE \E m \in 1..Len(shown) : shown[m].block = i
      BY <1>1, <1>2, <3>2
    <3>3. CASE included + contract.size[Blocks[i]] > Limit
      BY <1>0, <2>2, <3>3, SMTT(30)
    <3> QED
      BY <3>1, <3>2, <3>3
  <2> QED
    BY <1>0, <2>1, <2>2
<1> QED
  BY <1>3, <1>4, <1>5, <1>6, <1>7 DEF Handled

\* A block left out.
LEMMA HandledOmitted ==
    ASSUME TypeOK, Answering, NEW n \in 1..Len(Blocks), Handled(n - 1),
           included + contract.size[Blocks[n]] > Limit,
           contract' = contract, request' = request,
           shown' = shown, included' = included,
           omittedStatements' = omittedStatements + contract.size[Blocks[n]],
           omittedBlocks' = omittedBlocks + 1
    PROVE  Handled(n)'
<1>0. /\ included \in Nat /\ omittedStatements \in Nat /\ omittedBlocks \in Nat /\ Len(shown) \in Nat
      /\ n \in Nat /\ contract.size[Blocks[n]] \in Nat
      /\ 1..n = 1..(n - 1) \cup {n}
      /\ Blocks' = Blocks /\ Limit' = Limit /\ Upto(n)' = Upto(n)
  BY SelectedFacts, Fixed, SMTT(30) DEF TypeOK
<1>1. ShownStatements' = ShownStatements
  <2>1. Selected' = Selected /\ Blocks' = Blocks
    BY Fixed
  <2>2. Inside(Selected)' = Inside(Selected)
    BY <2>1 DEF Inside, BlocksOf
  <2> QED
    BY <2>1, <2>2 DEF ShownStatements
<1>2. (ShownStatements \subseteq Upto(n))' /\ (included = Cardinality(ShownStatements) /\ included <= Limit)'
  BY <1>0, <1>1, CountNext DEF Handled
<1>3. (IsFiniteSet(Upto(n)) /\ included + omittedStatements = Cardinality(Upto(n)))'
  <2>1. /\ IsFiniteSet(Upto(n))
        /\ Cardinality(Upto(n)) = included + omittedStatements + contract.size[Blocks[n]]
    BY CountNext
  <2>2. (included + omittedStatements)' = included + omittedStatements + contract.size[Blocks[n]]
    BY <1>0, SMTT(30)
  <2> QED
    BY <1>0, <2>1, <2>2
<1>4. (Len(shown) + omittedBlocks = n)' /\ (\A m \in 1..Len(shown) : shown[m].block \in 1..n)'
  BY <1>0, SMTT(30) DEF Handled
<1>5. (\A i \in 1..n : \/ \E m \in 1..Len(shown) : shown[m].block = i
                       \/ included + contract.size[Blocks[i]] > Limit)'
  BY <1>0 DEF Handled
<1> QED
  BY <1>2, <1>3, <1>4, <1>5 DEF Handled

LEMMA BlockStep ==
    ASSUME IInv, Aside, ShowBlock \/ ClipBlock \/ OmitBlock
    PROVE  TypeOK' /\ LayoutInv' /\ ContextInv'
<1>0. /\ contract' = contract /\ request' = request /\ layout' = layout
      /\ phase = "blocks" /\ phase' = phase /\ cursor' = cursor + 1
  BY DEF ShowBlock, ClipBlock, OmitBlock
<1>n. PICK n : n = cursor
  OBVIOUS
<1>1. /\ Answering /\ n \in 1..Len(Blocks) /\ Handled(n - 1)
      /\ Len(Blocks) \in Nat /\ Limit \in Nat /\ Size \in Nat
      /\ included \in Nat /\ omittedBlocks \in Nat /\ omittedStatements \in Nat /\ included <= Limit
      /\ Current = Blocks[n] /\ Size = contract.size[Blocks[n]]
      /\ phase' \in Phases \ {"validate", "render"} /\ phase # "rendered" /\ cursor' \in Nat \ {0}
  <2>1. Answering /\ cursor \in 1..(Len(Blocks) + 1) /\ Handled(cursor - 1) /\ cursor <= Len(Blocks)
    BY <1>0 DEF IInv, ContextInv, ShowBlock, ClipBlock, OmitBlock
  <2>2. Len(Blocks) \in Nat /\ Limit \in Nat /\ \A m \in 1..Len(Blocks) : contract.size[Blocks[m]] \in Nat
    BY <2>1, SelectedFacts DEF IInv
  <2>3. included \in Nat /\ omittedBlocks \in Nat /\ omittedStatements \in Nat
    BY DEF IInv, TypeOK
  <2>4. included <= Limit
    BY <2>1 DEF Handled
  <2>5. n \in 1..Len(Blocks) /\ Handled(n - 1) /\ cursor' \in Nat \ {0}
    BY <1>0, <1>n, <2>1, <2>2
  <2>6. phase' \in Phases \ {"validate", "render"} /\ phase # "rendered"
    BY <1>0 DEF Phases
  <2> QED
    BY <1>n, <2>1, <2>2, <2>3, <2>4, <2>5, <2>6 DEF Current, Size
<1>4. TypeOK' /\ LayoutInv' /\ Handled(n)'
  <2>1. CASE ShowBlock
    <3>1. /\ shown' = Append(shown, [block |-> n, statements |-> Size])
          /\ included' = included + Size /\ included + Size <= Limit
          /\ omittedBlocks' = omittedBlocks /\ omittedStatements' = omittedStatements
      BY <1>n, <2>1 DEF ShowBlock, Fits
    <3>2. TypeOK' /\ LayoutInv'
      <4>1. shown \in Seq([block : Nat, statements : Nat])
        BY DEF IInv, TypeOK
      <4>2. shown' \in Seq([block : Nat, statements : Nat])
        BY <1>1, <3>1, <4>1
      <4>3. included' \in Nat /\ omittedBlocks' \in Nat /\ omittedStatements' \in Nat
        BY <1>1, <3>1, SMTT(30) DEF IInv, TypeOK
      <4> QED
        BY <1>0, <1>1, <4>2, <4>3, TypeKept, SMTT(30)
    <3>3. Handled(n)'
      <4>1. PICK k : k = Size
        OBVIOUS
      <4>2. Size \in Nat /\ omittedStatements \in Nat
        BY <1>0, <1>1 DEF IInv, TypeOK
      <4>3. omittedStatements' = omittedStatements + (Size - k) /\ k \in 0..Size
        BY <3>1, <4>1, <4>2, SMTT(30)
      <4>4. /\ shown' = Append(shown, [block |-> n, statements |-> k])
            /\ included' = included + k /\ included + k <= Limit
            /\ omittedStatements' = omittedStatements + (contract.size[Blocks[n]] - k)
            /\ k \in 0..contract.size[Blocks[n]] /\ omittedBlocks' = omittedBlocks
        BY <1>1, <3>1, <4>1, <4>3
      <4>5. TypeOK /\ Answering /\ n \in 1..Len(Blocks) /\ Handled(n - 1)
        BY <1>1 DEF IInv
      <4> QED
        BY <1>0, <4>4, <4>5, HandledShown, SMTT(30)
    <3> QED
      BY <3>2, <3>3
  <2>2. CASE ClipBlock
    <3>1. /\ shown = <<>> /\ included + Size > Limit
          /\ shown' = Append(shown, [block |-> n, statements |-> Limit - included])
          /\ included' = Limit /\ omittedStatements' = omittedStatements + (Size - (Limit - included))
          /\ omittedBlocks' = omittedBlocks
      <4>1. /\ ~(included + Size <= Limit) /\ shown = <<>>
            /\ shown' = <<[block |-> n, statements |-> Limit - included]>>
            /\ included' = Limit /\ omittedBlocks' = omittedBlocks
            /\ omittedStatements' = omittedStatements + Size - (Limit - included)
        BY <1>n, <2>2 DEF ClipBlock, Fits
      <4>2. included + Size > Limit
        <5>1. included \in Nat /\ Size \in Nat /\ Limit \in Nat
          BY <1>1
        <5> QED
          BY <4>1, <5>1
      <4>3. shown' = Append(shown, [block |-> n, statements |-> Limit - included])
        BY <4>1
      <4>4. omittedStatements + Size - (Limit - included)
              = omittedStatements + (Size - (Limit - included))
        BY <1>1
      <4> QED
        BY <4>1, <4>2, <4>3, <4>4
    <3>2. included \in Nat /\ included <= Limit /\ Limit - included \in 0..Size
      BY <1>1, <3>1, SMTT(30)
    <3>3. TypeOK' /\ LayoutInv'
      <4>1. shown \in Seq([block : Nat, statements : Nat])
        BY DEF IInv, TypeOK
      <4>2. shown' \in Seq([block : Nat, statements : Nat])
        BY <1>1, <3>1, <3>2, <4>1
      <4> QED
        <5>1. included' \in Nat /\ omittedBlocks' \in Nat /\ omittedStatements' \in Nat
          <6>1. Size - (Limit - included) \in Nat
            BY <1>1, <3>2
          <6>2. omittedStatements + (Size - (Limit - included)) \in Nat
            BY <1>1, <6>1
          <6> QED
            BY <1>1, <3>1, <6>2
        <5> QED
          BY <1>0, <1>1, <4>2, <5>1, TypeKept, SMTT(30)
    <3>4. Handled(n)'
      <4>1. PICK k : k = Limit - included
        OBVIOUS
      <4>2. /\ shown' = Append(shown, [block |-> n, statements |-> k])
            /\ omittedStatements' = omittedStatements + (Size - k)
            /\ k \in 0..Size /\ omittedBlocks' = omittedBlocks
            /\ included' = Limit /\ k = Limit - included
        BY <3>1, <3>2, <4>1
      <4>3. included + k = Limit /\ Limit \in Nat
        BY <1>1, <3>2, <4>1, SMTT(30)
      <4>4. /\ shown' = Append(shown, [block |-> n, statements |-> k])
            /\ included' = included + k /\ included + k <= Limit
            /\ omittedStatements' = omittedStatements + (contract.size[Blocks[n]] - k)
            /\ k \in 0..contract.size[Blocks[n]] /\ omittedBlocks' = omittedBlocks
        BY <1>1, <4>2, <4>3
      <4>5. TypeOK /\ Answering /\ n \in 1..Len(Blocks) /\ Handled(n - 1)
        BY <1>1 DEF IInv
      <4> QED
        BY <1>0, <4>4, <4>5, HandledShown, SMTT(30)
    <3> QED
      BY <3>3, <3>4
  <2>3. CASE OmitBlock
    <3>1. /\ included + Size > Limit /\ shown' = shown /\ included' = included
          /\ omittedBlocks' = omittedBlocks + 1 /\ omittedStatements' = omittedStatements + Size
      BY <1>1, <2>3, SMTT(30) DEF OmitBlock, Fits
    <3>2. TypeOK' /\ LayoutInv'
      <4>1. shown \in Seq([block : Nat, statements : Nat])
        BY DEF IInv, TypeOK
      <4>2. shown' \in Seq([block : Nat, statements : Nat])
        BY <1>1, <3>1, <4>1
      <4>3. included' \in Nat /\ omittedBlocks' \in Nat /\ omittedStatements' \in Nat
        BY <1>1, <3>1, SMTT(30)
      <4> QED
        BY <1>0, <1>1, <4>2, <4>3, TypeKept, SMTT(30)
    <3>4. Handled(n)'
      BY <1>0, <1>1, <3>1, HandledOmitted, SMTT(30) DEF IInv
    <3> QED
      BY <3>2, <3>4
  <2> QED
    BY <2>1, <2>2, <2>3
<1>5. ContextInv'
  <2>1. cursor' - 1 = n /\ cursor' \in 1..(Len(Blocks') + 1) /\ Answering'
    BY <1>0, <1>n, <1>1, Fixed
  <2>2. Handled(cursor - 1)'
    BY <1>4, <2>1 DEF Handled
  <2> QED
    BY <1>0, <2>1, <2>2 DEF ContextInv
<1> QED
  BY <1>4, <1>5

\* What was said of the context stays true of it.
LEMMA AnswerStep ==
    ASSUME IInv, Propose \/ Validate \/ Render
    PROVE  LayoutInv' /\ ContextInv'
<1>0. /\ contract' = contract /\ request' = request /\ layout' = layout /\ context' = context
      /\ {phase, phase'} \subseteq Phases \ {"infer", "look_up", "no_answer", "blocks"}
  BY DEF Propose, Validate, Render, Phases, Ended
<1>1. LayoutInv'
  BY <1>0, Fixed DEF IInv, LayoutInv
<1>2. ContextInv'
  <2>1. ASSUME request.selector # None
        PROVE  Answering' /\ Handled(Len(Blocks))'
    <3>1. Answering /\ Handled(Len(Blocks))
      BY <1>0, <2>1 DEF IInv, ContextInv
    <3>2. Handled(Len(Blocks))' /\ Answering'
      BY <1>0, <3>1, HandledKept, Fixed DEF Handled
    <3> QED
      BY <3>2
  <2> QED
    BY <1>0, <2>1 DEF ContextInv
<1> QED
  BY <1>1, <1>2

LEMMA ProposeStep ==
    ASSUME IInv, Propose
    PROVE  IInv'
<1>1. LayoutInv' /\ ContextInv'
  BY AnswerStep
<1>2. ProposalInv' /\ BodyInv'
  BY DEF IInv, Propose, ProposalInv, BodyInv
<1>3. IsProposal(proposal')
  <2>1. [contract |-> contract, request |-> request] \in Sessions
    BY DEF IInv, TypeOK
  <2>2. proposal' \in ProposalsFor([contract |-> contract, request |-> request].contract)
    BY DEF Propose
  <2> QED
    BY <2>1, <2>2, ProposalsAssumption
<1>4. TypeOK'
  BY <1>1, <1>2, <1>3, Fixed DEF IInv, TypeOK, LayoutInv, Propose, Phases, context, IsProposal, BodyInv
<1> QED
  BY <1>1, <1>2, <1>4 DEF IInv

\* What validation says of a proposal depends on the contract and its layout.
LEMMA AcceptedKept ==
    ASSUME contract' = contract, layout' = layout, proposal' = proposal
    PROVE  Accepted(proposal)' <=> Accepted(proposal)
<1>0. contract' = contract /\ layout' = layout /\ proposal' = proposal
  OBVIOUS
<1>1. /\ Functions' = Functions /\ (\A f : EvidenceIds(f)' = EvidenceIds(f))
      /\ \A f : EntriesOf(f)' = EntriesOf(f) /\ AccessesOf(f)' = AccessesOf(f)
      /\ StorageIds' = StorageIds
  BY <1>0 DEF Functions, EvidenceIds, EntriesOf, StorageIds, AccessesOf, Accesses, Inside, BlocksOf
<1>2. /\ \A f : KnownIn(f)' = KnownIn(f) /\ StorageOf(f)' = StorageOf(f)
      /\ KnownAnywhere' = KnownAnywhere
  BY <1>1 DEF KnownIn, StorageOf, KnownAnywhere
<1>3. FunctionAccepted(proposal)' <=> FunctionAccepted(proposal)
  BY <1>0, <1>1, <1>2 DEF FunctionAccepted, Named
<1>4. ContractAccepted(proposal)' <=> ContractAccepted(proposal)
  BY <1>0, <1>1, <1>2 DEF ContractAccepted, Named, Distinct
<1> QED
  BY <1>0, <1>3, <1>4, Zenon DEF Accepted

LEMMA ValidateStep ==
    ASSUME IInv, Validate
    PROVE  IInv'
<1>1. LayoutInv' /\ ContextInv'
  BY AnswerStep
<1>2. Accepted(proposal)' <=> Accepted(proposal)
  BY AcceptedKept DEF Validate
<1>3. ProposalInv' /\ BodyInv'
  BY <1>2 DEF IInv, Validate, ProposalInv, BodyInv
<1>4. TypeOK'
  BY <1>1, <1>3, Fixed DEF IInv, TypeOK, LayoutInv, Validate, Phases, Ended, context, IsProposal, BodyInv
<1> QED
  BY <1>1, <1>3, <1>4 DEF IInv

LEMMA RenderStep ==
    ASSUME IInv, Render
    PROVE  IInv'
<1>0. /\ contract' = contract /\ request' = request /\ layout' = layout /\ proposal' = proposal
      /\ phase = "render" /\ phase' = "rendered"
  BY DEF Render
<1>1. LayoutInv' /\ ContextInv'
  BY AnswerStep
<1>2. Accepted(proposal)' <=> Accepted(proposal)
  BY <1>0, AcceptedKept
<1>3. ProposalInv'
  BY <1>0, <1>2 DEF IInv, ProposalInv
<1>4. BodyInv'
  <2>1. body' = [f \in Places |-> [a \in AccessesOf(f) |-> NameIn(proposal, f, a)]]
    BY DEF Render
  <2>2. Places' = Places /\ \A f : AccessesOf(f)' = AccessesOf(f)
    BY <1>0, Fixed
  <2>3. \A f, a : NameIn(proposal, f, a)' = NameIn(proposal, f, a)
    BY <1>0, Fixed DEF NameIn, Labelled, LabelOf
  <2> QED
    BY <1>0, <2>1, <2>2, <2>3 DEF BodyInv
<1>5. TypeOK'
  <2>1. DOMAIN body' = Places /\ \A f \in Places : DOMAIN body'[f] = AccessesOf(f)
    BY DEF Render
  <2>2. DOMAIN declared' = DOMAIN layout
    BY DEF Render
  <2>3. IsProposal(proposal)'
    BY <1>0 DEF IInv, TypeOK, IsProposal
  <2> QED
    BY <1>0, <1>1, <2>1, <2>2, <2>3, Fixed DEF IInv, TypeOK, LayoutInv, Render, Phases, Ended, context
<1> QED
  BY <1>1, <1>3, <1>4, <1>5 DEF IInv

LEMMA StutterStep ==
    ASSUME IInv, UNCHANGED vars
    PROVE  IInv'
<1>0. /\ contract' = contract /\ request' = request /\ layout' = layout /\ proposal' = proposal
      /\ context' = context /\ cursor' = cursor /\ phase' = phase /\ body' = body /\ declared' = declared
  BY DEF vars
<1>1. LayoutInv'
  BY <1>0, Fixed DEF IInv, LayoutInv
<1>2. ContextInv'
  <2>1. Answering' = Answering /\ Len(Blocks)' = Len(Blocks) /\ Untouched' = Untouched
    BY <1>0, Fixed DEF Untouched, context
  <2>2. Handled(cursor - 1) => Handled(cursor - 1)'
    BY <1>0, HandledKept DEF Handled
  <2>3. Handled(Len(Blocks)) => Handled(Len(Blocks))'
    BY <1>0, <2>1, HandledKept, Fixed DEF Handled
  <2> QED
    BY <1>0, <2>1, <2>2, <2>3, Fixed DEF IInv, ContextInv
<1>3. ProposalInv'
  BY <1>0, AcceptedKept DEF IInv, ProposalInv
<1>4. BodyInv'
  <2>1. Places' = Places /\ \A f : AccessesOf(f)' = AccessesOf(f)
    BY <1>0, Fixed
  <2>2. \A f, a : NameIn(proposal, f, a)' = NameIn(proposal, f, a)
    BY <1>0, Fixed DEF NameIn, Labelled, LabelOf
  <2> QED
    BY <1>0, <2>1, <2>2 DEF IInv, BodyInv
<1>5. TypeOK'
  BY <1>0, <1>1, Fixed DEF IInv, TypeOK, LayoutInv, IsProposal, context
<1> QED
  BY <1>1, <1>2, <1>3, <1>4, <1>5 DEF IInv

LEMMA Invariance == Spec => []IInv
<1>1. ASSUME IInv, [Next]_vars
      PROVE  IInv'
  <2>1. CASE ContextNext /\ Aside
    <3>1. TypeOK' /\ LayoutInv' /\ ContextInv'
      BY <1>1, <2>1, InferStep, QuietStep, BlockStep DEF ContextNext
    <3>2. /\ phase \in {"infer", "look_up", "blocks"}
          /\ phase' \notin {"render", "rendered", "refused"}
      BY <2>1 DEF ContextNext, Infer, LayoutDone, NotAnswered, LookUp, ShowBlock, ClipBlock,
                  OmitBlock, ContextDone
    <3>3. ProposalInv' /\ BodyInv'
      BY <1>1, <2>1, <3>2 DEF IInv, ProposalInv, BodyInv, Aside
    <3> QED
      BY <3>1, <3>3 DEF IInv
  <2> QED
    BY <1>1, <2>1, ProposeStep, ValidateStep, RenderStep, StutterStep DEF Next, Aside
<1> QED
  BY <1>1, InitInv, PTL DEF Spec

----------------------------------------------------------------------------
(* Theorems *)

\* Every variable keeps its type.
THEOREM TypeCorrect == Spec => []TypeOK
<1>1. IInv => TypeOK
  BY DEF IInv
<1> QED
  BY <1>1, Invariance, PTL

\* Lists that stay within their limit are shown whole.
LEMMA WholeFacts ==
    ASSUME TypeOK, NEW f, NEW write, OmittedFacts(f, write) = 0
    PROVE  ShownFacts(f, write) = Facts(f, write)
<1> DEFINE F == Facts(f, write)
<1>1. F \subseteq Accesses /\ IsFiniteSet(Accesses) /\ Accesses \subseteq Nat
  <2>1. Len(contract.accesses) \in Nat /\ Accesses = 1..Len(contract.accesses)
    BY ContractFacts DEF Built, Accesses
  <2> QED
    BY <2>1, FS_Interval, SMTT(30) DEF Facts, AccessesOf
<1>2. IsFiniteSet(F) /\ Cardinality(F) \in Nat
  BY <1>1, FS_Subset, FS_CardinalityType
<1>3. Cardinality(F) <= MaxFacts
  BY <1>2, LimitsAssumption DEF OmittedFacts, Excess
<1>4. ASSUME NEW a \in F
      PROVE  Cardinality({d \in F : d < a}) < MaxFacts
  <2> DEFINE before == {d \in F : d < a}
  <2>1. before \in SUBSET F /\ a \notin before /\ before # F
    <3>1. ~(a < a)
      <4>1. a \in Nat
        BY <1>1, <1>4
      <4> QED
        BY <4>1
    <3>2. a \in F /\ a \notin before
      BY <3>1
    <3> HIDE DEF F
    <3> QED
      BY <3>2
  <2>2. IsFiniteSet(before) /\ Cardinality(before) \in Nat
    BY <1>2, <2>1, FS_Subset, FS_CardinalityType
  <2>3. Cardinality(before) <= Cardinality(F) /\ Cardinality(before) # Cardinality(F)
    <3> HIDE DEF F, before
    <3> QED
      BY <1>2, <2>1, FS_Subset
  <2> QED
    BY <1>2, <1>3, <2>2, <2>3, LimitsAssumption
<1> QED
  BY <1>4 DEF ShownFacts

\* The context of a function says of itself what it leaves out.
THEOREM ContextsAccount == Spec => []ContextAccounts
<1>1. IInv => ContextAccounts
  <2> SUFFICES ASSUME IInv, request.selector # None, phase \in {"propose", "validate", "render"}
               PROVE  /\ Cardinality(ShownStatements) <= Limit
                      /\ Cardinality(ShownStatements) + omittedStatements = Cardinality(Inside(Selected))
                      /\ Len(shown) + omittedBlocks = Len(Blocks)
                      /\ \A n \in 1..Len(Blocks) :
                            \/ \E m \in 1..Len(shown) : shown[m].block = n
                            \/ Cardinality(ShownStatements) + contract.size[Blocks[n]] > Limit
                      /\ ~FunctionTruncated =>
                            /\ ShownStatements = Inside(Selected)
                            /\ \A write \in BOOLEAN :
                                  ShownFacts(Selected, write) = Facts(Selected, write)
    BY DEF ContextAccounts
  <2>1. TypeOK /\ Answering /\ Handled(Len(Blocks))
    BY DEF IInv, ContextInv, Phases
  <2>2. Upto(Len(Blocks)) = Inside(Selected)
    BY <2>1, InsideSelected
  <2>3. ASSUME ~FunctionTruncated
        PROVE  ShownStatements = Inside(Selected)
    <3>1. omittedStatements = 0 /\ included \in Nat
      BY <2>1, <2>3 DEF FunctionTruncated, TypeOK
    <3>2. /\ ShownStatements \in SUBSET Inside(Selected) /\ IsFiniteSet(Inside(Selected))
          /\ Cardinality(Inside(Selected)) = Cardinality(ShownStatements)
      BY <2>1, <2>2, <3>1 DEF Handled
    <3> QED
      BY <3>2, FS_Subset
  <2>4. ASSUME ~FunctionTruncated, NEW write \in BOOLEAN
        PROVE  ShownFacts(Selected, write) = Facts(Selected, write)
    <3>1. ~(OmittedFacts(Selected, write) > 0)
      BY <2>4 DEF FunctionTruncated
    <3>2. OmittedFacts(Selected, write) = 0
      <4>1. /\ Len(contract.accesses) \in Nat /\ Accesses = 1..Len(contract.accesses)
            /\ Facts(Selected, write) \subseteq Accesses
        BY <2>1, ContractFacts DEF Built, Accesses, Facts, AccessesOf
      <4>2. Cardinality(Facts(Selected, write)) \in Nat
        <5>1. IsFiniteSet(Accesses)
          BY <4>1, FS_Interval
        <5>2. IsFiniteSet(Facts(Selected, write))
          BY <4>1, <5>1, FS_Subset
        <5> QED
          BY <5>2, FS_CardinalityType
      <4> QED
        BY <3>1, <4>2, LimitsAssumption DEF OmittedFacts, Excess
    <3> QED
      BY <2>1, <3>2, WholeFacts
  <2> QED
    BY <2>1, <2>2, <2>3, <2>4 DEF Handled
<1> QED
  BY <1>1, Invariance, PTL

\* A function's evidence is the same to the context and to validation.
LEMMA SameEvidence == \A f : EvidenceIds(f) = ContextEvidence(f)
BY DEF EvidenceIds, ContextEvidence

\* What is accepted about a function stays with its facts and its storage.
THEOREM AcceptedAreOwn == Spec => []AcceptedIsOwn
<1>1. IInv => AcceptedIsOwn
  <2> SUFFICES ASSUME IInv, phase \in {"render", "rendered"}
               PROVE  AcceptedIsOwn
    BY DEF AcceptedIsOwn
  <2>1. Accepted(proposal)
    BY DEF IInv, ProposalInv
  <2>2. \A k \in DOMAIN layout : layout[k] \in Accesses /\ k = Key(layout[k])
    BY DEF IInv, LayoutInv
  <2>3. \A f : EntriesOf(f) \subseteq {Key(a) : a \in AccessesOf(f)}
    BY <2>2 DEF EntriesOf
  <2>4. \A f : StorageOf(f) \subseteq ContextEvidence(f) \cup {Key(a) : a \in AccessesOf(f)}
    BY <2>3 DEF StorageOf, ContextEvidence
  <2>5. StorageIds \subseteq UNION {{Key(a), AccessId(a)} : a \in Accesses}
    BY <2>2 DEF StorageIds
  <2>6. ASSUME proposal.fn # None
        PROVE  /\ proposal.fn \in Functions
               /\ proposal.refs \cup DOMAIN proposal.labels \subseteq
                    ContextEvidence(proposal.fn) \cup {Key(a) : a \in AccessesOf(proposal.fn)}
    <3>1. FunctionAccepted(proposal)
      BY <2>1, <2>6 DEF Accepted
    <3> QED
      BY <3>1, <2>3, <2>4, SameEvidence DEF FunctionAccepted, KnownIn
  <2>7. proposal.contractRefs \cup DOMAIN proposal.contractLabels \subseteq
            (UNION {ContextEvidence(f) : f \in Functions})
                \cup (UNION {{Key(a), AccessId(a)} : a \in Accesses})
    <3>1. ContractAccepted(proposal)
      BY <2>1 DEF Accepted
    <3> QED
      BY <3>1, <2>5, SameEvidence DEF ContractAccepted, KnownAnywhere
  <2> QED
    BY <2>6, <2>7, Zenon DEF AcceptedIsOwn
<1> QED
  BY <1>1, Invariance, PTL

\* A label of the contract comes from an entry whose evidence the access is, or
\* is the access's own.
LEMMA LabelSource ==
    ASSUME IInv, NEW a \in Accesses, Labelled(proposal.contractLabels, a)
    PROVE  \E k \in DOMAIN proposal.contractLabels :
              /\ LabelOf(proposal.contractLabels, a) = proposal.contractLabels[k]
              /\ (k = AccessId(a) \/ (k = Key(a) /\ layout[k] = a))
BY DEF Labelled, LabelOf

\* A label of the contract is on one access.
LEMMA LabelTarget ==
    ASSUME IInv, NEW a \in Accesses, NEW d \in Accesses, NEW k,
           k = AccessId(a) \/ (k = Key(a) /\ layout[k] = a),
           k = AccessId(d) \/ (k = Key(d) /\ layout[k] = d)
    PROVE  a = d
<1>1. AccessId(a) = AccessId(d) => a = d
  BY DEF AccessId
<1>2. ASSUME NEW e \in Accesses, NEW c \in Accesses, AccessId(e) = Key(c)
      PROVE  e = c
  <2>1. DOMAIN AccessId(e) = {"access"}
    BY DEF AccessId
  <2>2. contract.accesses[c].loc.kind = Symbolic
    <3>1. DOMAIN EntryId(contract.accesses[c].loc) = {"entry"}
      BY DEF EntryId
    <3> QED
      BY <1>2, <2>1, <3>1 DEF Key
  <2> QED
    BY <1>2, <2>2 DEF Key, AccessId
<1> QED
  BY <1>1, <1>2

\* The contract's labels never merge two storage variables.
THEOREM LabelsAreApart == Spec => []LabelsKeepApart
<1>1. IInv => LabelsKeepApart
  <2> SUFFICES ASSUME IInv, phase = "rendered",
                      NEW f \in Places, NEW g \in Places,
                      NEW a \in AccessesOf(f), NEW d \in AccessesOf(g),
                      OutsideFunctionLabels(f, a), OutsideFunctionLabels(g, d),
                      body[f][a] = body[g][d],
                      body[f][a] # Default(Key(a)), body[f][a] # Default(Key(d))
               PROVE  SameVariable(a, d)
    BY DEF LabelsKeepApart
  <2> DEFINE L == proposal.contractLabels
  <2>1. a \in Accesses /\ d \in Accesses /\ Distinct(L)
    BY DEF AccessesOf, IInv, ProposalInv, Accepted, ContractAccepted
  <2>2. body[f][a] = NameIn(proposal, f, a) /\ body[g][d] = NameIn(proposal, g, d)
    BY DEF IInv, BodyInv
  <2>3. /\ Labelled(L, a) /\ body[f][a] = LabelOf(L, a)
        /\ Labelled(L, d) /\ body[g][d] = LabelOf(L, d)
    BY <2>2 DEF NameIn, OutsideFunctionLabels
  <2>4. PICK k \in DOMAIN L : /\ LabelOf(L, a) = L[k]
                              /\ (k = AccessId(a) \/ (k = Key(a) /\ layout[k] = a))
    BY <2>1, <2>3, LabelSource
  <2>5. PICK l \in DOMAIN L : /\ LabelOf(L, d) = L[l]
                              /\ (l = AccessId(d) \/ (l = Key(d) /\ layout[l] = d))
    BY <2>1, <2>3, LabelSource
  <2>6. k = l
    BY <2>1, <2>3, <2>4, <2>5 DEF Distinct
  <2>7. a = d
    BY <2>1, <2>4, <2>5, <2>6, LabelTarget
  <2> QED
    BY <2>7 DEF SameVariable
<1> QED
  BY <1>1, Invariance, PTL

----------------------------------------------------------------------------
(* The storage layout                                                      *)

\* One entry for each storage location, whose evidence is the first access to it.
LayoutIsExact ==
    phase # "infer" =>
        /\ DOMAIN layout = {Key(a) : a \in Accesses}
        /\ \A a \in Accesses : layout[Key(a)] <= a /\ SameVariable(layout[Key(a)], a)
        /\ \A a, d \in Accesses : layout[Key(a)] = layout[Key(d)] <=> SameVariable(a, d)

\* While the accesses are read, those before the cursor are accounted for.
FirstInv ==
    /\ phase = "infer" => \A k \in DOMAIN layout : layout[k] < cursor
    /\ \A a \in Accesses :
          (phase = "infer" => a < cursor) => Key(a) \in DOMAIN layout /\ layout[Key(a)] <= a

\* Two accesses have one key exactly if they are to one variable.
LEMMA KeysAreVariables ==
    ASSUME NEW a, NEW d
    PROVE  Key(a) = Key(d) <=> SameVariable(a, d)
<1> DEFINE l == contract.accesses[a].loc
           m == contract.accesses[d].loc
<1>1. AccessId(a) = AccessId(d) <=> a = d
  BY DEF AccessId
<1>2. EntryId(l) = EntryId(m) <=> l = m
  BY DEF EntryId
<1>3. \A x, y : AccessId(x) # EntryId(y)
  <2> TAKE x, y
  <2>1. DOMAIN AccessId(x) = {"access"} /\ DOMAIN EntryId(y) = {"entry"}
    BY DEF AccessId, EntryId
  <2> QED
    BY <2>1
<1>4. /\ Key(a) = IF l.kind = Symbolic THEN AccessId(a) ELSE EntryId(l)
      /\ Key(d) = IF m.kind = Symbolic THEN AccessId(d) ELSE EntryId(m)
  BY DEF Key
<1>5. SameVariable(a, d) <=> a = d \/ (l = m /\ l.kind # Symbolic)
  BY DEF SameVariable
<1>6. a = d => l = m
  OBVIOUS
<1> HIDE DEF l, m
<1> QED
  BY <1>1, <1>2, <1>3, <1>4, <1>5, <1>6

LEMMA FirstStep ==
    ASSUME IInv, FirstInv, [Next]_vars
    PROVE  FirstInv'
<1>1. /\ Accesses = 1..Len(contract.accesses) /\ Len(contract.accesses) \in Nat
      /\ cursor \in Nat \ {0}
  BY ContractFacts DEF IInv, TypeOK, Built, Accesses
<1>2. \A k \in DOMAIN layout : layout[k] \in Accesses
  BY DEF IInv, LayoutInv
<1>3. contract' = contract /\ request' = request
  BY DEF Next, ContextNext, Infer, LayoutDone, NotAnswered, LookUp, ShowBlock, ClipBlock,
         OmitBlock, ContextDone, Propose, Validate, Render, vars
<1>4. Accesses' = Accesses /\ \A a : Key(a)' = Key(a)
  BY <1>3, Fixed
<1>5. CASE Infer
  <2>1. /\ cursor \in Accesses /\ phase = "infer" /\ phase' = "infer" /\ cursor' = cursor + 1
        /\ DOMAIN layout' = DOMAIN layout \cup {Key(cursor)}
        /\ \A k \in DOMAIN layout : layout'[k] = layout[k]
        /\ Key(cursor) \notin DOMAIN layout => layout'[Key(cursor)] = cursor
    BY <1>5 DEF Infer
  <2>2. ASSUME NEW k \in DOMAIN layout'
        PROVE  layout'[k] < cursor'
    <3>1. CASE k \in DOMAIN layout
      <4>1. layout[k] < cursor /\ layout[k] \in Nat /\ layout'[k] = layout[k]
        BY <1>1, <1>2, <2>1, <3>1 DEF FirstInv
      <4> QED
        BY <1>1, <2>1, <4>1
    <3>2. CASE k \notin DOMAIN layout
      BY <1>1, <2>1, <2>2, <3>2
    <3> QED
      BY <3>1, <3>2
  <2>3. ASSUME NEW a \in Accesses, a < cursor'
        PROVE  Key(a) \in DOMAIN layout' /\ layout'[Key(a)] <= a
    <3>0. a \in Nat
      BY <1>1
    <3>1. CASE a < cursor
      BY <2>1, <3>1 DEF FirstInv
    <3>2. CASE ~(a < cursor)
      <4>1. a = cursor
        BY <1>1, <2>1, <2>3, <3>0, <3>2
      <4>2. Key(cursor) \in DOMAIN layout => layout[Key(cursor)] <= cursor
        <5>1. \A k \in DOMAIN layout : layout[k] \in Nat /\ layout[k] < cursor
          BY <1>1, <1>2, <2>1 DEF FirstInv
        <5> QED
          BY <1>1, <5>1
      <4>3. cursor <= cursor
        BY <1>1
      <4> QED
        BY <2>1, <4>1, <4>2, <4>3
    <3> QED
      BY <3>1, <3>2
  <2> QED
    BY <1>4, <2>1, <2>2, <2>3 DEF FirstInv
<1>6. CASE LayoutDone
  <2>1. /\ cursor \notin Accesses /\ phase = "infer" /\ phase' # "infer" /\ layout' = layout
    BY <1>6 DEF LayoutDone
  <2>2. \A a \in Accesses : a < cursor
    BY <1>1, <2>1
  <2> QED
    BY <1>4, <2>1, <2>2 DEF FirstInv
<1>7. CASE UNCHANGED vars
  BY <1>4, <1>7 DEF vars, FirstInv
<1>8. CASE \/ NotAnswered \/ LookUp \/ ShowBlock \/ ClipBlock \/ OmitBlock \/ ContextDone
           \/ Propose \/ Validate \/ Render
  <2>1. phase # "infer" /\ phase' # "infer" /\ layout' = layout
    BY <1>8 DEF NotAnswered, LookUp, ShowBlock, ClipBlock, OmitBlock, ContextDone, Propose,
                Validate, Render
  <2> QED
    BY <1>4, <2>1 DEF FirstInv
<1> QED
  BY <1>5, <1>6, <1>7, <1>8 DEF Next, ContextNext

LEMMA FirstStart == Init => FirstInv
<1> SUFFICES ASSUME Init PROVE FirstInv
  OBVIOUS
<1>1. IInv /\ layout = NoEntries /\ cursor = 1 /\ phase = "infer"
  BY InitInv DEF Init, ContextInit
<1>2. Accesses \subseteq Nat \ {0}
  BY <1>1, ContractFacts DEF IInv, Built, Accesses
<1>3. \A a \in Accesses : ~(a < cursor)
  BY <1>1, <1>2
<1> QED
  BY <1>1, <1>3 DEF FirstInv, NoEntries

\* The evidence of an entry is always an access accounted for.
LEMMA FirstInvariance == Spec => []FirstInv
<1>1. IInv /\ FirstInv /\ [Next]_vars => FirstInv'
  BY FirstStep
<1> QED
  BY <1>1, FirstStart, Invariance, PTL DEF Spec

\* infer_storage_layout has one entry for each variable that is accessed, no two
\* for one, and the evidence of an entry is the first access to it (setdefault,
\* inference/storage.py:78-82), whatever the accesses and their order.
THEOREM LayoutsAreExact == Spec => []LayoutIsExact
<1>1. IInv /\ FirstInv => LayoutIsExact
  <2> SUFFICES ASSUME IInv, FirstInv, phase # "infer"
               PROVE  LayoutIsExact
    BY DEF LayoutIsExact
  <2>1. /\ DOMAIN layout \subseteq {Key(a) : a \in Accesses}
        /\ \A k \in DOMAIN layout : layout[k] \in Accesses /\ Key(layout[k]) = k
    BY DEF IInv, LayoutInv
  <2>2. \A a \in Accesses : Key(a) \in DOMAIN layout /\ layout[Key(a)] <= a
    BY DEF FirstInv
  <2>3. DOMAIN layout = {Key(a) : a \in Accesses}
    BY <2>1, <2>2
  <2>4. \A a \in Accesses : SameVariable(layout[Key(a)], a)
    BY <2>1, <2>2, KeysAreVariables
  <2>5. \A a, d \in Accesses : layout[Key(a)] = layout[Key(d)] <=> Key(a) = Key(d)
    BY <2>1, <2>2
  <2> QED
    BY <2>2, <2>3, <2>4, <2>5, KeysAreVariables DEF LayoutIsExact
<1> QED
  BY <1>1, FirstInvariance, Invariance, PTL

----------------------------------------------------------------------------
(* What the contexts list, and what validation takes *)

\* A location's entry is a function's own to validation exactly if no other code
\* accesses the location earlier.
LEMMA EntryOfFirst ==
    ASSUME IInv, FirstInv, phase # "infer", NEW f, NEW a \in AccessesOf(f)
    PROVE  Key(a) \in EntriesOf(f) <=> ~EarlierElsewhere(f, Key(a))
<1> DEFINE e == layout[Key(a)]
<1>1. a \in Accesses /\ AccessesOf(f) \subseteq Accesses
  BY DEF AccessesOf
<1>2. Accesses \subseteq Nat
  BY ContractFacts DEF IInv, Built, Accesses
<1>3. Key(a) \in DOMAIN layout /\ e \in Accesses /\ Key(e) = Key(a)
  BY <1>1 DEF IInv, LayoutInv, FirstInv
<1>4. \A d \in Accesses : Key(d) = Key(a) => e <= d
  BY DEF FirstInv
<1>5. Key(a) \in EntriesOf(f) <=> e \in AccessesOf(f)
  BY <1>3 DEF EntriesOf
<1>6. ASSUME e \notin AccessesOf(f)
      PROVE  EarlierElsewhere(f, Key(a))
  <2>1. \A d \in AccessesOf(f) : Key(d) = Key(a) => e < d
    <3> SUFFICES ASSUME NEW d \in AccessesOf(f), Key(d) = Key(a) PROVE e < d
      OBVIOUS
    <3>1. e <= d /\ e # d /\ e \in Nat /\ d \in Nat
      BY <1>1, <1>2, <1>3, <1>4, <1>6
    <3> QED
      BY <3>1
  <2> QED
    BY <1>3, <1>6, <2>1 DEF EarlierElsewhere
<1>7. ASSUME EarlierElsewhere(f, Key(a)), e \in AccessesOf(f)
      PROVE  FALSE
  <2>1. PICK c \in Accesses : Key(c) = Key(a) /\ c < e
    BY <1>3, <1>7 DEF EarlierElsewhere
  <2>2. e <= c /\ c \in Nat /\ e \in Nat
    BY <1>2, <1>3, <1>4, <2>1
  <2> QED
    BY <2>1, <2>2
<1> QED
  BY <1>5, <1>6, <1>7

\* Ids of different things have different shapes.
LEMMA Shapes ==
    /\ \A x, y : /\ AccessId(x) # EntryId(y)
                 /\ AccessId(x) \notin {FunctionId(y), BlockId(y), StatementId(y), FactId(y)}
                 /\ EntryId(x) \notin {FunctionId(y), BlockId(y), StatementId(y), FactId(y)}
                 /\ StatementId(x) \notin {FunctionId(y), BlockId(y), FactId(y)}
    /\ \A x, y : AccessId(x) = AccessId(y) => x = y
    /\ \A x, y : StatementId(x) = StatementId(y) => x = y
<1>1. \A x : /\ DOMAIN AccessId(x) = {"access"} /\ DOMAIN EntryId(x) = {"entry"}
             /\ DOMAIN FunctionId(x) = {"function"} /\ DOMAIN BlockId(x) = {"block"}
             /\ DOMAIN StatementId(x) = {"statement"} /\ DOMAIN FactId(x) = {"fact"}
  BY DEF AccessId, EntryId, FunctionId, BlockId, StatementId, FactId
<1>2. /\ \A n \in {"function", "block", "statement", "fact", "entry"} : {"access"} # {n}
      /\ \A n \in {"function", "block", "statement", "fact"} : {"entry"} # {n}
      /\ \A n \in {"function", "block", "fact"} : {"statement"} # {n}
  OBVIOUS
<1>3. \A x, y : AccessId(x) = AccessId(y) => x = y
  BY DEF AccessId
<1>4. \A x, y : StatementId(x) = StatementId(y) => x = y
  BY DEF StatementId
<1> QED
  BY <1>1, <1>2, <1>3, <1>4

\* The layout entries that validation takes for a function's own, by the entries
\* or by the ids of its accesses, are those no other code accesses earlier.
LEMMA TakenAsOwn ==
    ASSUME IInv, FirstInv, phase # "infer", NEW f, NEW a \in AccessesOf(f)
    PROVE  /\ Key(a) \in KnownIn(f) <=> ~EarlierElsewhere(f, Key(a))
           /\ Key(a) \in StorageOf(f) <=> ~EarlierElsewhere(f, Key(a))
<1>1. ASSUME NEW d, Key(a) = AccessId(d), EarlierElsewhere(f, Key(a))
      PROVE  FALSE
  <2>1. \A c : Key(c) = AccessId(d) => c = d
    BY Shapes DEF Key
  <2> QED
    BY <1>1, <2>1 DEF EarlierElsewhere
<1>2. Key(a) \in EvidenceIds(f) => \E d : Key(a) = AccessId(d)
  BY Shapes DEF Key, EvidenceIds
<1> QED
  BY <1>1, <1>2, EntryOfFirst DEF KnownIn, StorageOf

\* A statement is known exactly if a function has it.
LEMMA StatementKnown ==
    ASSUME IInv, NEW s
    PROVE  StatementId(s) \in KnownAnywhere <=> \E f \in Functions : s \in Inside(f)
<1>1. ASSUME NEW f
      PROVE  StatementId(s) \in EvidenceIds(f) <=> s \in Inside(f)
  BY Shapes DEF EvidenceIds
<1>2. StatementId(s) \notin StorageIds
  <2>1. \A k \in DOMAIN layout : k \in {Key(a) : a \in Accesses}
    BY DEF IInv, LayoutInv
  <2>2. \A a : StatementId(s) # Key(a) /\ StatementId(s) # AccessId(a)
    BY Shapes DEF Key
  <2> QED
    BY <2>1, <2>2 DEF StorageIds
<1> QED
  BY <1>1, <1>2 DEF KnownAnywhere

\* An answer that keeps to what it was shown is refused only for a location that
\* other code accesses before the function, or for a statement no function has.
THEOREM OnlyForeignAreRefused == Spec => []OnlyForeignIsRefused
<1>1. IInv /\ FirstInv => OnlyForeignIsRefused
  <2> SUFFICES ASSUME IInv, FirstInv, phase \in {"refused", "render", "rendered"},
                      Honest(proposal)
               PROVE  phase = "refused" <=> NamesForeign(proposal)
    BY DEF OnlyForeignIsRefused
  <2> DEFINE p == proposal
             Early == \E a \in AccessesOf(p.fn) :
                 Key(a) \in p.refs \cup DOMAIN p.labels /\ EarlierElsewhere(p.fn, Key(a))
             Loose == \E s \in contract.unresolved :
                 StatementId(s) \in p.contractRefs /\ \A f \in Functions : s \notin Inside(f)
  <2>1. phase = "refused" <=> ~Accepted(proposal)
    BY DEF IInv, ProposalInv
  <2>2. ASSUME p.fn # None
        PROVE  FunctionAccepted(p) <=> ~Early
    <3>1. /\ p.fn \in Functions /\ p.selector \in {None, contract.selector[p.fn]}
          /\ p.refs \subseteq ContextEvidence(p.fn) \cup {Key(a) : a \in AccessesOf(p.fn)}
          /\ p.claim \/ DOMAIN p.labels # {} => p.refs # {}
          /\ \A k \in DOMAIN p.labels : \E a \in AccessesOf(p.fn) : k \in {AccessId(a), Key(a)}
          /\ Named(p.labels)
      BY <2>2 DEF Honest, FunctionListing, Named
    <3>2. \A a \in AccessesOf(p.fn) :
             /\ Key(a) \in KnownIn(p.fn) <=> ~EarlierElsewhere(p.fn, Key(a))
             /\ Key(a) \in StorageOf(p.fn) <=> ~EarlierElsewhere(p.fn, Key(a))
      BY TakenAsOwn
    <3>3. ASSUME ~Early
          PROVE  p.refs \subseteq KnownIn(p.fn) /\ DOMAIN p.labels \subseteq StorageOf(p.fn)
      <4>1. p.refs \subseteq KnownIn(p.fn)
        BY <3>1, <3>2, <3>3, SameEvidence DEF KnownIn
      <4>2. \A a \in AccessesOf(p.fn) : AccessId(a) \in StorageOf(p.fn)
        BY DEF StorageOf
      <4>3. DOMAIN p.labels \subseteq StorageOf(p.fn)
        BY <3>1, <3>2, <3>3, <4>2
      <4> QED
        BY <4>1, <4>3
    <3>4. ASSUME Early
          PROVE  ~(p.refs \subseteq KnownIn(p.fn) /\ DOMAIN p.labels \subseteq StorageOf(p.fn))
      BY <3>2, <3>4
    <3> QED
      BY <3>1, <3>3, <3>4 DEF FunctionAccepted
  <2>3. ContractAccepted(p) <=> ~Loose
    <3>1. /\ p.contractRefs \subseteq ContractListing
          /\ p.contractClaim \/ DOMAIN p.contractLabels # {} => p.contractRefs # {}
          /\ DOMAIN p.contractLabels \subseteq StorageIds
          /\ Named(p.contractLabels) /\ Distinct(p.contractLabels)
      BY DEF Honest, Named, Distinct
    <3>2. {FunctionId(f) : f \in Functions} \cup StorageIds \subseteq KnownAnywhere
      BY DEF KnownAnywhere, EvidenceIds
    <3>3. p.contractRefs \subseteq KnownAnywhere <=> ~Loose
      BY <3>1, <3>2, StatementKnown DEF ContractListing
    <3> QED
      BY <3>1, <3>3 DEF ContractAccepted
  <2>4. p.bound
    BY DEF Honest
  <2>5. NamesForeign(p) <=> (p.fn # None /\ Early) \/ Loose
    BY DEF NamesForeign
  <2> QED
    BY <2>1, <2>2, <2>3, <2>4, <2>5 DEF Accepted
<1> QED
  BY <1>1, FirstInvariance, Invariance, PTL
=============================================================================
