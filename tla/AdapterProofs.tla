--------------------------- MODULE AdapterProofs ----------------------------
(***************************************************************************)
(* What every recovered program, with any files missing, comes to: the     *)
(* properties of Adapter for all Programs and Absences.                    *)
(***************************************************************************)
EXTENDS Adapter, WellFoundedInduction, TLAPS

----------------------------------------------------------------------------
(* The inductive invariant: what each phase has established *)

Loaded == phase # "load" => rel = [n \in Names |-> IF n \in absent THEN {} ELSE Client(program)[n]]
Unloaded == phase = "load" => rel = NoRows

Accepting == {"read", "build", "bad_IR", "check", "published", "bad_structure"}
Reading == {"build", "bad_IR", "check", "published", "bad_structure"}
Building == {"check", "published", "bad_structure"}

Accepted == phase \in Accepting => RelationsAccepted
Picked == IF phase \in Reading
          THEN entry \in Kept(rel.FunctionEntry) /\ branch \in Kept(rel.ConditionalSuccessor)
          ELSE entry = NoDict /\ branch = NoDict
Built == IF phase \in Building
         THEN Buildable /\ ModelsAccept /\ contract = Contract
         ELSE contract = Nothing
Inputs == /\ program \in Programs /\ absent \in Absences /\ phase \in Phases

IInv == Inputs /\ Loaded /\ Unloaded /\ Accepted /\ Picked /\ Built /\ StructureAccepted

----------------------------------------------------------------------------
(* What was loaded *)

\* Each relation is what the client emitted for it, or empty.
Given(n, S) == IF n \in absent THEN {} ELSE S

LEMMA LoadedRows ==
    ASSUME IInv, phase # "load"
    PROVE  /\ rel.Block = program.blocks
           /\ rel.BlockSuccessor = Given("BlockSuccessor", program.edges)
           /\ rel.ConditionalSuccessor = Given("ConditionalSuccessor", BranchRows(program))
           /\ rel.Statement = DOMAIN program.home
           /\ rel.StatementBlock = Given("StatementBlock", {<<s, program.home[s]>> : s \in DOMAIN program.home})
           /\ rel.PublicFunction = Given("PublicFunction", SelectorRows(program))
           /\ rel.FunctionEntry = Given("FunctionEntry", EntryRows(program))
           /\ rel.FunctionBlock = Given("FunctionBlock", MemberRows(program))
           /\ rel.Effect = Given("Effect", program.effects)
           /\ DOMAIN rel = Names
<1>1. rel = [n \in Names |-> IF n \in absent THEN {} ELSE Client(program)[n]]
  BY DEF IInv, Loaded
<1>2. "Block" \notin absent /\ "Statement" \notin absent
  BY AbsencesAssumption DEF IInv, Inputs, Required
<1> QED
  BY <1>1, <1>2 DEF Names, Client, EffectRows, Given

LEMMA UnloadedRows ==
    ASSUME IInv, phase = "load"
    PROVE  /\ rel.Block = {} /\ rel.BlockSuccessor = {} /\ rel.ConditionalSuccessor = {}
           /\ rel.Statement = {} /\ rel.StatementBlock = {} /\ rel.PublicFunction = {}
           /\ rel.FunctionEntry = {} /\ rel.FunctionBlock = {} /\ rel.Effect = {}
           /\ DOMAIN rel = Names
BY DEF IInv, Unloaded, NoRows, Names

----------------------------------------------------------------------------
(* What was built *)

LEMMA ViewFields ==
    ASSUME NEW f
    PROVE  /\ View(f).id = f
           /\ View(f).selector = IF Selectors(f) = {} THEN None ELSE Least(Selectors(f))
           /\ View(f).entry = EntryOf(f)
           /\ View(f).blocks = Members(f)
           /\ View(f).edges = {e \in rel.BlockSuccessor : e[1] \in Members(f) /\ e[2] \in Inside(f, e[1])}
           /\ View(f).statements = Statements(Members(f))
           /\ View(f).effects = EffectsOf(f)
BY DEF View

LEMMA ContractFields ==
    /\ Contract.functions = {View(f) : f \in Functions}
    /\ Contract.blocks = BlockIds
    /\ Contract.edges = rel.BlockSuccessor
    /\ Contract.statements = Statements(BlockIds)
    /\ Contract.effects = rel.Effect
    /\ Contract.unassigned = BlockIds \ Assigned
BY DEF Contract

\* What the models let through is well structured: they check all of it but
\* that effects lie in their function, which is how they were chosen.
LEMMA BuiltIsSound ==
    ASSUME IInv, phase = "check"
    PROVE  StructureHolds
<1>1. ModelsAccept /\ contract = Contract
  BY DEF IInv, Built, Building
<1>2. \A v \in contract.functions :
         /\ v.entry \in v.blocks
         /\ v.blocks \subseteq contract.blocks
         /\ v.statements \subseteq contract.statements
         /\ v.edges \subseteq v.blocks \X v.blocks
  BY <1>1 DEF ModelsAccept
<1>3. \A v \in contract.functions : v.effects \subseteq v.statements
  <2> TAKE v \in contract.functions
  <2>1. PICK f \in Functions : v = View(f)
    BY <1>1, ContractFields
  <2> QED
    BY <2>1, ViewFields DEF EffectsOf
<1>4. contract.edges \subseteq contract.blocks \X contract.blocks
  <2>1. rel.BlockSuccessor \subseteq rel.Block \X rel.Block
    BY DEF IInv, Accepted, Accepting, RelationsAccepted
  <2> QED
    BY <1>1, <2>1, ContractFields DEF BlockIds
<1> QED
  BY <1>2, <1>3, <1>4 DEF StructureHolds

----------------------------------------------------------------------------
(* Preservation *)

LEMMA InitInv == Init => IInv
BY DEF Init, IInv, Inputs, Loaded, Unloaded, Accepted, Accepting, Picked, Reading, Built,
       Building, StructureAccepted, Phases, Ended

\* The operators of the builder read the rows and the kept rows only.
LEMMA SameRows ==
    ASSUME UNCHANGED <<rel, entry, branch>>
    PROVE  /\ RelationsAccepted' = RelationsAccepted
           /\ Buildable' = Buildable /\ ModelsAccept' = ModelsAccept /\ Contract' = Contract
           /\ Kept(rel.FunctionEntry)' = Kept(rel.FunctionEntry)
           /\ Kept(rel.ConditionalSuccessor)' = Kept(rel.ConditionalSuccessor)
<1>1. rel' = rel /\ entry' = entry /\ branch' = branch
  OBVIOUS
<1>2. RelationsAccepted' = RelationsAccepted
  BY <1>1 DEF RelationsAccepted, FunctionsKnown
<1>3. BlockIds' = BlockIds /\ StatementIds' = StatementIds /\ FromRows' = FromRows
  BY <1>1 DEF BlockIds, StatementIds, FromRows
<1>4. Functions' = Functions
  BY <1>3 DEF Functions
<1>5. \A f : EntryOf(f)' = EntryOf(f) /\ Listed(f)' = Listed(f) /\ Selectors(f)' = Selectors(f)
  BY <1>1, <1>3 DEF EntryOf, Listed, Selectors
<1>6. \A f : Members(f)' = Members(f)
  BY <1>5 DEF Members
<1>7. \A b : Successors(b)' = Successors(b)
  BY <1>1 DEF Successors
<1>8. \A B : Statements(B)' = Statements(B)
  BY <1>1 DEF Statements
<1>9. \A f, b : Inside(f, b)' = Inside(f, b)
  BY <1>6, <1>7 DEF Inside
<1>10. \A f : EffectsOf(f)' = EffectsOf(f)
  <2> TAKE f
  <2>1. EffectsOf(f)' = rel'.Effect \cap Statements(Members(f))'
    BY DEF EffectsOf
  <2>2. Statements(Members(f))' = Statements(Members(f))
    BY <1>1, <1>6 DEF Statements
  <2> QED
    BY <1>1, <2>1, <2>2 DEF EffectsOf
<1>11. \A f : View(f)' = View(f)
  <2> TAKE f
  <2>2. Statements(Members(f))' = Statements(Members(f))
    BY <1>1, <1>6 DEF Statements
  <2>3. {e \in rel.BlockSuccessor : e[1] \in Members(f) /\ e[2] \in Inside(f, e[1])}'
          = {e \in rel.BlockSuccessor : e[1] \in Members(f) /\ e[2] \in Inside(f, e[1])}
    BY <1>1, <1>6, <1>9
  <2> QED
    BY <1>5, <1>6, <1>10, <2>2, <2>3, Zenon DEF View
<1>12. Assigned' = Assigned
  BY <1>1, <1>4, <1>5 DEF Assigned
<1>13. Contract' = Contract
  <2>1. {View(f) : f \in Functions}' = {View(f) : f \in Functions}
    BY <1>4, <1>11
  <2>2. Statements(BlockIds)' = Statements(BlockIds)
    BY <1>1, <1>3 DEF Statements
  <2> QED
    BY <1>1, <1>3, <1>12, <2>1, <2>2, Zenon DEF Contract
<1>14. Buildable' = Buildable
  BY <1>1, <1>3, <1>4, <1>6 DEF Buildable, StatementsPlaced, FunctionsRooted
<1>15. ModelsAccept' = ModelsAccept
  <2>1. \A E, B : BranchesAreEdges(E, B)' = BranchesAreEdges(E, B)
    BY <1>1 DEF BranchesAreEdges
  <2>2. IdsUnique' = IdsUnique
    BY <1>1 DEF IdsUnique
  <2> QED
    BY <1>13, <2>1, <2>2 DEF ModelsAccept
<1> QED
  BY <1>1, <1>2, <1>13, <1>14, <1>15

LEMMA NextInv == ASSUME IInv, [Next]_vars PROVE IInv'
<1> USE DEF Phases, Ended, Accepting, Reading, Building
<1>1. CASE Load
  <2>1. /\ phase = "load" /\ phase' = "validate"
        /\ rel' = [n \in Names |-> IF n \in absent THEN {} ELSE Client(program)[n]]
        /\ UNCHANGED <<program, absent, entry, branch, contract>>
    BY <1>1 DEF Load
  <2> QED
    BY <2>1 DEF IInv, Inputs, Loaded, Unloaded, Accepted, Picked, Built, StructureAccepted
<1>2. CASE Validate
  <2>1. /\ phase = "validate"
        /\ phase' = IF RelationsAccepted THEN "read" ELSE "bad_relations"
        /\ UNCHANGED <<program, absent, rel, entry, branch, contract>>
    BY <1>2 DEF Validate
  <2>2. RelationsAccepted' = RelationsAccepted
    BY <2>1, SameRows
  <2> QED
    BY <2>1, <2>2 DEF IInv, Inputs, Loaded, Unloaded, Accepted, Picked, Built, StructureAccepted
<1>3. CASE ReadRows
  <2>1. /\ phase = "read" /\ phase' = "build"
        /\ entry' \in Kept(rel.FunctionEntry) /\ branch' \in Kept(rel.ConditionalSuccessor)
        /\ UNCHANGED <<program, absent, rel, contract>>
    BY <1>3 DEF ReadRows
  <2>2. RelationsAccepted' = RelationsAccepted
    BY <2>1 DEF RelationsAccepted, FunctionsKnown
  <2>3. Kept(rel.FunctionEntry)' = Kept(rel.FunctionEntry)
        /\ Kept(rel.ConditionalSuccessor)' = Kept(rel.ConditionalSuccessor)
    BY <2>1
  <2> QED
    BY <2>1, <2>2, <2>3 DEF IInv, Inputs, Loaded, Unloaded, Accepted, Picked, Built, StructureAccepted
<1>4. CASE Refuse
  <2>1. /\ phase = "build" /\ phase' = "bad_IR"
        /\ UNCHANGED <<program, absent, rel, entry, branch, contract>>
    BY <1>4 DEF Refuse
  <2> QED
    BY <2>1, SameRows DEF IInv, Inputs, Loaded, Unloaded, Accepted, Picked, Built, StructureAccepted
<1>5. CASE Build
  <2>1. /\ phase = "build" /\ phase' = "check"
        /\ Buildable /\ ModelsAccept /\ contract' = Contract
        /\ UNCHANGED <<program, absent, rel, entry, branch>>
    BY <1>5 DEF Build
  <2> QED
    BY <2>1, SameRows DEF IInv, Inputs, Loaded, Unloaded, Accepted, Picked, Built, StructureAccepted
<1>6. CASE CheckStructure
  <2>1. /\ phase = "check"
        /\ phase' = IF StructureHolds THEN "published" ELSE "bad_structure"
        /\ UNCHANGED <<program, absent, rel, entry, branch, contract>>
    BY <1>6 DEF CheckStructure
  <2>2. phase' = "published"
    BY <2>1, BuiltIsSound
  <2>3. Inputs' /\ StructureAccepted'
    BY <2>1, <2>2 DEF IInv, Inputs, StructureAccepted
  <2>4. Loaded' /\ Unloaded'
    BY <2>1, <2>2 DEF IInv, Loaded, Unloaded
  <2>5. Accepted' /\ Picked'
    BY <2>1, <2>2, SameRows DEF IInv, Accepted, Picked
  <2>6. Built'
    BY <2>1, <2>2, SameRows DEF IInv, Built
  <2> QED
    BY <2>3, <2>4, <2>5, <2>6 DEF IInv
<1>7. CASE UNCHANGED vars
  <2>1. UNCHANGED <<program, absent, rel, phase, entry, branch, contract>>
    BY <1>7 DEF vars
  <2>2. Inputs' /\ Loaded' /\ Unloaded' /\ StructureAccepted'
    BY <2>1 DEF IInv, Inputs, Loaded, Unloaded, StructureAccepted
  <2>3. Accepted' /\ Picked'
    BY <2>1, SameRows DEF IInv, Accepted, Picked
  <2>4. Built'
    <3>1. Buildable' = Buildable /\ ModelsAccept' = ModelsAccept /\ Contract' = Contract
      BY <2>1, SameRows
    <3>2. phase' = phase /\ contract' = contract /\ Built
      BY <2>1 DEF IInv
    <3> QED
      BY <3>1, <3>2, Zenon DEF Built
  <2> QED
    BY <2>2, <2>3, <2>4 DEF IInv
<1> QED
  BY <1>1, <1>2, <1>3, <1>4, <1>5, <1>6, <1>7 DEF Next

LEMMA Invariance == Spec => []IInv
<1>1. Init => IInv
  BY InitInv
<1>2. IInv /\ [Next]_vars => IInv'
  BY NextInv
<1> QED
  BY <1>1, <1>2, PTL DEF Spec

----------------------------------------------------------------------------
(* Theorems *)

\* What the builder makes of accepted rows never fails validate_structure, for
\* any program and whatever files are missing (decompile.py:368).
THEOREM StructuresAreAccepted == Spec => []StructureAccepted
<1>1. IInv => StructureAccepted
  BY DEF IInv
<1> QED
  BY <1>1, Invariance, PTL

LEMMA TypesFollow == IInv => TypeOK
<1> SUFFICES ASSUME IInv PROVE TypeOK
  OBVIOUS
<1>1. Recovered(program) /\ absent \in Absences /\ phase \in Phases
  BY ProgramsAssumption DEF IInv, Inputs
<1>2. /\ entry = NoDict \/ entry \in Kept(rel.FunctionEntry)
      /\ branch = NoDict \/ branch \in Kept(rel.ConditionalSuccessor)
      /\ contract = Nothing \/ contract = Contract
  BY DEF IInv, Picked, Built
<1>3. CASE phase = "load"
  BY <1>1, <1>2, <1>3, UnloadedRows DEF TypeOK
<1>4. CASE phase # "load"
  <2>1. /\ rel.Block \subseteq program.blocks
        /\ rel.BlockSuccessor \subseteq program.blocks \X program.blocks
        /\ rel.Statement \subseteq DOMAIN program.home
        /\ rel.Effect \subseteq DOMAIN program.home
    BY <1>1, <1>4, LoadedRows DEF Given, Recovered
  <2>2. rel.ConditionalSuccessor \subseteq program.blocks \X program.blocks \X program.blocks
    BY <1>1, <1>4, LoadedRows DEF Given, BranchRows
  <2>3. rel.StatementBlock \subseteq (DOMAIN program.home) \X program.blocks
    BY <1>1, <1>4, LoadedRows DEF Given, Recovered
  <2>4. rel.PublicFunction \subseteq Nat \X Firsts(OwnerRows)
    <3> SUFFICES ASSUME NEW r \in rel.PublicFunction PROVE r \in Nat \X Firsts(OwnerRows)
      OBVIOUS
    <3>1. PICK s \in program.selectors : r = <<s[2], s[1]>>
      BY <1>4, LoadedRows DEF Given, SelectorRows
    <3>2. s[2] \in Nat /\ s[1] \in {program.owner[b] : b \in DOMAIN program.owner}
      BY <1>1 DEF Recovered
    <3>3. PICK b \in DOMAIN program.owner : s[1] = program.owner[b]
      BY <3>2
    <3>4. <<program.owner[b], b>> \in OwnerRows
      BY DEF OwnerRows
    <3>5. s[1] \in Firsts(OwnerRows)
      BY <3>3, <3>4 DEF Firsts
    <3> QED
      BY <3>1, <3>2, <3>5
  <2>5. rel.FunctionEntry \subseteq OwnerRows
    BY <1>1, <1>4, LoadedRows DEF Given, EntryRows, OwnerRows, Recovered
  <2>6. rel.FunctionBlock \subseteq OwnerRows
    BY <1>1, <1>4, LoadedRows DEF Given, MemberRows, OwnerRows
  <2> QED
    BY <1>1, <1>2, <1>4, <2>1, <2>2, <2>3, <2>4, <2>5, <2>6, LoadedRows DEF TypeOK
<1> QED
  BY <1>3, <1>4

\* The rows of any workspace name blocks, functions and instructions of its
\* program, an entry belongs to its function, and what is read are rows.
THEOREM TypeCorrect == Spec => []TypeOK
BY TypesFollow, Invariance, PTL

----------------------------------------------------------------------------
(* What a published contract shows *)

\* The functions of a contract from rows, and what they own.
LEMMA PublishedFacts ==
    ASSUME IInv, phase = "published"
    PROVE  /\ RelationsAccepted /\ Buildable /\ IdsUnique
           /\ contract = Contract
           /\ entry \in Kept(rel.FunctionEntry)
           /\ DOMAIN entry = Firsts(rel.FunctionEntry)
           /\ Recovered(program)
           /\ BlockIds = program.blocks
<1>1. /\ RelationsAccepted /\ Buildable /\ ModelsAccept /\ contract = Contract
      /\ entry \in Kept(rel.FunctionEntry)
  BY DEF IInv, Accepted, Accepting, Picked, Reading, Built, Building
<1>2. DOMAIN entry = Firsts(rel.FunctionEntry)
  BY <1>1 DEF Kept
<1>3. Recovered(program)
  BY ProgramsAssumption DEF IInv, Inputs
<1>4. BlockIds = program.blocks
  <2>1. rel.Block = program.blocks
    BY LoadedRows
  <2>2. /\ Firsts(rel.BlockSuccessor) \subseteq rel.Block
        /\ Seconds(rel.BlockSuccessor) \subseteq rel.Block
    BY <1>1 DEF RelationsAccepted, Firsts, Seconds
  <2> QED
    BY <1>1, <2>1, <2>2 DEF BlockIds, RelationsAccepted
<1> QED
  BY <1>1, <1>2, <1>3, <1>4 DEF ModelsAccept

LEMMA EffectsFollow == IInv => EveryEffectShown
<1> SUFFICES ASSUME IInv, phase = "published", "Effect" \notin absent, NEW s \in program.effects
             PROVE  \/ \E v \in contract.functions : s \in v.effects /\ program.home[s] \in v.blocks
                    \/ program.home[s] \in contract.unassigned
  BY DEF EveryEffectShown
<1>1. s \in rel.Effect
  BY LoadedRows DEF Given
<1>2. s \in DOMAIN program.home /\ program.home[s] \in program.blocks
  BY PublishedFacts DEF Recovered
<1>3. <<s, program.home[s]>> \in rel.StatementBlock
  <2>1. s \in StatementIds
    BY <1>2, LoadedRows DEF StatementIds
  <2>2. PICK r \in rel.StatementBlock : r[1] = s
    BY <2>1, PublishedFacts DEF Buildable, StatementsPlaced, FunctionsRooted, Firsts
  <2> QED
    BY <1>2, <2>2, LoadedRows DEF Given
<1>4. CASE program.home[s] \notin Assigned
  BY <1>2, <1>4, PublishedFacts, ContractFields
<1>5. CASE program.home[s] \in Assigned
  <2>1. PICK f \in Functions : program.home[s] \in Members(f)
    BY <1>5 DEF Assigned, Members
  <2>2. s \in Statements(Members(f))
    BY <1>3, <2>1 DEF Statements
  <2>3. s \in View(f).effects /\ program.home[s] \in View(f).blocks
    BY <1>1, <2>1, <2>2, ViewFields DEF EffectsOf
  <2>4. View(f) \in contract.functions
    BY <2>1, PublishedFacts, ContractFields
  <2> QED
    BY <2>3, <2>4
<1> QED
  BY <1>4, <1>5

\* For any program and whatever files are missing, nothing the analyzer found
\* an instruction to do is lost between its rows and the published contract.
THEOREM EffectsAreShown == Spec => []EveryEffectShown
BY EffectsFollow, Invariance, PTL

\* A function that FunctionBlock lists is among those of the contract.
LEMMA ListedAreFunctions ==
    ASSUME IInv, phase = "published", NEW r \in rel.FunctionBlock
    PROVE  /\ r[1] \in FromRows /\ Functions = FromRows
           /\ r[2] \in Listed(r[1])
<1>1. r[1] \in Firsts(rel.FunctionBlock)
  BY DEF Firsts
<1>2. r[1] \in FromRows
  BY <1>1, PublishedFacts DEF RelationsAccepted, FunctionsKnown, FromRows
<1> QED
  BY <1>2 DEF Functions, Listed

\* With FunctionBlock there, a function's members are the blocks it owns.
LEMMA MembersAreOwned ==
    ASSUME IInv, phase \in Reading, "FunctionBlock" \notin absent, FromRows # {},
           NEW f \in FromRows, f \in DOMAIN entry
    PROVE  Members(f) = {b \in DOMAIN program.owner : program.owner[b] = f}
<1>1. rel.FunctionBlock = MemberRows(program)
  BY LoadedRows DEF Given, Reading
<1>2. Listed(f) = {b \in DOMAIN program.owner : program.owner[b] = f}
  <2>1. Listed(f) = {r[2] : r \in {q \in rel.FunctionBlock : q[1] = f}}
    BY DEF Listed
  <2>2. ASSUME NEW b \in DOMAIN program.owner, program.owner[b] = f
        PROVE  b \in Listed(f)
    <3>1. <<f, b>> \in rel.FunctionBlock
      BY <1>1, <2>2 DEF MemberRows
    <3> QED
      BY <2>1, <3>1
  <2>3. ASSUME NEW b \in Listed(f)
        PROVE  b \in DOMAIN program.owner /\ program.owner[b] = f
    <3>1. PICK r \in rel.FunctionBlock : r[1] = f /\ r[2] = b
      BY <2>1
    <3> QED
      BY <1>1, <3>1 DEF MemberRows
  <2> QED
    BY <2>2, <2>3
<1>3. EntryOf(f) \in Listed(f)
  <2>1. entry \in Kept(rel.FunctionEntry) /\ Recovered(program)
    BY ProgramsAssumption DEF IInv, Inputs, Picked
  <2>2. entry[f] \in rel.FunctionEntry /\ entry[f][1] = f
    BY <2>1 DEF Kept
  <2>3. entry[f] \in EntryRows(program)
    BY <2>2, LoadedRows DEF Given, Reading
  <2>4. entry[f][2] \in DOMAIN program.owner /\ program.owner[entry[f][2]] = f
    BY <2>1, <2>2, <2>3 DEF EntryRows, Recovered
  <2> QED
    BY <1>2, <2>4 DEF EntryOf
<1> QED
  BY <1>2, <1>3 DEF Members

LEMMA OwnersFollow == IInv => OwnedOnce
<1> SUFFICES ASSUME IInv, phase = "published", "FunctionBlock" \notin absent, NEW b \in program.blocks
             PROVE  LET owners == {v.id : v \in {w \in contract.functions : b \in w.blocks}}
                    IN  IF b \in DOMAIN program.owner
                        THEN owners = {program.owner[b]} /\ b \notin contract.unassigned
                        ELSE owners = {Fallback} <=> b \notin contract.unassigned
  BY DEF OwnedOnce
<1> DEFINE owners == {v.id : v \in {w \in contract.functions : b \in w.blocks}}
<1>1. owners = {f \in Functions : b \in Members(f)}
  <2>1. contract.functions = {View(f) : f \in Functions}
    BY PublishedFacts, ContractFields
  <2> QED
    BY <2>1, ViewFields
<1>2. b \in contract.unassigned <=> b \notin Assigned
  BY PublishedFacts, ContractFields
<1>3. rel.FunctionBlock = MemberRows(program)
  BY LoadedRows DEF Given
<1>5. CASE FromRows = {}
  <2>1. rel.FunctionBlock = {}
    BY <1>5, ListedAreFunctions
  <2>2. b \notin DOMAIN program.owner
    BY <1>3, <2>1 DEF MemberRows
  <2>3. Functions = {Fallback} /\ Listed(Fallback) = program.blocks
    BY <1>5, PublishedFacts DEF Functions, Listed
  <2>4. b \in Members(Fallback)
    BY <2>3 DEF Members
  <2>5. b \in Assigned
    BY <2>3, <2>4 DEF Assigned, Members
  <2> QED
    BY <1>1, <1>2, <2>2, <2>3, <2>4, <2>5
<1>6. CASE FromRows # {}
  <2>1. Functions = FromRows /\ FromRows \subseteq DOMAIN entry /\ phase \in Reading
    BY <1>6, PublishedFacts DEF Functions, Buildable, StatementsPlaced, FunctionsRooted, Reading
  <2>2. owners = {f \in FromRows : b \in DOMAIN program.owner /\ program.owner[b] = f}
    BY <1>1, <1>6, <2>1, MembersAreOwned
  <2>3. CASE b \in DOMAIN program.owner
    <3>1. <<program.owner[b], b>> \in rel.FunctionBlock
      BY <1>3, <2>3 DEF MemberRows
    <3>2. program.owner[b] \in FromRows
      BY <3>1, ListedAreFunctions
    <3>3. b \in Members(program.owner[b]) /\ Listed(program.owner[b]) # {}
      BY <1>6, <2>1, <2>3, <3>1, <3>2, MembersAreOwned, ListedAreFunctions
    <3>4. b \in Assigned
      BY <2>1, <3>2, <3>3 DEF Assigned, Members
    <3> QED
      BY <1>2, <2>2, <2>3, <3>2, <3>4
  <2>4. CASE b \notin DOMAIN program.owner
    <3>1. owners = {}
      BY <2>2, <2>4
    <3>2. b \notin Assigned
      BY <1>6, <2>1, <2>4, MembersAreOwned DEF Assigned, Members
    <3> QED
      BY <1>2, <2>4, <3>1, <3>2
  <2> QED
    BY <2>3, <2>4
<1> QED
  BY <1>5, <1>6

\* For any program with FunctionBlock there, a published contract shows each
\* block in the one function that owns it, or among those no function owns.
THEOREM BlocksAreOwnedOnce == Spec => []OwnedOnce
BY OwnersFollow, Invariance, PTL
----------------------------------------------------------------------------
(* Selectors *)

LEMMA SelectorsFollow == IInv => SelectorsShown
<1> SUFFICES ASSUME IInv, phase = "published", "PublicFunction" \notin absent
             PROVE  {<<v.id, v.selector>> : v \in {w \in contract.functions : w.selector # None}}
                        = program.selectors
  BY DEF SelectorsShown
<1> DEFINE shown == {<<v.id, v.selector>> : v \in {w \in contract.functions : w.selector # None}}
<1>1. rel.PublicFunction = SelectorRows(program)
  BY LoadedRows DEF Given
<1>2. contract.functions = {View(f) : f \in Functions}
  BY PublishedFacts, ContractFields
<1>3. ASSUME NEW f, NEW n \in Nat, <<n, f>> \in rel.PublicFunction
      PROVE  View(f).selector = n /\ View(f).id = f /\ n # None
  <2>1. Selectors(f) = {n}
    <3>1. n \in Selectors(f)
      BY <1>3 DEF Selectors
    <3>2. ASSUME NEW k \in Selectors(f) PROVE k = n
      <4>1. PICK r \in rel.PublicFunction : r[2] = f /\ r[1] = k
        BY DEF Selectors
      <4>2. r = <<n, f>>
        BY <1>3, <4>1, PublishedFacts DEF IdsUnique
      <4> QED
        BY <4>1, <4>2
    <3> QED
      BY <3>1, <3>2
  <2>2. Least({n}) = n
    BY DEF Least
  <2> QED
    BY <2>1, <2>2, ViewFields, NoneAssumption
<1>4. \A s \in program.selectors : s = <<s[1], s[2]>> /\ s[2] \in Nat /\ <<s[2], s[1]>> \in rel.PublicFunction
  BY <1>1, PublishedFacts DEF Recovered, SelectorRows
<1>5. ASSUME NEW s \in program.selectors PROVE s \in shown
  <2> DEFINE f == s[1]
            n == s[2]
  <2>0. n \in Nat /\ <<n, f>> \in rel.PublicFunction
    BY <1>4
  <2>5. <<n, f>>[2] = f
    OBVIOUS
  <2> HIDE DEF f, n
  <2>1. View(f).selector = n /\ View(f).id = f /\ n # None
    BY <1>3, <2>0
  <2>2. f \in FromRows
    BY <2>0, <2>5 DEF FromRows, Seconds
  <2>3. View(f) \in contract.functions
    BY <1>2, <2>2 DEF Functions
  <2>4. <<f, n>> \in shown
    BY <2>1, <2>3
  <2>6. s = <<f, n>>
    BY <1>4 DEF f, n
  <2> QED
    BY <2>4, <2>6
<1>6. ASSUME NEW x \in shown PROVE x \in program.selectors
  <2>1. PICK v \in contract.functions : v.selector # None /\ x = <<v.id, v.selector>>
    OBVIOUS
  <2>2. PICK f \in Functions : v = View(f)
    BY <1>2
  <2>3. Selectors(f) # {}
    BY <2>1, <2>2, ViewFields
  <2>4. PICK r \in rel.PublicFunction : r[2] = f
    BY <2>3 DEF Selectors
  <2>5. PICK s \in program.selectors : r = <<s[2], s[1]>>
    BY <1>1 DEF SelectorRows
  <2>6. s[1] = f /\ s[2] \in Nat
    BY <1>4, <2>4, <2>5
  <2>7. x = <<s[1], s[2]>>
    <3>1. <<s[2], f>> \in rel.PublicFunction
      BY <1>4, <2>6
    <3>2. View(f).selector = s[2] /\ View(f).id = f
      BY <1>3, <2>6, <3>1
    <3> QED
      BY <2>1, <2>2, <2>6, <3>2
  <2> QED
    BY <1>4, <2>7
<1> QED
  BY <1>5, <1>6

\* For any program with PublicFunction there, a published contract has every
\* selector of the dispatcher, and one function for each.
THEOREM SelectorsAreShown == Spec => []SelectorsShown
BY SelectorsFollow, Invariance, PTL
----------------------------------------------------------------------------
(* Acceptance *)

LEMMA LeastIsMember ==
    ASSUME NEW S, S \subseteq Nat, S # {}
    PROVE  Least(S) \in S
<1> DEFINE R == {p \in Nat \X Nat : p[1] < p[2]}
<1>1. IsWellFoundedOn(R, Nat)
  <2>1. OpToRel(<, Nat) = R
    BY DEF OpToRel
  <2> QED
    BY <2>1, NatLessThanWellFounded, Zenon
<1>2. PICK x \in S : \A y \in S : <<y, x>> \notin R
  <2> HIDE DEF R
  <2> QED
    BY <1>1, WFMin
<1>3. \A y \in S : x <= y
  <2> TAKE y \in S
  <2>1. ~(y < x)
    BY <1>2
  <2> QED
    BY <2>1
<1> QED
  BY <1>2, <1>3 DEF Least
\* What the rows of a whole workspace are.
LEMMA WholeRows ==
    ASSUME IInv, phase # "load", Whole
    PROVE  /\ Recovered(program) /\ "FunctionBlock" \notin absent
           /\ rel.Block = program.blocks /\ rel.Statement = DOMAIN program.home
           /\ rel.BlockSuccessor = program.edges
           /\ rel.ConditionalSuccessor = BranchRows(program)
           /\ rel.StatementBlock = {<<s, program.home[s]>> : s \in DOMAIN program.home}
           /\ rel.PublicFunction = SelectorRows(program)
           /\ rel.FunctionEntry = EntryRows(program)
           /\ rel.FunctionBlock = MemberRows(program)
           /\ rel.Effect = program.effects
<1>1. Recovered(program) /\ absent = {}
  BY ProgramsAssumption DEF IInv, Inputs, Whole
<1> QED
  BY <1>1, LoadedRows DEF Given

\* Every owner has a selector, an entry and rows for both.
LEMMA WholeOwners ==
    ASSUME IInv, phase # "load", Whole, NEW b \in DOMAIN program.owner
    PROVE  /\ program.owner[b] \in Public(program)
           /\ program.owner[b] \in Seconds(rel.PublicFunction)
           /\ program.owner[b] \in Firsts(rel.FunctionEntry)
<1> DEFINE f == program.owner[b]
<1>1. PICK s \in program.selectors : {t \in program.selectors : t[1] = f} = {s}
  BY DEF Whole
<1>2. s[1] = f
  BY <1>1
<1>3. f \in Public(program)
  BY <1>2 DEF Public
<1>4. <<s[2], f>> \in rel.PublicFunction
  BY <1>2, WholeRows DEF SelectorRows
<1>5. PICK c \in program.entries : program.owner[c] = f
  BY WholeRows DEF Recovered
<1>6. <<f, c>> \in rel.FunctionEntry
  BY <1>3, <1>5, WholeRows DEF EntryRows
<1> HIDE DEF f
<1>7. f \in Seconds(rel.PublicFunction)
  <2>1. <<s[2], f>>[2] = f
    OBVIOUS
  <2> QED
    BY <1>4, <2>1 DEF Seconds
<1>8. f \in Firsts(rel.FunctionEntry)
  <2>1. <<f, c>>[1] = f
    OBVIOUS
  <2> QED
    BY <1>6, <2>1 DEF Firsts
<1> QED
  BY <1>3, <1>7, <1>8 DEF f

LEMMA WholeRelations ==
    ASSUME IInv, phase # "load", Whole
    PROVE  RelationsAccepted
<1>1. Functional(rel.StatementBlock)
  BY WholeRows DEF Functional
<1>2. rel.BlockSuccessor \subseteq rel.Block \X rel.Block
  BY WholeRows DEF Recovered
<1>3. rel.ConditionalSuccessor \subseteq rel.Block \X rel.Block \X rel.Block
  BY WholeRows DEF BranchRows
<1>4. Seconds(rel.FunctionEntry) \subseteq rel.Block
  BY WholeRows DEF Seconds, EntryRows, Recovered
<1>5. Seconds(rel.FunctionBlock) \subseteq rel.Block
  BY WholeRows DEF Seconds, MemberRows, Recovered
<1>6. FunctionsKnown
  <2> SUFFICES ASSUME NEW r \in rel.FunctionBlock PROVE r[1] \in Seconds(rel.PublicFunction)
    BY DEF FunctionsKnown, Firsts
  <2>1. PICK b \in DOMAIN program.owner : r[1] = program.owner[b]
    BY WholeRows DEF MemberRows
  <2> QED
    BY <2>1, WholeOwners
<1>7. Firsts(rel.StatementBlock) \subseteq rel.Statement
  BY WholeRows DEF Firsts
<1>8. rel.Effect \subseteq rel.Statement
  BY WholeRows DEF Recovered
<1> QED
  BY <1>1, <1>2, <1>3, <1>4, <1>5, <1>6, <1>7, <1>8 DEF RelationsAccepted

LEMMA WholeBlocks ==
    ASSUME IInv, phase # "load", Whole
    PROVE  BlockIds = program.blocks
<1>1. RelationsAccepted
  BY WholeRelations
<1>2. /\ Firsts(rel.BlockSuccessor) \subseteq rel.Block
      /\ Seconds(rel.BlockSuccessor) \subseteq rel.Block
  BY <1>1 DEF RelationsAccepted, Firsts, Seconds
<1> QED
  BY <1>1, <1>2, WholeRows DEF BlockIds, RelationsAccepted

\* The members of a function are the blocks it owns, or all there are.
LEMMA WholeMembers ==
    ASSUME IInv, phase = "build", Whole
    PROVE  /\ FromRows \subseteq DOMAIN entry
           /\ FromRows # {} => /\ Functions = FromRows
                               /\ \A f \in FromRows : /\ Members(f) = {b \in DOMAIN program.owner : program.owner[b] = f}
                                                      /\ Members(f) # {}
           /\ FromRows = {} => /\ Functions = {Fallback}
                               /\ Members(Fallback) = program.blocks
                               /\ DOMAIN program.owner = {}
<1>1. DOMAIN entry = Firsts(rel.FunctionEntry)
  BY DEF IInv, Picked, Reading, Kept
<1>2. ASSUME NEW f \in Seconds(rel.PublicFunction)
      PROVE  f \in DOMAIN entry
  <2>1. PICK s \in program.selectors : f = s[1]
    BY WholeRows DEF Seconds, SelectorRows
  <2>2. PICK b \in DOMAIN program.owner : f = program.owner[b]
    BY <2>1, WholeRows DEF Recovered
  <2> QED
    BY <1>1, <2>2, WholeOwners
<1>3. FromRows \subseteq DOMAIN entry
  BY <1>2 DEF FromRows
<1>4. ASSUME FromRows # {}, NEW f \in FromRows
      PROVE  Members(f) = {b \in DOMAIN program.owner : program.owner[b] = f}
  BY <1>3, <1>4, WholeRows, MembersAreOwned DEF Reading
<1>5. CASE FromRows = {}
  <2>1. Functions = {Fallback} /\ Listed(Fallback) = program.blocks
    BY <1>5, WholeBlocks DEF Functions, Listed
  <2>2. Fallback \notin DOMAIN entry
    BY <1>5 DEF FromRows
  <2>3. EntryOf(Fallback) \in program.blocks
    <3>1. program.blocks \subseteq Nat /\ program.blocks # {}
      BY WholeRows DEF Recovered
    <3>2. Least(program.blocks) \in program.blocks
      BY <3>1, LeastIsMember
    <3> QED
      BY <2>2, <3>2, WholeBlocks DEF EntryOf
  <2>4. DOMAIN program.owner = {}
    BY <1>5, WholeOwners DEF FromRows
  <2> QED
    BY <1>3, <1>5, <2>1, <2>3, <2>4 DEF Members
<1>6. CASE FromRows # {}
  <2>1. Functions = FromRows
    BY <1>6 DEF Functions
  <2> QED
    BY <1>3, <1>4, <1>6, <2>1 DEF Members
<1> QED
  BY <1>5, <1>6
LEMMA WholeBuilds ==
    ASSUME IInv, phase = "build", Whole
    PROVE  Buildable
<1>1. BlockIds # {}
  BY WholeBlocks, WholeRows DEF Recovered
<1>2. StatementIds # {} /\ StatementIds \subseteq Firsts(rel.StatementBlock)
  <2>1. ASSUME NEW s \in DOMAIN program.home PROVE s \in Firsts(rel.StatementBlock)
    <3> DEFINE r == <<s, program.home[s]>>
    <3>1. r \in rel.StatementBlock /\ r[1] = s
      BY WholeRows
    <3> HIDE DEF r
    <3> QED
      BY <3>1 DEF Firsts
  <2>2. Firsts(rel.StatementBlock) \subseteq rel.Statement /\ rel.Statement = DOMAIN program.home
    BY WholeRelations, WholeRows DEF RelationsAccepted
  <2> QED
    BY <2>1, <2>2, WholeRows DEF StatementIds, Recovered
<1>3. \A f \in Functions : Members(f) \cap BlockIds # {}
  BY WholeMembers, WholeBlocks, WholeRows DEF Recovered
<1> QED
  BY <1>1, <1>2, <1>3, WholeMembers DEF Buildable, StatementsPlaced, FunctionsRooted

\* Edges of the program that start in a function's members end in them.
LEMMA WholeInside ==
    ASSUME IInv, phase = "build", Whole, NEW f \in Functions, NEW e \in rel.BlockSuccessor,
           e[1] \in Members(f)
    PROVE  e[2] \in Inside(f, e[1])
<1>1. e \in program.edges /\ e \in program.blocks \X program.blocks
  BY WholeRows DEF Recovered
<1>2. e[2] \in Successors(e[1])
  BY DEF Successors
<1>3. e[2] \in Members(f)
  <2>1. CASE FromRows = {}
    BY <1>1, <2>1, WholeMembers
  <2>2. CASE FromRows # {}
    <3>1. e[1] \in DOMAIN program.owner /\ program.owner[e[1]] = f
      BY <2>2, WholeMembers
    <3>2. e[2] \in DOMAIN program.owner /\ program.owner[e[2]] = f
      BY <1>1, <3>1, WholeRows DEF Recovered
    <3> QED
      BY <2>2, <3>2, WholeMembers
  <2> QED
    BY <2>1, <2>2
<1> QED
  BY <1>2, <1>3 DEF Inside

LEMMA WholeModels ==
    ASSUME IInv, phase = "build", Whole
    PROVE  ModelsAccept
<1>1. IdsUnique
  <2> SUFFICES ASSUME NEW r \in rel.PublicFunction, NEW q \in rel.PublicFunction, r[2] = q[2]
               PROVE  r = q
    BY DEF IdsUnique
  <2>1. PICK s \in program.selectors : r = <<s[2], s[1]>>
    BY WholeRows DEF SelectorRows
  <2>2. PICK t \in program.selectors : q = <<t[2], t[1]>>
    BY WholeRows DEF SelectorRows
  <2>3. PICK b \in DOMAIN program.owner : s[1] = program.owner[b]
    BY WholeRows DEF Recovered
  <2>4. PICK u \in program.selectors : {x \in program.selectors : x[1] = program.owner[b]} = {u}
    BY DEF Whole
  <2>5. t[1] = s[1]
    BY <2>1, <2>2
  <2>6. s = u /\ t = u
    BY <2>3, <2>4, <2>5
  <2> QED
    BY <2>1, <2>2, <2>6
<1>2. \A b \in DOMAIN branch : <<b, branch[b][2]>> \in program.edges /\ <<b, branch[b][3]>> \in program.edges
  <2> TAKE b \in DOMAIN branch
  <2>1. branch[b] \in rel.ConditionalSuccessor /\ branch[b][1] = b
    BY DEF IInv, Picked, Reading, Kept
  <2> QED
    BY <2>1, WholeRows DEF BranchRows
<1>3. BranchesAreEdges(Contract.edges, Contract.blocks)
  BY <1>2, ContractFields, WholeRows DEF BranchesAreEdges
<1>4. Contract.unassigned \subseteq Contract.blocks
  BY ContractFields
<1>5. ASSUME NEW f \in Functions
      PROVE  /\ View(f).entry \in View(f).blocks
             /\ View(f).blocks \subseteq Contract.blocks
             /\ View(f).edges \subseteq View(f).blocks \X View(f).blocks
             /\ BranchesAreEdges(View(f).edges, View(f).blocks)
             /\ View(f).statements \subseteq Contract.statements
  <2>1. View(f).entry \in View(f).blocks
    BY ViewFields DEF Members
  <2>2. Members(f) \subseteq BlockIds
    BY WholeMembers, WholeBlocks, WholeRows DEF Recovered
  <2>3. View(f).edges \subseteq View(f).blocks \X View(f).blocks
    <3> SUFFICES ASSUME NEW e \in View(f).edges PROVE e \in Members(f) \X Members(f)
      BY ViewFields
    <3>1. e \in rel.BlockSuccessor /\ e[1] \in Members(f) /\ e[2] \in Members(f)
      BY ViewFields DEF Inside
    <3>2. e \in program.blocks \X program.blocks
      BY <3>1, WholeRows DEF Recovered
    <3> QED
      BY <3>1, <3>2
  <2>4. BranchesAreEdges(View(f).edges, View(f).blocks)
    <3> SUFFICES ASSUME NEW b \in DOMAIN branch, b \in Members(f)
                 PROVE  <<b, branch[b][2]>> \in View(f).edges /\ <<b, branch[b][3]>> \in View(f).edges
      BY ViewFields DEF BranchesAreEdges
    <3>1. ASSUME NEW c, <<b, c>> \in program.edges PROVE <<b, c>> \in View(f).edges
      <4> DEFINE e == <<b, c>>
      <4>1. e \in rel.BlockSuccessor /\ e[1] = b
        BY <3>1, WholeRows
      <4> HIDE DEF e
      <4>2. e[2] \in Inside(f, e[1])
        BY <4>1, WholeInside
      <4>3. e \in View(f).edges
        BY <4>1, <4>2, ViewFields
      <4> QED
        BY <4>3 DEF e
    <3> QED
      BY <1>2, <3>1
  <2>5. View(f).statements \subseteq Contract.statements
    BY <2>2, ViewFields, ContractFields DEF Statements
  <2> QED
    BY <2>1, <2>2, <2>3, <2>4, <2>5, ViewFields, ContractFields
<1>6. \A v \in Contract.functions :
         /\ v.entry \in v.blocks
         /\ v.blocks \subseteq Contract.blocks
         /\ v.edges \subseteq v.blocks \X v.blocks
         /\ BranchesAreEdges(v.edges, v.blocks)
         /\ v.statements \subseteq Contract.statements
  <2> TAKE v \in Contract.functions
  <2>1. PICK f \in Functions : v = View(f)
    BY ContractFields
  <2> QED
    BY <1>5, <2>1
<1> QED
  BY <1>1, <1>3, <1>4, <1>6 DEF ModelsAccept

\* For any recovered program all of whose functions have one selector, and all
\* files there, neither the boundary check nor the models refuse the rows.
THEOREM WholeProgramsAreAccepted == Spec => []WholeIsAccepted
<1>1. Init => WholeIsAccepted
  BY DEF Init, WholeIsAccepted
<1>2. IInv /\ WholeIsAccepted /\ [Next]_vars => WholeIsAccepted'
  <2> SUFFICES ASSUME IInv, WholeIsAccepted, [Next]_vars, Whole'
               PROVE  phase' \notin {"bad_relations", "bad_IR"}
    BY DEF WholeIsAccepted
  <2>1. Whole
    <3>1. UNCHANGED <<program, absent>>
      BY DEF Next, Load, Validate, ReadRows, Refuse, Build, CheckStructure, vars
    <3> QED
      BY <3>1 DEF Whole
  <2>2. phase \notin {"bad_relations", "bad_IR"}
    BY <2>1 DEF WholeIsAccepted
  <2>3. CASE Validate
    BY <2>1, <2>3, WholeRelations DEF Validate
  <2>4. CASE Refuse
    BY <2>1, <2>4, WholeBuilds, WholeModels DEF Refuse
  <2>5. CASE Load \/ ReadRows \/ Build \/ CheckStructure \/ UNCHANGED vars
    BY <2>2, <2>5 DEF Load, ReadRows, Build, CheckStructure, vars
  <2> QED
    BY <2>3, <2>4, <2>5 DEF Next
<1> QED
  BY <1>1, <1>2, Invariance, PTL DEF Spec

----------------------------------------------------------------------------
(* The converse of acceptance                                              *)

\* What a published contract tells of the program behind it.
OnlyWhole ==
    phase = "published" =>
        /\ "FunctionBlock" \notin absent =>
              \A b \in DOMAIN program.owner : program.owner[b] \in Public(program)
        /\ "PublicFunction" \notin absent =>
              \A s, t \in program.selectors : s[1] = t[1] => s = t

\* Only programs whose functions have one selector each are published: a private
\* function with blocks fails FunctionsKnown (relations.py:121), two selectors
\* for one function fail IdsUnique (models/ir.py:259).  With all files there the
\* condition of WholeIsAccepted is therefore also necessary.
THEOREM OnlyWholeProgramsArePublished ==
  Spec => [](OnlyWhole /\ (phase = "published" /\ absent = {} => Whole))
<1>1. ASSUME IInv
      PROVE  OnlyWhole
  <2> SUFFICES ASSUME phase = "published"
               PROVE  /\ "FunctionBlock" \notin absent =>
                            \A b \in DOMAIN program.owner : program.owner[b] \in Public(program)
                      /\ "PublicFunction" \notin absent =>
                            \A s, t \in program.selectors : s[1] = t[1] => s = t
    BY DEF OnlyWhole
  <2>1. ASSUME "FunctionBlock" \notin absent, NEW b \in DOMAIN program.owner
        PROVE  program.owner[b] \in Public(program)
    <3> DEFINE f == program.owner[b]
    <3>1. <<f, b>> \in rel.FunctionBlock /\ <<f, b>>[1] = f
      BY <1>1, <2>1, LoadedRows DEF Given, MemberRows
    <3> HIDE DEF f
    <3>2. f \in Seconds(rel.PublicFunction) \cup Firsts(rel.FunctionEntry)
      BY <1>1, <3>1, PublishedFacts DEF RelationsAccepted, FunctionsKnown, Firsts
    <3>3. CASE f \in Seconds(rel.PublicFunction)
      <4>1. PICK r \in SelectorRows(program) : r[2] = f
        BY <1>1, <3>3, LoadedRows DEF Given, Seconds
      <4> QED
        BY <4>1 DEF SelectorRows, Public, f
    <3>4. CASE f \in Firsts(rel.FunctionEntry)
      <4>1. PICK r \in EntryRows(program) : r[1] = f
        BY <1>1, <3>4, LoadedRows DEF Given, Firsts
      <4> QED
        BY <4>1 DEF EntryRows, f
    <3> QED
      BY <3>2, <3>3, <3>4 DEF f
  <2>2. ASSUME "PublicFunction" \notin absent, NEW s \in program.selectors,
               NEW t \in program.selectors, s[1] = t[1]
        PROVE  s = t
    <3>1. s = <<s[1], s[2]>> /\ t = <<t[1], t[2]>>
      BY <1>1, PublishedFacts DEF Recovered
    <3>2. <<s[2], s[1]>> \in rel.PublicFunction /\ <<t[2], t[1]>> \in rel.PublicFunction
      BY <1>1, <2>2, LoadedRows DEF Given, SelectorRows
    <3>3. <<s[2], s[1]>> = <<t[2], t[1]>>
      BY <1>1, <2>2, <3>2, PublishedFacts DEF IdsUnique
    <3> QED
      BY <2>2, <3>1, <3>3
  <2> QED
    BY <2>1, <2>2
<1>2. ASSUME OnlyWhole, phase = "published", absent = {}
      PROVE  Whole
  <2>1. ASSUME NEW b \in DOMAIN program.owner
        PROVE  \E s \in program.selectors :
                  {t \in program.selectors : t[1] = program.owner[b]} = {s}
    <3>1. PICK s \in program.selectors : s[1] = program.owner[b]
      BY <1>2, <2>1 DEF OnlyWhole, Public
    <3>2. \A t \in program.selectors : t[1] = s[1] => t = s
      BY <1>2 DEF OnlyWhole
    <3> QED
      BY <3>1, <3>2
  <2> QED
    BY <1>2, <2>1 DEF Whole
<1> QED
  BY <1>1, <1>2, Invariance, PTL
=============================================================================
