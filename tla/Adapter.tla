------------------------------ MODULE Adapter -------------------------------
(***************************************************************************)
(* From what Gigahorse recovers to the contract that is published: the     *)
(* rules of the Datalog client, load_relations and validate_relations      *)
(* (gigahorse/relations.py), build_contract_ir (ir/builder.py), the        *)
(* validators of models/ir.py and validate_structure (validation/).        *)
(*                                                                         *)
(* A relation is the set of its rows; which row of a key a dict keeps is   *)
(* the last in the order of a file the Datalog engine wrote, so it may be  *)
(* any of them.  Blocks are named by their pc.  Effect stands for          *)
(* StorageLoad, StorageStore, Call, Event and Revert: an instruction has   *)
(* at most one row in them, whose id it determines.  The cells of rows     *)
(* that only carry text (slots, operands, opcodes) are left out, and with  *)
(* them the refusal of ill-formed ones.                                    *)
(***************************************************************************)
EXTENDS Integers

CONSTANTS
    Programs,   \* what the analyzer may have recovered
    Absences,   \* sets of relation files a workspace may lack
    None        \* the selector of a function without one

Names == {"Block", "BlockSuccessor", "ConditionalSuccessor", "Statement", "StatementBlock",
          "PublicFunction", "FunctionEntry", "FunctionBlock", "Effect"}
Required == {"Block", "Statement"}
Fallback == "fallback"

VARIABLES
    program,    \* Gigahorse's own relations (external)
    absent,     \* the files this workspace lacks
    rel,        \* the RelationSet: name -> rows
    phase,      \* "load", "validate", "read", "build", "check" and how it ended
    entry,      \* entries: function -> the FunctionEntry row kept
    branch,     \* conditional_successors: block -> the row kept
    contract    \* ContractIR

vars == <<program, absent, rel, phase, entry, branch, contract>>

Ended == {"published", "bad_relations", "bad_IR", "bad_structure"}
Phases == {"load", "validate", "read", "build", "check"} \cup Ended

\* What the client may count on: a block lies in one function at most, a
\* function has one entry, local edges do not leave a function, an instruction
\* lies in one block; blocks that end in JUMPI fall through to one other block
\* (external: Gigahorse).
Recovered(p) ==
    /\ p.blocks # {} /\ p.blocks \subseteq Nat
    /\ DOMAIN p.owner \subseteq p.blocks
    /\ p.entries \subseteq DOMAIN p.owner
    /\ \A b \in DOMAIN p.owner : \E c \in p.entries : p.owner[c] = p.owner[b]
    /\ \A b, c \in p.entries : p.owner[b] = p.owner[c] => b = c
    /\ \A b \in DOMAIN p.owner : p.owner[b] # Fallback
    /\ p.edges \subseteq p.blocks \X p.blocks
    /\ \A e \in p.edges : e[1] \in DOMAIN p.owner <=> e[2] \in DOMAIN p.owner
    /\ \A e \in p.edges : e[1] \in DOMAIN p.owner => p.owner[e[1]] = p.owner[e[2]]
    /\ \A b \in DOMAIN p.falls : p.falls[b] # b /\ <<b, p.falls[b]>> \in p.edges
    /\ DOMAIN p.home # {} /\ \A s \in DOMAIN p.home : p.home[s] \in p.blocks
    /\ p.effects \subseteq DOMAIN p.home
    /\ p.selectors \subseteq {p.owner[b] : b \in DOMAIN p.owner} \X Nat

ASSUME ProgramsAssumption == \A p \in Programs : Recovered(p)
ASSUME AbsencesAssumption == \A a \in Absences : a \subseteq Names \ Required
ASSUME NoneAssumption == None \notin Nat

----------------------------------------------------------------------------
(* The Datalog client (client/evm_bytecode_decompiler.dl) *)

Public(p) == {s[1] : s \in p.selectors}

SelectorRows(p) == {<<s[2], s[1]>> : s \in p.selectors}

\* The entries of functions with a selector.
EntryRowsAnywhere(p) == Public(p) \X p.entries
EntryRows(p) == {<<p.owner[b], b>> : b \in {c \in p.entries : p.owner[c] \in Public(p)}}

\* The blocks of every function, with a selector or without.
MemberRows(p) == {<<p.owner[b], b>> : b \in DOMAIN p.owner}

\* Two successors of a block that ends in JUMPI, in both orders.
BranchRows(p) ==
    {r \in p.blocks \X p.blocks \X p.blocks :
        /\ r[1] \in DOMAIN p.falls
        /\ <<r[1], r[2]>> \in p.edges /\ <<r[1], r[3]>> \in p.edges
        /\ r[2] # r[3]}

\* The instructions with a row in StorageLoad, StorageStore, Call, Event, Revert.
EffectRows(p) == p.effects

Client(p) ==
    [Block |-> p.blocks,
     BlockSuccessor |-> p.edges,
     ConditionalSuccessor |-> BranchRows(p),
     Statement |-> DOMAIN p.home,
     StatementBlock |-> {<<s, p.home[s]>> : s \in DOMAIN p.home},
     PublicFunction |-> SelectorRows(p),
     FunctionEntry |-> EntryRows(p),
     FunctionBlock |-> MemberRows(p),
     Effect |-> EffectRows(p)]

----------------------------------------------------------------------------
(* The boundary check (relations.py:60-138) *)

Firsts(rows) == {r[1] : r \in rows}
Seconds(rows) == {r[2] : r \in rows}
Functional(rows) == \A r, q \in rows : r[1] = q[1] => r = q

FunctionsKnown ==
    Firsts(rel.FunctionBlock) \subseteq Seconds(rel.PublicFunction) \cup Firsts(rel.FunctionEntry)

\* The block of a statement is not looked up.
RelationsAccepted ==
    /\ Functional(rel.StatementBlock)
    /\ rel.BlockSuccessor \subseteq rel.Block \X rel.Block
    /\ rel.ConditionalSuccessor \subseteq rel.Block \X rel.Block \X rel.Block
    /\ Seconds(rel.FunctionEntry) \subseteq rel.Block
    /\ Seconds(rel.FunctionBlock) \subseteq rel.Block
    /\ FunctionsKnown
    /\ Firsts(rel.StatementBlock) \subseteq rel.Statement
    /\ rel.Effect \subseteq rel.Statement

----------------------------------------------------------------------------
(* build_contract_ir (ir/builder.py:336-695) *)

BlockIds ==
    rel.Block \cup Firsts(rel.BlockSuccessor) \cup Seconds(rel.BlockSuccessor)
        \cup Seconds(rel.FunctionEntry) \cup Seconds(rel.FunctionBlock)
StatementIds == rel.Statement \cup Firsts(rel.StatementBlock)

\* The dicts that a loop over the rows may leave behind.
Kept(rows) == {d \in [Firsts(rows) -> rows] : \A k \in Firsts(rows) : d[k][1] = k}

Least(S) == CHOOSE x \in S : \A y \in S : x <= y
FromRows == Seconds(rel.PublicFunction) \cup DOMAIN entry
Functions == IF FromRows = {} THEN {Fallback} ELSE FromRows
EntryOf(f) == IF f \in DOMAIN entry THEN entry[f][2] ELSE Least(BlockIds)

Listed(f) == IF FromRows = {} THEN BlockIds ELSE {r[2] : r \in {q \in rel.FunctionBlock : q[1] = f}}
MembersNearEntry(f) == {EntryOf(f)}
Members(f) == Listed(f) \cup {EntryOf(f)}
Selectors(f) == {r[1] : r \in {q \in rel.PublicFunction : q[2] = f}}

Successors(b) == {e[2] : e \in {d \in rel.BlockSuccessor : d[1] = b}}
InsideLoopless(f, b) == Successors(b) \cap (Members(f) \ {b})
Inside(f, b) == Successors(b) \cap Members(f)
Statements(B) == {r[1] : r \in {q \in rel.StatementBlock : q[2] \in B}}
EffectsOfAll(f) == rel.Effect
EffectsOf(f) == rel.Effect \cap Statements(Members(f))

View(f) ==
    [id |-> f,
     selector |-> IF Selectors(f) = {} THEN None ELSE Least(Selectors(f)),
     entry |-> EntryOf(f),
     blocks |-> Members(f),
     edges |-> {e \in rel.BlockSuccessor : e[1] \in Members(f) /\ e[2] \in Inside(f, e[1])},
     statements |-> Statements(Members(f)),
     effects |-> EffectsOf(f)]

\* An entry that FunctionBlock does not list counts as assigned only if the
\* function has other rows: the set it is added to is then the stored one.
AssignedByRows == Seconds(rel.FunctionBlock)
Assigned == UNION {Listed(f) \cup {EntryOf(f)} : f \in {g \in Functions : Listed(g) # {}}}

Contract ==
    [functions |-> {View(f) : f \in Functions},
     blocks |-> BlockIds,
     edges |-> rel.BlockSuccessor,
     statements |-> Statements(BlockIds),
     effects |-> rel.Effect,
     unassigned |-> BlockIds \ Assigned]

StatementsPlaced ==
    StatementIds # {} /\ StatementIds \subseteq Firsts(rel.StatementBlock)
FunctionsRooted ==
    FromRows \subseteq DOMAIN entry /\ \A f \in Functions : Members(f) \cap BlockIds # {}
Buildable == BlockIds # {} /\ StatementsPlaced /\ FunctionsRooted

\* The validators of models/ir.py.  A function with two selectors is listed
\* twice.
IdsRepeated == TRUE
IdsUnique == \A r, q \in rel.PublicFunction : r[2] = q[2] => r = q
BranchesAreEdges(edges, B) ==
    \A b \in DOMAIN branch \cap B : <<b, branch[b][2]>> \in edges /\ <<b, branch[b][3]>> \in edges
ModelsAccept ==
    /\ IdsUnique
    /\ BranchesAreEdges(Contract.edges, Contract.blocks)
    /\ Contract.unassigned \subseteq Contract.blocks
    /\ \A v \in Contract.functions :
          /\ v.entry \in v.blocks
          /\ v.blocks \subseteq Contract.blocks
          /\ v.edges \subseteq v.blocks \X v.blocks
          /\ BranchesAreEdges(v.edges, v.blocks)
          /\ v.statements \subseteq Contract.statements

----------------------------------------------------------------------------
(* validate_structure (validation/structural.py:5-60) *)

StructureHolds ==
    /\ \A v \in contract.functions :
          /\ v.entry \in v.blocks
          /\ v.blocks \subseteq contract.blocks
          /\ v.statements \subseteq contract.statements
          /\ v.edges \subseteq v.blocks \X v.blocks
          /\ v.effects \subseteq v.statements
    /\ contract.edges \subseteq contract.blocks \X contract.blocks

----------------------------------------------------------------------------

Nothing == [functions |-> {}, blocks |-> {}, edges |-> {}, statements |-> {},
            effects |-> {}, unassigned |-> {}]
NoRows == [n \in Names |-> {}]
NoDict == [k \in {} |-> <<>>]

Init ==
    /\ program \in Programs
    /\ absent \in Absences
    /\ rel = NoRows
    /\ phase = "load"
    /\ entry = NoDict /\ branch = NoDict
    /\ contract = Nothing

\* The rows of the files that are there, under their names without EBD_.
Load ==
    /\ phase = "load"
    /\ rel' = [n \in Names |-> IF n \in absent THEN {} ELSE Client(program)[n]]
    /\ phase' = "validate"
    /\ UNCHANGED <<program, absent, entry, branch, contract>>

Validate ==
    /\ phase = "validate"
    /\ phase' = IF RelationsAccepted THEN "read" ELSE "bad_relations"
    /\ UNCHANGED <<program, absent, rel, entry, branch, contract>>

ReadRows ==
    /\ phase = "read"
    /\ entry' \in Kept(rel.FunctionEntry)
    /\ branch' \in Kept(rel.ConditionalSuccessor)
    /\ phase' = "build"
    /\ UNCHANGED <<program, absent, rel, contract>>

Refuse ==
    /\ phase = "build"
    /\ ~(Buildable /\ ModelsAccept)
    /\ phase' = "bad_IR"
    /\ UNCHANGED <<program, absent, rel, entry, branch, contract>>

Build ==
    /\ phase = "build"
    /\ Buildable /\ ModelsAccept
    /\ contract' = Contract
    /\ phase' = "check"
    /\ UNCHANGED <<program, absent, rel, entry, branch>>

CheckStructure ==
    /\ phase = "check"
    /\ phase' = IF StructureHolds THEN "published" ELSE "bad_structure"
    /\ UNCHANGED <<program, absent, rel, entry, branch, contract>>

Next == Load \/ Validate \/ ReadRows \/ Refuse \/ Build \/ CheckStructure

Spec == Init /\ [][Next]_vars
----------------------------------------------------------------------------
(* Properties *)

\* Rows name blocks, functions and instructions of the program, a FunctionEntry
\* row an entry of its function, and what is kept of the rows are rows.
OwnerRows == {<<program.owner[b], b>> : b \in DOMAIN program.owner}
TypeOK ==
    /\ Recovered(program) /\ absent \in Absences /\ phase \in Phases
    /\ DOMAIN rel = Names
    /\ rel.Block \subseteq program.blocks
    /\ rel.BlockSuccessor \subseteq program.blocks \X program.blocks
    /\ rel.ConditionalSuccessor \subseteq program.blocks \X program.blocks \X program.blocks
    /\ rel.Statement \subseteq DOMAIN program.home
    /\ rel.StatementBlock \subseteq (DOMAIN program.home) \X program.blocks
    /\ rel.PublicFunction \subseteq Nat \X Firsts(OwnerRows)
    /\ rel.FunctionEntry \subseteq OwnerRows
    /\ rel.FunctionBlock \subseteq OwnerRows
    /\ rel.Effect \subseteq DOMAIN program.home
    /\ entry = NoDict \/ entry \in Kept(rel.FunctionEntry)
    /\ branch = NoDict \/ branch \in Kept(rel.ConditionalSuccessor)
    /\ contract = Nothing \/ contract = Contract

\* validate_structure never fails on what the builder made and the models let
\* through: a run is not lost after its IR was written (decompile.py:368).
StructureAccepted == phase # "bad_structure"

\* A recovered program all of whose functions have one selector is accepted
\* whatever its branches, edges and effects are: neither the boundary check nor
\* the models refuse what the client's rules emit for it.
Whole == /\ absent = {}
         /\ \A b \in DOMAIN program.owner :
               \E s \in program.selectors :
                  {t \in program.selectors : t[1] = program.owner[b]} = {s}
WholeIsAccepted == Whole => phase \notin {"bad_relations", "bad_IR"}

\* Every storage access, call, event and revert of the program is shown, in the
\* lists of a function that holds its instruction or in an unassigned block.
EveryEffectShown ==
    phase = "published" /\ "Effect" \notin absent =>
        \A s \in program.effects :
            \/ \E v \in contract.functions : s \in v.effects /\ program.home[s] \in v.blocks
            \/ program.home[s] \in contract.unassigned

\* Every block is shown once: in the function Gigahorse puts it in, or among the
\* blocks "no function ownership was proven" of (pseudocode.py:271).
OwnedOnce ==
    phase = "published" /\ "FunctionBlock" \notin absent =>
        \A b \in program.blocks :
            LET owners == {v.id : v \in {w \in contract.functions : b \in w.blocks}}
            IN  IF b \in DOMAIN program.owner
                THEN owners = {program.owner[b]} /\ b \notin contract.unassigned
                ELSE owners = {Fallback} <=> b \notin contract.unassigned

\* No selector is lost: a published contract has the dispatcher's cases, one
\* function for each.
SelectorsShown ==
    phase = "published" /\ "PublicFunction" \notin absent =>
        {<<v.id, v.selector>> : v \in {w \in contract.functions : w.selector # None}}
            = program.selectors

\* The false branch of a published block is where its JUMPI falls through
\* (docs/gigahorse-relations.md: "from, true, false").
BranchesTrue ==
    phase = "published" => \A b \in DOMAIN branch : branch[b][3] = program.falls[b]
=============================================================================
