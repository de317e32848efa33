---------------------------- MODULE AgentContext -----------------------------
(***************************************************************************)
(* What an agent is shown of a finished run: infer_storage_layout          *)
(* (inference/storage.py), one access at a time, and build_contract_context*)
(* and build_function_context (agent/context.py), one block at a time.     *)
(*                                                                         *)
(* A contract is what the IR says of it; calls, events and reverts are     *)
(* listed and clipped as storage accesses are and are left out.  Ids of    *)
(* different things differ (builder.py:83), and so do their shapes here.   *)
(***************************************************************************)
EXTENDS Integers, Sequences, FiniteSets

CONSTANTS
    Sessions,       \* the contracts, and what is asked about them
    MaxStatements,  \* DEFAULT_MAX_STATEMENTS
    MaxFacts,       \* DEFAULT_MAX_FACTS
    Symbolic,       \* the kind of a location that is not known
    None            \* no selector, no function

VARIABLES
    contract,       \* ContractIR
    request,        \* the selector asked for, or None, and max_statements
    phase,
    cursor,         \* the next access, later the next block
    layout,         \* layout entry -> the access that is its evidence
    shown,          \* the blocks shown, with the number of their statements
    included,       \* included_statements
    omittedBlocks, omittedStatements

context == <<shown, included, omittedBlocks, omittedStatements>>

----------------------------------------------------------------------------
(* Contracts *)

FunctionsOf(c) == {c.order[n] : n \in 1..Len(c.order)}
StatementsOf(c, b) == {b} \X (1..c.size[b])

Built(c) ==
    /\ c.order \in Seq(FunctionsOf(c))
    /\ \A b \in DOMAIN c.size : c.size[b] \in Nat
    /\ None \notin FunctionsOf(c)
    /\ DOMAIN c.selector = FunctionsOf(c)
    /\ \A f \in FunctionsOf(c) :
          /\ c.blocks[f] \in Seq(DOMAIN c.size)
          /\ \A m, n \in 1..Len(c.blocks[f]) : c.blocks[f][m] = c.blocks[f][n] => m = n
    /\ c.unassigned \subseteq DOMAIN c.size
    /\ Len(c.accesses) \in Nat /\ DOMAIN c.accesses = 1..Len(c.accesses)
    /\ \A a, d \in DOMAIN c.accesses : c.accesses[a].at = c.accesses[d].at => a = d
    /\ c.unresolved \subseteq UNION {StatementsOf(c, b) : b \in DOMAIN c.size}

ASSUME SessionsAssumption ==
    \A s \in Sessions :
        /\ s = [contract |-> s.contract, request |-> s.request]
        /\ Built(s.contract) /\ s.request.max \in Int
ASSUME LimitsAssumption ==
    MaxFacts \in Nat \ {0} /\ MaxStatements \in Nat \ {0}

Functions == FunctionsOf(contract)
Accesses == DOMAIN contract.accesses
\* The code that no function owns is listed as if it were a function, None.
Places == Functions \cup {None}
BlocksOf(f) ==
    IF f = None THEN contract.unassigned
    ELSE {contract.blocks[f][n] : n \in 1..Len(contract.blocks[f])}
Inside(f) == UNION {StatementsOf(contract, b) : b \in BlocksOf(f)}
AccessesOf(f) == {a \in Accesses : contract.accesses[a].at \in Inside(f)}

Smaller(m, n) == IF m <= n THEN m ELSE n
Excess(n, limit) == IF n > limit THEN n - limit ELSE 0

(* Identifiers *)
FunctionId(f) == [function |-> f]
BlockId(b) == [block |-> b]
StatementId(s) == [statement |-> s]
FactId(s) == [fact |-> s]
AccessId(a) == [access |-> a]
EntryId(loc) == [entry |-> loc]

----------------------------------------------------------------------------
(* infer_storage_layout *)

\* The kind and base slot of a location make its entry; what is not known is
\* an entry of its own, which has the id of the access.
Key(a) ==
    IF contract.accesses[a].loc.kind = Symbolic
    THEN AccessId(a)
    ELSE EntryId(contract.accesses[a].loc)

NoEntries == [k \in {} |-> 0]

\* setdefault: the first access stays the only evidence of the entry.
Infer ==
    /\ phase = "infer" /\ cursor \in Accesses
    /\ layout' = [k \in DOMAIN layout \cup {Key(cursor)} |->
                     IF k \in DOMAIN layout THEN layout[k] ELSE cursor]
    /\ cursor' = cursor + 1
    /\ UNCHANGED <<contract, request, phase, context>>

LayoutDone ==
    /\ phase = "infer" /\ cursor \notin Accesses
    /\ phase' = IF request.selector = None THEN "propose" ELSE "look_up"
    /\ UNCHANGED <<contract, request, cursor, layout, context>>

----------------------------------------------------------------------------
(* build_function_context *)

Matching(selector) == {n \in 1..Len(contract.order) :
                          contract.selector[contract.order[n]] = selector}
\* The first function with the selector.
Selected ==
    contract.order[CHOOSE n \in Matching(request.selector) :
                       \A m \in Matching(request.selector) : n <= m]

Limit == Smaller(request.max, MaxStatements)
Blocks == contract.blocks[Selected]
Current == Blocks[cursor]
Size == contract.size[Current]
Fits == included + Size <= Limit

NotAnswered ==
    /\ phase = "look_up"
    /\ request.max < 1 \/ Matching(request.selector) = {}
    /\ phase' = "no_answer"
    /\ UNCHANGED <<contract, request, cursor, layout, context>>

LookUp ==
    /\ phase = "look_up"
    /\ request.max >= 1 /\ Matching(request.selector) # {}
    /\ cursor' = 1
    /\ phase' = "blocks"
    /\ UNCHANGED <<contract, request, layout, context>>

ShowBlock ==
    /\ phase = "blocks" /\ cursor <= Len(Blocks)
    /\ Fits
    /\ shown' = Append(shown, [block |-> cursor, statements |-> Size])
    /\ included' = included + Size
    /\ cursor' = cursor + 1
    /\ UNCHANGED <<contract, request, phase, layout, omittedBlocks, omittedStatements>>

\* The first block is cut rather than left out.
ClipBlock ==
    /\ phase = "blocks" /\ cursor <= Len(Blocks)
    /\ ~Fits /\ shown = <<>>
    /\ shown' = <<[block |-> cursor, statements |-> Limit - included]>>
    /\ omittedStatements' = omittedStatements + (Size - (Limit - included))
    /\ included' = Limit
    /\ cursor' = cursor + 1
    /\ UNCHANGED <<contract, request, phase, layout, omittedBlocks>>

\* Mutant: the loop ends at the first block that does not fit.
StopAtBlock ==
    /\ phase = "blocks" /\ cursor <= Len(Blocks)
    /\ ~Fits /\ shown # <<>>
    /\ omittedBlocks' = omittedBlocks + (Len(Blocks) - cursor + 1)
    /\ omittedStatements' = omittedStatements
            + Cardinality(UNION {StatementsOf(contract, Blocks[n]) : n \in cursor..Len(Blocks)})
    /\ cursor' = Len(Blocks) + 1
    /\ UNCHANGED <<contract, request, phase, layout, shown, included>>

OmitBlock ==
    /\ phase = "blocks" /\ cursor <= Len(Blocks)
    /\ ~Fits /\ shown # <<>>
    /\ omittedBlocks' = omittedBlocks + 1
    /\ omittedStatements' = omittedStatements + Size
    /\ cursor' = cursor + 1
    /\ UNCHANGED <<contract, request, phase, layout, shown, included>>

ContextDone ==
    /\ phase = "blocks" /\ cursor > Len(Blocks)
    /\ phase' = "propose"
    /\ UNCHANGED <<contract, request, cursor, layout, context>>

----------------------------------------------------------------------------
(* What the answer says of itself, and the ids it holds *)

\* storage_reads and storage_writes: the first MaxFacts of them.
Facts(f, write) == {a \in AccessesOf(f) : contract.accesses[a].write = write}
ShownFacts(f, write) ==
    {a \in Facts(f, write) : Cardinality({d \in Facts(f, write) : d < a}) < MaxFacts}
OmittedFacts(f, write) == Excess(Cardinality(Facts(f, write)), MaxFacts)

ShownStatements ==
    {s \in Inside(Selected) :
        \E n \in 1..Len(shown) :
            Blocks[shown[n].block] = s[1] /\ s[2] <= shown[n].statements}

\* _function_evidence_ids: f, what it holds and what that refers to.
ContextEvidence(f) ==
    {FunctionId(f)} \cup {BlockId(b) : b \in BlocksOf(f)}
        \cup (UNION {{StatementId(s), FactId(s)} : s \in Inside(f)})
        \cup {AccessId(a) : a \in AccessesOf(f)}

FunctionTruncated ==
    \/ omittedBlocks > 0 \/ omittedStatements > 0
    \/ \E write \in BOOLEAN : OmittedFacts(Selected, write) > 0
    \/ Cardinality(ContextEvidence(Selected)) > 4 * MaxFacts

\* Layout entries, with their evidence.
StorageIds == DOMAIN layout \cup {AccessId(layout[k]) : k \in DOMAIN layout}

\* What the context of the contract lists: functions, layout entries, and the
\* statements that were not resolved, whether a function has them or not.
ContractListing ==
    {FunctionId(f) : f \in Functions} \cup StorageIds
        \cup {StatementId(s) : s \in contract.unresolved}

\* What the context of a function lists of it.  The layout is that of the whole
\* contract: the function's part are the locations it accesses.
FunctionListing(f) == ContextEvidence(f) \cup {Key(a) : a \in AccessesOf(f)}

----------------------------------------------------------------------------

ContextInit ==
    /\ \E s \in Sessions : contract = s.contract /\ request = s.request
    /\ phase = "infer" /\ cursor = 1
    /\ layout = NoEntries
    /\ shown = <<>> /\ included = 0
    /\ omittedBlocks = 0 /\ omittedStatements = 0

ContextNext ==
    \/ Infer \/ LayoutDone
    \/ NotAnswered \/ LookUp \/ ShowBlock \/ ClipBlock \/ OmitBlock \/ ContextDone
=============================================================================
