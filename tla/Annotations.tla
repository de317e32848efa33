---------------------------- MODULE Annotations ------------------------------
(***************************************************************************)
(* The agent's answer to the context it was shown: a proposal, what        *)
(* validate_proposal says of it (agent/validation.py), and how its storage *)
(* labels are rendered (agent/artifacts.py, synthesis/pseudocode.py).      *)
(*                                                                         *)
(* A proposal annotates one function at most: each is checked and rendered *)
(* without regard to the others.  Summaries, names of functions, patterns  *)
(* and uncertainties are one claim; arguments are left out.                *)
(***************************************************************************)
EXTENDS AgentContext

CONSTANTS
    ProposalsFor(_),  \* contract -> the proposals that may be made about it
    Identifiers,      \* labels validation accepts
    Renderable        \* labels safe_identifier lets through

VARIABLES
    proposal,
    body,             \* function, or the unassigned code -> access -> name
    declared          \* layout entry -> name

vars == <<contract, request, phase, cursor, layout, context, proposal, body, declared>>

Ended == {"no_answer", "refused", "rendered"}
Phases == {"infer", "look_up", "blocks", "propose", "validate", "render"} \cup Ended

----------------------------------------------------------------------------
(* validate_proposal *)

NoProposal == [made |-> FALSE]

IsProposal(p) ==
    p.made /\ {p.bound, p.claim, p.contractClaim} \subseteq BOOLEAN
ASSUME ProposalsAssumption ==
    \A s \in Sessions : \A p \in ProposalsFor(s.contract) : IsProposal(p)

\* Mutant: the facts its statements refer to are forgotten.
EvidenceWithoutFacts(f) ==
    {FunctionId(f)} \cup {BlockId(b) : b \in BlocksOf(f)}
        \cup {StatementId(s) : s \in Inside(f)} \cup {AccessId(a) : a \in AccessesOf(f)}

\* _evidence_ids, a definition of its own beside the one of the context.
EvidenceIds(f) ==
    {FunctionId(f)} \cup {BlockId(b) : b \in BlocksOf(f)}
        \cup {StatementId(s) : s \in Inside(f)}
        \cup {AccessId(a) : a \in AccessesOf(f)}
        \cup {FactId(s) : s \in Inside(f)}

\* Mutant: entries of any function.
AllEntries(f) == DOMAIN layout

\* The layout entries whose evidence is an access of f.
EntriesOf(f) == {k \in DOMAIN layout : layout[k] \in AccessesOf(f)}

KnownIn(f) == EvidenceIds(f) \cup EntriesOf(f)
StorageOf(f) == {AccessId(a) : a \in AccessesOf(f)} \cup EntriesOf(f)
KnownAnywhere == (UNION {EvidenceIds(f) : f \in Functions}) \cup StorageIds

Named(labels) == \A k \in DOMAIN labels : labels[k] \in Identifiers
\* Mutant: duplicates on accesses are not seen.
DistinctEntries(labels) ==
    \A k, l \in DOMAIN labels \cap {Key(a) : a \in Accesses} :
        labels[k] = labels[l] => k = l

Distinct(labels) == \A k, l \in DOMAIN labels : labels[k] = labels[l] => k = l

FunctionAccepted(p) ==
    /\ p.fn \in Functions
    /\ p.selector \in {None, contract.selector[p.fn]}
    /\ p.refs \subseteq KnownIn(p.fn)
    /\ p.claim \/ DOMAIN p.labels # {} => p.refs # {}
    /\ Named(p.labels)
    /\ DOMAIN p.labels \subseteq StorageOf(p.fn)

ContractAccepted(p) ==
    /\ p.contractRefs \subseteq KnownAnywhere
    /\ p.contractClaim \/ DOMAIN p.contractLabels # {} => p.contractRefs # {}
    /\ Named(p.contractLabels)
    /\ DOMAIN p.contractLabels \subseteq StorageIds
    /\ Distinct(p.contractLabels)

Accepted(p) == p.bound /\ (p.fn = None \/ FunctionAccepted(p)) /\ ContractAccepted(p)

Propose ==
    /\ phase = "propose"
    /\ proposal' \in ProposalsFor(contract)
    /\ phase' = "validate"
    /\ UNCHANGED <<contract, request, cursor, layout, context, body, declared>>

Validate ==
    /\ phase = "validate"
    /\ phase' = IF Accepted(proposal) THEN "render" ELSE "refused"
    /\ UNCHANGED <<contract, request, cursor, layout, context, proposal, body, declared>>

----------------------------------------------------------------------------
(* render_agent and render_contract *)

\* A label on an entry is handed to its evidence, over a label the access has
\* itself.
Labelled(labels, a) ==
    \/ AccessId(a) \in DOMAIN labels
    \/ Key(a) \in DOMAIN labels /\ layout[Key(a)] = a
LabelOf(labels, a) ==
    IF Key(a) \in DOMAIN labels /\ layout[Key(a)] = a
    THEN labels[Key(a)]
    ELSE labels[AccessId(a)]

Default(k) == [default |-> k]

\* The labels of a function come before those of the contract.  A text is its
\* name alone: keys, indices and the expression of a symbolic slot are left out.
NameIn(p, f, a) ==
    IF f # None /\ p.fn = f /\ Labelled(p.labels, a) THEN LabelOf(p.labels, a)
    ELSE IF Labelled(p.contractLabels, a) THEN LabelOf(p.contractLabels, a)
    ELSE Default(Key(a))

Declaration(p, k) ==
    IF k \in DOMAIN p.contractLabels /\ p.contractLabels[k] \in Renderable
    THEN p.contractLabels[k]
    ELSE Default(k)

\* Mutant: the code that no function owns is not rendered.
RenderShort ==
    /\ phase = "render"
    /\ body' = [f \in Functions |-> [a \in AccessesOf(f) |-> NameIn(proposal, f, a)]]
    /\ declared' = [k \in DOMAIN layout |-> Declaration(proposal, k)]
    /\ phase' = "rendered"
    /\ UNCHANGED <<contract, request, cursor, layout, context, proposal>>

Render ==
    /\ phase = "render"
    /\ body' = [f \in Places |-> [a \in AccessesOf(f) |-> NameIn(proposal, f, a)]]
    /\ declared' = [k \in DOMAIN layout |-> Declaration(proposal, k)]
    /\ phase' = "rendered"
    /\ UNCHANGED <<contract, request, cursor, layout, context, proposal>>

----------------------------------------------------------------------------

Init ==
    /\ ContextInit
    /\ proposal = NoProposal
    /\ body = NoEntries /\ declared = NoEntries

Next ==
    \/ ContextNext /\ UNCHANGED <<proposal, body, declared>>
    \/ Propose \/ Validate \/ Render

Spec == Init /\ [][Next]_vars

----------------------------------------------------------------------------
(* Properties *)

\* Every variable keeps its type.
TypeOK ==
    /\ [contract |-> contract, request |-> request] \in Sessions
    /\ phase \in Phases /\ cursor \in Nat \ {0}
    /\ DOMAIN layout \subseteq {Key(a) : a \in Accesses}
    /\ \A k \in DOMAIN layout : layout[k] \in Accesses
    /\ shown \in Seq([block : Nat, statements : Nat])
    /\ included \in Nat /\ omittedBlocks \in Nat /\ omittedStatements \in Nat
    /\ IsProposal(proposal) \/ (proposal = NoProposal /\ phase \notin {"validate", "render"})
    /\ body # NoEntries =>
          DOMAIN body = Places /\ \A f \in Places : DOMAIN body[f] = AccessesOf(f)
    /\ declared # NoEntries => DOMAIN declared = DOMAIN layout

\* What the context of a function leaves out it counts, statement by statement
\* and block by block; it stays within the limit, leaves a block out only if it
\* does not fit, and is called complete only if everything is there
\* (_function_context).
ContextAccounts ==
    request.selector # None /\ phase \in {"propose", "validate", "render"} =>
        /\ Cardinality(ShownStatements) <= Limit
        /\ Cardinality(ShownStatements) + omittedStatements = Cardinality(Inside(Selected))
        /\ Len(shown) + omittedBlocks = Len(Blocks)
        /\ \A n \in 1..Len(Blocks) :
              \/ \E m \in 1..Len(shown) : shown[m].block = n
              \/ Cardinality(ShownStatements) + contract.size[Blocks[n]] > Limit
        /\ ~FunctionTruncated =>
              /\ ShownStatements = Inside(Selected)
              /\ \A write \in BOOLEAN : ShownFacts(Selected, write) = Facts(Selected, write)

\* A proposal that keeps to what it was shown: it is about a function of the
\* contract, cites and labels what the contexts list of it, claims nothing
\* without a citation, and has a name of its own for each label of the contract.
Honest(p) ==
    /\ p.bound
    /\ p.fn # None =>
          /\ p.fn \in Functions /\ p.selector \in {None, contract.selector[p.fn]}
          /\ p.refs \subseteq FunctionListing(p.fn)
          /\ p.refs # {} \/ (~p.claim /\ DOMAIN p.labels = {})
          /\ DOMAIN p.labels \subseteq {k \in FunctionListing(p.fn) :
                \E a \in AccessesOf(p.fn) : k \in {AccessId(a), Key(a)}}
          /\ \A k \in DOMAIN p.labels : p.labels[k] \in Identifiers
    /\ p.contractRefs \subseteq ContractListing
    /\ p.contractRefs # {} \/ (~p.contractClaim /\ DOMAIN p.contractLabels = {})
    /\ DOMAIN p.contractLabels \subseteq StorageIds
    /\ \A k \in DOMAIN p.contractLabels :
          /\ p.contractLabels[k] \in Identifiers
          /\ \A l \in DOMAIN p.contractLabels \ {k} : p.contractLabels[k] # p.contractLabels[l]

\* Other code accesses the location before f does.
EarlierElsewhere(f, k) ==
    \E a \in Accesses \ AccessesOf(f) :
        Key(a) = k /\ \A d \in AccessesOf(f) : Key(d) = k => a < d

\* It names a location its function accesses but other code accessed first, or
\* a statement that no function has.
NamesForeign(p) ==
    \/ /\ p.fn # None
       /\ \E a \in AccessesOf(p.fn) :
             Key(a) \in p.refs \cup DOMAIN p.labels /\ EarlierElsewhere(p.fn, Key(a))
    \/ \E s \in contract.unresolved :
          StatementId(s) \in p.contractRefs /\ \A f \in Functions : s \notin Inside(f)

\* What the contexts list and what validation looks up are written twice
\* (context.py:18-46,118-170 and validation.py:39-71,131-148).  An answer that
\* keeps to what it was shown is refused in two cases only, and always in
\* those: validation takes a layout entry for a function's own only if its first
\* access is in that function, and knows no statement outside of functions.
OnlyForeignIsRefused ==
    phase \in {"refused", "render", "rendered"} /\ Honest(proposal) =>
        (phase = "refused" <=> NamesForeign(proposal))

\* What was accepted about a function cites and labels what the function
\* contains, or a layout entry of a location it accesses, and no other
\* function's facts; what was accepted about the contract exists in it.
AcceptedIsOwn ==
    phase \in {"render", "rendered"} =>
        /\ proposal.fn # None =>
              /\ proposal.fn \in Functions
              /\ proposal.refs \cup DOMAIN proposal.labels \subseteq
                    ContextEvidence(proposal.fn) \cup {Key(a) : a \in AccessesOf(proposal.fn)}
        /\ proposal.contractRefs \cup DOMAIN proposal.contractLabels \subseteq
              (UNION {ContextEvidence(f) : f \in Functions})
                \cup (UNION {{Key(a), AccessId(a)} : a \in Accesses})

\* Two accesses are to one variable: one access, or one known location.
SameVariable(a, d) ==
    \/ a = d
    \/ /\ contract.accesses[a].loc = contract.accesses[d].loc
       /\ contract.accesses[a].loc.kind # Symbolic

\* The name of the access is not one its function's own labels give it.
OutsideFunctionLabels(f, a) ==
    ~(f # None /\ proposal.fn = f /\ Labelled(proposal.labels, a))

\* Two accesses whose names come from the contract's labels have one name only
\* if they are to one variable: a label of the contract never merges two storage
\* variables (validate_proposal, render_agent).  The labels of a function are
\* not compared with one another nor with the contract's, nor is a label with
\* the name another variable has by default.
LabelsKeepApart ==
    phase = "rendered" =>
        \A f, g \in Places : \A a \in AccessesOf(f), d \in AccessesOf(g) :
            /\ OutsideFunctionLabels(f, a) /\ OutsideFunctionLabels(g, d)
            /\ body[f][a] = body[g][d]
            => SameVariable(a, d) \/ body[f][a] \in {Default(Key(a)), Default(Key(d))}

\* What that leaves room for: with the labels of functions and the names of the
\* unlabelled, two variables can share a name.
NamesKeepApart ==
    phase = "rendered" =>
        \A f, g \in Places : \A a \in AccessesOf(f), d \in AccessesOf(g) :
            body[f][a] = body[g][d] => SameVariable(a, d)

\* What the declarations suggest and the code does not do: only the first access
\* to a slot is given the label of its layout entry.
OneNamePerSlot ==
    phase = "rendered" =>
        \A a, d \in UNION {AccessesOf(f) : f \in Places} :
            Key(a) = Key(d) /\ Key(a) \in DOMAIN proposal.contractLabels =>
                \A f, g \in {h \in Places : h = None \/ h # proposal.fn} :
                    a \in AccessesOf(f) /\ d \in AccessesOf(g) => body[f][a] = body[g][d]
=============================================================================
