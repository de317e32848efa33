# Verification of evm-bytecode-decompiler

TLA+ models of the decompiler in `src/`, TLC runs that check them on small
instances, and TLAPS proofs of what matters most for every instance.

- [The system](#the-system)
- [Modules](#modules)
- [Runs](#runs)
- [Fairness](#fairness)
- [Proofs](#proofs)
- [Where code and documents disagree](#where-code-and-documents-disagree)
- [Not modelled](#not-modelled)
- [Plan](#plan)

Source paths below are relative to `src/src/evm_bytecode_decompiler/`.

## The system

`decompile` takes EVM runtime bytecode to a *run directory*: the input, the
relations of an analyzer (Gigahorse, or a built-in lifter), an intermediate
representation, pseudocode, an inferred ABI and storage layout, reports, and a
manifest `run.json` that indexes all of them by hash. A second, optional layer,
`agent/`, holds annotations that a language model proposes and the program
accepts only if they cite evidence of the run.

| Component | State it keeps | Operations | What makes it correct |
|---|---|---|---|
| `pipeline/decompile.py`, `pipeline/artifacts.py` | the files of one run directory | `decompile` with or without `--resume`, `validate_manifest` | a manifest that says complete is true, final, and answers only the request it was made for |
| `gigahorse/runner.py`, `gigahorse/docker.py` | an analyzer process or container | `run` of three runners | every outcome (ok, partial, error, timeout, exception) ends in a complete or a dead directory |
| `agent/validation.py`, `agent/artifacts.py` | `agent/proposal.json`, `annotations.json`, `manifest.json`, the annotated pseudocode and its report | `apply_proposal`, `load_applied`, `render_agent` | only grounded proposals are bound and rendered; the deterministic layer is left alone |
| `cli.py` | none | `render` rewrites `decompiled.sol` in place; the others call the above | – |
| `gigahorse/parser.py` | locals of one pass | `disassemble`, `build_blocks` | instructions as the EVM sees them, basic blocks, no static edge missing |
| `gigahorse/builtin.py` | locals: worklist, abstract stack and memory | `_selectors`, `_reachable`, `_storage_expressions`, `build_builtin_relations` | a function owns what its entry reaches; a storage label is true |
| `gigahorse/relations.py` | none | `load_relations`, `validate_relations`, `write_relations` | malformed rows are refused at the boundary, well-formed ones never later |
| `gigahorse/client/*.dl` | none | Datalog rules over Gigahorse's relations | rows that the boundary check and the builder accept |
| `ir/builder.py`, `ir/selectors.py`, `models/*` | none | `build_contract_ir` and the validators of the models | every fact is owned once and cites evidence |
| `inference/storage.py` | none | `infer_storage_layout` | one layout entry per location, with the evidence it was seen at |
| `agent/context.py` | none | `build_contract_context`, `build_function_context`: bounded views for a prompt | what is cut is counted; what is listed may be cited, with two exceptions |
| `synthesis/*`, the rest of `inference/*` | none | pseudocode with the names of storage, ABI, proxies | functions of the IR; a label of the contract never merges two variables |
| `validation/*` | none | `validate_structure`, coverage, report | refuses IR that does not hang together |
| `input/*`, `config.py` | none | hexadecimal, files, RPC, TOML | – |
| `install.sh` (top level) | staging directories, the destinations below two homes | check, make parents, copy, move, clean up | nothing is overwritten, what is installed is whole, success is accounted for |
| `benchmarks/`, the scripts of the Skill (top level) | – | drivers around the above | – |

How they interact: `cli` calls `decompile`, which writes into the run directory,
calls a runner (a subprocess that writes there too), reads its relations back
through `relations.py`, builds the IR, and writes everything derived from it.
The agent commands read that directory and write `agent/` only. **The file
system is the only state commands share, and there is no lock**: what is hard
here is commands that overlap, commands that die half way, containers that
outlive the client that started them, and files edited by hand. The other hard
part is sequential: the lifter interprets bytecode with an abstract stack that
starts empty under a real one, and its claims are later printed as facts; and
what an agent may cite is computed twice, once where it is shown and once where
it is judged. `install.sh` has the hazards of the first kind on its own files.

The hazards, each at its line with the properties that watch it, are in
`PROJECT.json`.

## Modules

| Module | Models | Relation to the others |
|---|---|---|
| `RunStore` | what one run directory promises | abstract; implemented by `Pipeline` |
| `Pipeline` | `decompile` on one directory, write by write | `PipelineProofs` proves about it |
| `OverlayStore` | what the agent layer promises | abstract; implemented by `Overlay` |
| `Overlay` | `render`, `agent apply`, `agent render` on one run, write by write | `OverlayProofs` |
| `Disassembler` | `disassemble` | extended by `ControlFlow`; `DisassemblerProofs` |
| `ControlFlow` | `build_blocks`, `_selectors`, `_reachable`, the row checks and the model checks | `ControlFlowProofs` |
| `Lifter` | `_storage_expressions` beside the EVM | `LifterProofs` |
| `Adapter` | the Datalog client, `load_relations`, `validate_relations`, `build_contract_ir`, the models, `validate_structure` | `AdapterProofs` |
| `AgentContext` | `infer_storage_layout`, `build_function_context` | extended by `Annotations` |
| `Annotations` | `validate_proposal`, the names `render_agent` gives to storage | `AnnotationsProofs` |
| `Installer` | `install.sh` | `InstallerProofs` |
| `MC*` | constants for TLC | extend the module they are named after |

### Pipeline and RunStore

A call of `decompile` is a process whose `pc` follows the function: `start`
(resume, refuse or begin), `stage`/`publish` (the two halves of `_write_json`:
write `.run.json.tmp`, rename it), then one phase per artifact group up to the
final manifest. `disk` maps an artifact to its content, described by who wrote
it for which identity and what its relations are worth. An artifact is `torn`
while it is being written in place (`write_text`). Runners are the choice of an
outcome (`RunBuiltin`, `RunExternal`, `RunAborted`, `RunRaises`); a container
whose client was killed at the timeout stays in `orphans` and writes later.
`Crash` may hit any live call at any point. SHA-256 is injective, so a manifest's
index maps artifacts to contents. With `AtomicClaim` no call finds the directory
empty between another's finding it empty and writing its first file there; calls
overlap in any other way.

`RunStore` is the promise: a slot that is empty, claimed, then sealed with one
result or spoiled for good; an answer is the sealed result. `Pipeline`'s `Slot`
maps the files to it.

### Overlay and OverlayStore

A command is a process that walks the steps of `apply_proposal` (check, three
staged and renamed JSON files, the hash taken from the file), of `load_applied`
(manifest, annotations, compare, revalidate), of `render_agent` (open truncates,
fill writes) or of `render`. Temporary names are fixed per file (`tmps`), as in
`_write_json`. A proposal is one of `Proposals`; those in `Grounded` pass
`validate_proposal`. `Edit` puts another proposal into `annotations.json` by
hand, `MaxEdits` times at most. With `ApplyAlone`, `agent/` has one writer (an
apply, a hand edit) or any number of readers (`agent render`) at a time; `render`,
which writes elsewhere, overlaps all of them. `canonical` is `decompiled.sol`, whose bytes
depend on the release that renders it.

`OverlayStore`: at most one grounded proposal is bound, and success is reported
for the bound one only.

### Disassembler and ControlFlow

One action per kind of instruction decodes the code; one step then computes the
blocks with their successors and the dispatcher entries; the worklist of
`_reachable` is run turn by turn for each entry; two more steps are the row
checks of `validate_relations` and the checks of `BasicBlockIR`/`FunctionIR`.
A PUSH operand stays the bytes read, and its number is computed where it is
used. The EVM's side (`Immediates`, `IsStart`, `ValidJumpdest`) is defined on
its own, so that the decoder is compared with something it does not share.

### Lifter

Every instruction of a block is executed twice: by the lifter on its abstract
stack and memory, which start empty, and by the EVM on a stack that holds any
number of words from `EntryDepths`. Words are described by their shape
(constant, `msg.sender`, calldata word, mapping slot, anything else). `truth`
keeps the real operands of the labelled instructions, and `lost` the first
position whose effect the lifter does not follow: an opcode outside its chain
that moves the stack or writes memory, a SWAP that reaches below its stack, a
store at an unknown offset or one that overlaps a word it remembers.

### Adapter

What Gigahorse recovers is a record (`program`): blocks and the functions that
own them, entries, local edges, the blocks that end in JUMPI and where they fall
through, instructions, effects, selectors. `Recovered` says what the client may
count on. `Client` is the rules of `evm_bytecode_decompiler.dl`; `Load` drops the
files a workspace lacks (`absent`); `Validate` is the boundary check; `ReadRows`
picks, for the dicts that keep the last row of a key, any of its rows, as the
order of the file is the Datalog engine's; `Build` computes the contract if the
builder's errors and the models' validators let it, `Refuse` otherwise;
`CheckStructure` is `validate_structure`, which only reads the contract. A
function is refused twice over if it has two selectors (`IdsUnique`) or none
(`FunctionsKnown`): the second is how the code treats private functions.

`Pipeline` takes the outcome of these steps as the *quality* of a workspace and
lets each of them refuse, the structure check included, although
`StructureAccepted` shows that the last one never does; `ControlFlow` has the same
checks for the rows of the built-in lifter.

### AgentContext and Annotations

A session is a contract and a request: a selector with `max_statements`, or
none. The contract is a record of its functions in order, their selectors and
blocks, the blocks no function owns, the number of statements of each block, and
the storage accesses, each at a statement and of a location. Identifiers are
records of different shapes, as the digests of the code differ.
`unresolved` are the statements the context of the contract lists as such
(`ContractListing`), whether a function has them or not.
`Infer` takes one access per step, as the loop of `infer_storage_layout` does:
the first access to a location stays the only evidence of its layout entry.
`ShowBlock`, `ClipBlock` and `OmitBlock` are the three branches of the block loop
of `build_function_context`; `ContextEvidence` is its `_function_evidence_ids`.

`Annotations` adds one proposal, taken from `ProposalsFor(contract)`.
`Accepted` is `validate_proposal`, with `EvidenceIds` as its own computation of
what may be cited, beside the one of the context. `Honest` says, without the terms of
the validation, what it is to keep to what the contexts list. `Render` gives every access in
every function, and in the code no function owns, its name, and every layout
entry its declaration. A proposal annotates at most one function: the code
checks and renders each function without regard to the others. The claims of a
function (summary, pattern, uncertainty, name) are one flag, as the code asks of
each of them only that something is cited. `Overlay` and `Annotations` divide
the agent layer: in `Overlay` the acceptable proposals are a set, `Grounded`, and
the files are what matters; here the rules are spelled out and no file is written.

### Installer

An invocation's phases are the commands of the script, each of which may fail:
`set -e` then leaves through the EXIT trap, if it is set yet. `Signal` runs the
trap of HUP, INT and TERM, which removes the listed staging directories and then
*returns*: the script goes on, and `cp -pR` makes the directory again. `Kill`
stops an invocation anywhere. `Create` is any other program. `mv` renames onto a
free name, moves *into* a directory and succeeds (`Nested` are the payloads that
lie in a directory at a destination, a foreign one or an installed payload), and
fails on a file; the `echo` after it may fail too, and ends the script. The two
homes of one invocation may be the same directory. Assumed of what is outside
the script: `rm -rf` succeeds, a rename on one file system is atomic, and the
Skill that is copied holds `SKILL.md` (`PayloadAssumption`; line 62 looks).

## Runs

| Run | Instance | What it shows |
|---|---|---|
| `pipeline_claim` | 2 calls in any overlap but that of two claims, 2 identities, built-in and docker runners, deaths anywhere | types; complete manifests are true (`CompleteIsWhole`) and final (`CompleteFrozen`); a caller gets its own result (`AnswerIsMine`); no abandoned container reaches a published directory (`NoOrphanBehindComplete`); the directory implements `RunStore`; sound relations are published unless the process dies (`SoundRunReturns`) |
| `pipeline_overlap` | 2 overlapping calls, built-in runner | once a complete run has no call at work in it and no container behind it, nothing changes it or unsettles it again (`SettledFrozen`); no call waits for another (`EveryCallEnds`) |
| `overlay_alone` | 3 commands, no apply at the same time as another agent command, 2 grounded proposals and 1 not, 2 releases, 1 edit | types; implements `OverlayStore`; leftovers of dead commands never block an acceptable apply (`SoundApplyReturns`) |
| `overlay_overlap` | 3 overlapping commands, otherwise the same | nothing ungrounded is rendered (`RenderedIsGrounded`); a run whose pseudocode no longer has the recorded hash stays that way, and nobody binds or renders anything in it (`DeadRunIsInert`) |
| `flow` | all strings of at most 4 of 9 control bytes, of at most 5 of JUMPDEST, PUSH1, PUSH2, PUSH32, programs of two dispatcher cases before 5 bodies, look-alike dispatchers | decoding agrees with the EVM, operand bytes included (`TilesExactly`, `JumpdestsExact`); blocks are basic and no static edge is missing; a function owns what its entry reaches, all of it and nothing else (`OwnsExactly`); what the row check accepts the models accept (`NoLateRefusal`); real dispatchers are never refused; worklists end |
| `lifter_local` | all blocks of at most 3 of 16 instructions and a storage access, the mapping-read idiom under every one or two edits, nested mappings, every call; 0 to 3 words below | slot labels and stored-value labels are true as far as the lifter follows (`LabelsTrue`) |
| `lifter_docstring` | blocks of at most 3 instructions, expected to fail | labels are not true wherever they are given |
| `lifter_columns` | the blocks with a CALL of seven known operands, expected to fail | `CallDetail` columns are reversed: gas and output size, target and output offset, value and input size are exchanged |
| `adapter` | programs of up to 3 blocks in one function, two or none, every way their blocks may end (nowhere, at one block, with a branch), up to 2 selectors, 1 effect, at most one relation file missing | rows are refused at the boundary or by the models, never by the structure check (`StructureAccepted`); a program whose functions all have one selector is accepted (`WholeIsAccepted`); a published contract shows each block once (`OwnedOnce`), every selector (`SelectorsShown`) and every effect (`EveryEffectShown`) |
| `adapter_branches` | the same, expected to fail | the false successor need not be the fall-through block |
| `agent` | contracts with up to 3 accesses at 4 statements in 2 functions and outside them, every citation of one identifier, one or two labels; and functions of up to 3 blocks of 0 to 6 statements asked for with limits below, at and above their size | what a context leaves out is counted (`ContextAccounts`); an honest answer is refused only for a location that other code accesses first or a statement no function has (`OnlyForeignIsRefused`); what is accepted is about its own function (`AcceptedIsOwn`); labels of the contract never merge two variables (`LabelsKeepApart`) |
| `installer` | 2 overlapping invocations for one home, the other, both, or the same one twice; 2 files, 1 signal each, failures, kills and foreign creations anywhere | nothing at a destination is replaced, and no payload there is taken away or loses a file (`NothingOverwritten`); status 0 means one whole payload at each destination, or inside the directory that another program put there after the check (`SuccessAccounted`); no staging directory is left by an invocation that ends (`StagingCleared`) |

Why the bounds are enough. Two calls show every interference of one call with
what another left or does: a third adds only more of the same, as calls carry
no state from one to the next (the proofs cover any number). In `Overlay` three
commands are needed for apply, apply, render. Control strings of four bytes
reach every pair of block kinds; the two-case programs have loops, shared
tails, branches from one body into another, destinations inside operands, past
the end, and at blocks that are no JUMPDEST. Three instructions before a
storage access are enough for every two operands and one reordering; the edited
idioms supply the long blocks in which memory matters. Three blocks give a
function an entry, a block that is only a member, and a neighbour: another
function's block or one no function owns; a second missing file adds no new
reader. In `agent` two accesses meet every way a second access can relate to the
evidence of a layout entry (same function, another, none; same location or
not), the third makes the first one's place matter; the limits 6 and 5 are small
enough that statements, facts and evidence are each clipped in some session and
just not clipped in another. Two invocations and one signal each reach every
place of a signal and every meeting at a destination; a second signal of one
invocation finds nothing the first did not (the proofs have any number).

`CHECK_DEADLOCK FALSE` is set where the modelled program ends: a block or a
bytecode has been read, a proposal refused or rendered, an installer has ended.
`Pipeline` and `Overlay` end in a stuttering step, so that a command stuck half
way is a deadlock TLC reports.

## Fairness

`Pipeline` and `Overlay` assume weak fairness of the steps of each live call:
the operating system schedules a live process, nothing in the code waits for
another call, and runners are started with a timeout. Nothing is assumed of
starting a call, of crashes, of edits or of containers. `ControlFlow` assumes
weak fairness of the worklist loop, a sequential loop without input.

## Proofs

`tlapm` checks every theorem below for all values of the constants.

| Module | Theorems |
|---|---|
| `PipelineProofs` | `TypeCorrect`, `SettledRunsAreFrozen`, `CallsAreBounded` (any overlap); with `AtomicClaim` `CompleteRunsAreWhole`, `AnswersAreMine`, `AnswersAgree`, `OrphansAreHarmless`, `CompleteRunsAreFrozen`, `SoundRunsKeepTheirPromise`, `PipelineImplementsRunStore` |
| `OverlayProofs` | `TypeCorrect`, `RenderedAreGrounded`, `DeadRunsAreInert`, `CommandsAreBounded` (any overlap); with `ApplyAlone` `AcceptedAppliesSucceed`, `QuietRunsAreBound`, `OverlayImplementsStore` |
| `LifterProofs` | `TypeCorrect`, `LabelsAreTrue` |
| `DisassemblerProofs` | `DecodingIsSound` |
| `AdapterProofs` | `TypeCorrect`, `StructuresAreAccepted`, `EffectsAreShown`, `BlocksAreOwnedOnce`, `SelectorsAreShown`, `WholeProgramsAreAccepted`, `OnlyWholeProgramsArePublished` |
| `ControlFlowProofs` | `TypeCorrect`, `LiftingDecodes`, `DecodingTiles`, `JumpdestsAreExact`, `BlocksAreAllBasic`, `EdgesAreComplete`, `OwnershipIsExact`, `WorklistsAreBounded`, `NoLateRefusals`, `DispatchersAreAccepted` |
| `AnnotationsProofs` | `TypeCorrect`, `LayoutsAreExact`, `ContextsAccount`, `OnlyForeignAreRefused`, `AcceptedAreOwn`, `LabelsAreApart` |
| `InstallerProofs` | `TypeCorrect`, `SuccessesAreAccounted`, `StagingIsCleared`, `NothingIsOverwritten`, `BadPathsAreHarmless`, `ExistingAreRefused`, `InvocationsAreBounded` |

**Pipeline.** `CompleteIsWhole` is not inductive: that the final manifest is
true depends on what each earlier phase left. `IInv` therefore says, per phase,
which artifacts are behind a working call and that they are good (`Behind`,
`Good`), what validations its relations have passed (`Passed`), what a call
about to publish has in its hands (`PutInv`), that a container left behind
belongs to a directory that is doomed or dead (`OrphanInv`), and that at most
one call is past its claim (`OneWriter`). The last is where `AtomicClaim` is
needed, and the only place: calls that look, refuse or return complete results
may come and go meanwhile. One lemma per action preserves `IInv`. The refinement
is proved by the same invariant: every action is a step of `RunStore` under
`Slot`, or leaves it unchanged.

Two theorems are what liveness rests on, without the fairness.
`CallsAreBounded`: a call's remaining steps (`StepsLeft`, 25 at most) fall with
each of its own steps and are left alone by everybody else's.
`SoundRunsKeepTheirPromise`: a call that has loaded sound relations is taken off
its way to a complete manifest by nothing but its death. With weak fairness the
two give `SoundRunReturns`; that last step is TLC's.

**Overlay.** `RenderedIsGrounded` becomes inductive once it is known that the
proposal a rendering call carries was validated (`GroundInv`). `OverlayStore`
needs more: that no other agent command is alive beside an apply (`Locked`), how
far an apply has got (`ApplyOf`), what a render has read (`LoadOf`), and that a
manifest in place binds a grounded proposal (`BindInv`). `CommandsAreBounded` (12
steps) and `AcceptedAppliesSucceed` (an apply that passed its check goes on to
success or dies) are to `SoundApplyReturns` what the two theorems of `Pipeline`
are to `SoundRunReturns`. `QuietRunsAreBound` is the other side of
`MCOverlay_lost.cfg`: with `ApplyAlone`, while nobody is at work, nothing died and
nothing was edited, the manifest binds the proposal of an apply that succeeded.
Between two commands that follows from the last apply; `StandingInv` says what is
left of it while the next one writes.

**Lifter.** While the lifter follows (`lost >= at`), its stack is a prefix of
the real one word by word, up to what labels leave open, and every word it
remembers is in the real memory (`InStep`). This is preserved by each
instruction it follows, and labels are read off it.

**Disassembler.** `Tiles` is joined by what an instruction has to do with the
bytes it was read from (`Faithful`), by its operand bytes being those of the code
(`OperandsExact`), and by the agreement with the EVM up to `pc`
(`StartsFound`). The EVM's rule for where instructions start is a recursive
function; that it satisfies its own equation (`StartRule`) is shown with the least
set that holds 0 and what follows its members, and that no start lies inside an
instruction with a least counterexample.

**ControlFlow.** The worklist invariant: a successor of a seen block is seen or
still to do, everything to do lies in every closed set that holds the entry, and
the rows of finished functions are closed under successors. That both branches
of a member are members follows, and with it `NoLateRefusals`. It also needs
that a successor is always a block, which comes from the block table and not
from the worklist. A second invariant, `TableKept`, says that the table stays
what the instructions make of it; basic blocks and complete edges are then facts
about decoded code, and a program is only refused because an entry is no block,
which a valid destination always is (`JumpdestLeads`). `OwnsExactly` needs both
directions: rows lie in every closed set (`RowsAreReached`), and are closed
themselves. `WorklistsAreBounded` has a measure for the loop, the length of the
worklist and two for each block not seen (`TurnsLeft`): a turn removes one item
and adds two at most, only if its block is new; `WorklistsEnd` adds the
fairness. `LiftingDecodes` is the refinement that lets everything said of
`Disassembler` be said of a lift.

**Adapter.** The invariant says what each phase has established: the rows are
the client's, the boundary check holds of them, what was read are rows of them,
the contract is what the builder makes of them and the models accept. The rest
is set reasoning about that contract: with `FunctionBlock` there, a function's
members are the blocks it owns, since its entry row is one of them; then owners,
effects and selectors can be read off. For acceptance, local edges stay inside a
function, so both branches of a member are members and the models' branch check
holds. `OnlyWholeProgramsArePublished` is the converse: a program with a private
function or one of two selectors is never published, so that with all files
there `Whole` is exactly the condition for being published. The least block,
which a contract without functions takes for its entry, exists because `<` is
well founded on `Nat`.

**Annotations.** `LayoutInv`: every layout entry is the key of an
access, and its evidence is an access with that key; `FirstInv` makes it exact:
each variable accessed before the cursor has its one entry, whose evidence is the
first access (`LayoutsAreExact`). Of an entry of a location a function accesses,
the evidence is then one of its accesses exactly if no other code accesses the
location earlier (`EntryOfFirst`), and `OnlyForeignAreRefused` follows, as the two
computations of a function's evidence agree (`SameEvidence`) and a statement is
known to validation exactly if a function has it (`StatementKnown`). `ContextInv` is the account of
the block loop: after the blocks before the cursor (`Handled`), what is shown and
what is counted as omitted add up to the statements of those blocks, and a block
that is left out does not fit; `ContextAccounts` is the account at the end, once
the cardinality of the shown statements is known to be `included`. `ProposalInv`
keeps that what is rendered was accepted, `BodyInv` how it was named. That
`LabelsKeepApart` holds then rests on `Distinct` and on each entry being
handed to one access.

**Installer.** Every step changes one invocation, so the invariant is one for
all destinations (`PlaceInv`: every moved payload is whole; an installed one is
at its destination, and no other one is; a nested one has a directory around it)
and one per invocation (`ScriptInv`): nothing is staged before the trap is set
(`Fresh`), copies before its index are moved and those beyond it untouched
(`Progress`), a staging directory is listed or about to be (`StagedIsListed`),
what has been verified is whole unless the trap removed it (`StagedIsWhole`), and
status 0 at the exit is only reached past the last destination (`Outcome`).
`NothingOverwritten` follows from `PlaceInv` step by step: only `Move` and `Create`
write a destination, `Create` where it is absent, and `Move` where it is absent or
a directory, which gains a payload. What is true of what `MCInstaller_partial.cfg`
refutes is proved: status 0 puts a whole payload at the destination or into a
foreign directory there (`SuccessesAreAccounted`), a path that cannot be made is
found before anything is staged (`BadPathsAreHarmless`), and an invocation one of
whose destinations is there before it looks never installs anything
(`ExistingAreRefused`). `InvocationsAreBounded` counts the commands left
(`CommandsLeft`, 15 at most): the trap returns into the script, but never back in
it.

Assumed: the constants' assumptions named in the modules (`BackendsAssumption`
and the like, evaluated by TLC in every run), and injective hashing, which is
built into the model. `AtomicClaim` and `ApplyAlone` are assumptions of the
theorems listed behind them. The code does not enforce them, as it takes no lock;
they ask the users of a run for a discipline, as weak as the proofs allow, and the
configurations `MCPipeline_race.cfg` and `MCOverlay_lost.cfg` show what happens without.
Only model-checked: the liveness properties (`EveryCallEnds`,
`SoundRunReturns`, `SoundApplyReturns`, `WorklistsEnd`), which TLAPS cannot reason
about under fairness. Every other property of a passing run is a theorem.

## Where code and documents disagree

Runs that are expected to fail, each with its finding in `PROJECT.json`:

- `lifter_docstring`: "unambiguous local evidence" (`builtin.py:62`) is not what
  an ignored ADD leaves on the abstract stack.
- `lifter_columns`: operands are reversed (`builtin.py:153`).
- `adapter_branches`: the Datalog client emits both orders of a conditional
  branch (lines 35-41) and the builder keeps the last it reads.

Configurations that are kept for running by hand; TLC finds each property
violated:

- `MCPipeline_race.cfg` (`CompleteFrozen` under overlap): the emptiness check
  (`pipeline/decompile.py:255`) and the first write (259) are two steps, and a
  second call may pass the check before the first has written.
- `MCOverlay_lost.cfg` (`QuietIsBound` under overlap): `apply_proposal` hashes
  the file, not what it wrote (`agent/validation.py:226`), so the annotations of
  one apply stand under the manifest of another.
- `MCAnnotations_labels.cfg` (`OneNamePerSlot`): only the access that is the
  evidence of a layout entry is rendered with the entry's label
  (`inference/storage.py:82`, `agent/artifacts.py:46-56`); the declaration, and
  docs/how-it-works.md:79, suggest that the slot has the name everywhere. The same
  configuration refutes `NamesKeepApart`: with the labels a function gives its own
  accesses, or a label equal to another slot's default name, two variables share
  a name in the rendered code (`agent/validation.py:202-204` compares the labels of
  the contract only, and only with one another). Run it with `-continue`.
- `MCInstaller_partial.cfg` (`SuccessMeansInstalled`, `NoPartialInstall`,
  `ExistingIsRefused`; run with `-continue`): README.md:62,71-76 and
  tests/test_install.py:42-49 look for the Skill at the destination itself after
  status 0, and `mv` (`install.sh:122`) puts it one level down if a directory
  appeared there after the check; making all parents first (`install.sh:97`) does
  not keep a later `mktemp`, `cp` or `mv` from failing after the first destination
  is installed; and a destination that appears after the check gets the payload
  moved into it, as does the second of two equal homes (README.md:62 says that an
  existing destination is refused).

Seen while modelling:

- *Pipeline.* `completeness` is "full" as soon as one relation file exists
  (`gigahorse/runner.py:187`); a `render` that dies, or runs with another release,
  spoils the run (`cli.py:163`); the fingerprint does not cover the release
  (`pipeline/decompile.py:74-100`).
- *Adapter.* A contract with a private function, or with two selectors for one
  function, is refused as a whole (`relations.py:121`, `models/ir.py:259`), which
  is why `WholeIsAccepted` asks for one selector each; without a `FunctionBlock`
  file the entry block of a function is both in it and among the blocks of which
  pseudocode.py:271 says that no ownership was proven, which is why `OwnedOnce`
  asks for that file; the block of a statement is not looked up (`relations.py:122`).
- *Agent.* `.agents/skills/evm-bytecode-decompiler/references/annotation-schema.md:36-37`
  asks that every cited id "resolve in the selected function or contract", and
  `evidence-rules.md:12-13` beside it that claims cite ids "from the relevant
  function or contract context". Two things the contexts list are refused all the
  same (`NamesForeign`): a layout entry, where a function accesses the location but
  other code does so first (`agent/validation.py:146-148, 168-173`), and an
  unresolved statement of a block that no function owns (`agent/context.py:138-143`
  looks at all blocks, `agent/validation.py:70-71` at those of functions).
  `OnlyForeignIsRefused` says that there is nothing else. A function's own labels are
  not checked for duplicates, as the contract's are (202-204), and a label may be the
  default name of another slot; hence the two exceptions in `LabelsKeepApart`. `catch` is reserved
  for the renderer and not for the validation, so such a label appears in the
  bodies and not in the declaration (`Declaration`). With two functions of one
  selector, a function's context is of the first (`agent/context.py:202-207`) and
  the inventory's `selector_to_function_id` names the last (137).
- *Installer.* After TERM the script goes on and may exit 0.

## Not modelled

Text: mnemonics, expression texts, pseudocode, report and TSV layout. Pure
input: hexadecimal parsing, RPC, configuration. The external analyzer, solc and
docker beyond what their callers see. Benchmarks, the scripts inside the Skill, and
the option parsing of `install.sh`; a move of a payload into a directory on another
file system, which copies. Of the relations, column counts and the cells that only
carry text or numbers (a slot or a call type that cannot be read is refused too,
which `Adapter` leaves out). Of inference, what is a pure function of the IR: ABI
candidates, proxies, confidences. Of the contexts, the inventory of the contract,
which is clipped to fixed limits in one step each, and calls, events and reverts,
which are listed and clipped as storage accesses are. Of proposals, arguments and
their types and the length and character rules of free text. The `validate` command
writes `output/validation.json` in place (`cli.py:178-181`): no manifest indexes that
file and no command reads it, so `Overlay` leaves it out.

## Plan

Done: the run directory (`RunStore`, `Pipeline`), the agent layer
(`OverlayStore`, `Overlay`), decoding and control flow (`Disassembler`,
`ControlFlow`), storage labels (`Lifter`), the external analyzer's rows up to the
published contract (`Adapter`), contexts and proposals (`AgentContext`,
`Annotations`), the installer (`Installer`), with their proofs.

Next, in this order:

1. Resume across releases and thin workspaces in `Pipeline`: the fingerprint does
   not cover the release, and "full" does not mean that every file was there.
2. Statements in unknown blocks, and the inventory of the contract context.
