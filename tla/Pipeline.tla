------------------------------ MODULE Pipeline ------------------------------
(***************************************************************************)
(* `decompile` on ONE run directory (pipeline/decompile.py), at the        *)
(* granularity of its file writes.  Several invocations of the command may *)
(* be made on the directory, with or without --resume, for the same or for *)
(* different identities; any of them may die between two writes or in the  *)
(* middle of one.  The directory is the only state they share.             *)
(*                                                                         *)
(* An artifact stands for the files the code writes side by side at one    *)
(* stage: "input" for input/*, "facts" for everything under gigahorse/     *)
(* except results.json, "contract" for ir/*; the others are single files.  *)
(* SHA-256 is taken as injective, so the index of a complete manifest maps *)
(* an artifact to its content.                                             *)
(***************************************************************************)
EXTENDS Naturals, FiniteSets

CONSTANTS
  Invocations,  \* the calls of decompile made on the directory
  Ids,          \* identities: fingerprints of input, backend and client
  Backends,     \* runners that may be selected: builtin, local, docker
  AtomicClaim   \* TRUE: no call finds the directory empty between another's
                \* finding it empty and writing its first file there

ASSUME BackendsAssumption == Backends \subseteq {"builtin", "local", "docker"}
ASSUME AtomicClaimAssumption == AtomicClaim \in BOOLEAN

VARIABLES
  pc,       \* pc[p]: where invocation p stands in decompile()
  req,      \* req[p]: its identity, --resume flag and backend
  tool,     \* tool[p]: the GigahorseResult it got, the relations it loaded
  draft,    \* draft[p]: the manifest it is about to write with _write_json
  disk,     \* the artifacts of the run directory
  manifest, \* run.json
  tmp,      \* .run.json.tmp, the one temporary name every writer uses
  orphans,  \* invocations whose container outlives the docker client
  answer    \* answer[p]: the contract p returned to its caller

vars == <<pc, req, tool, draft, disk, manifest, tmp, orphans, answer>>

-----------------------------------------------------------------------------
(* The content of files.                                                   *)

Artifacts == {"input", "facts", "results", "contract", "sol", "abi",
              "storage", "evidence", "report", "logs"}

(* What the relation files of a workspace are worth: refused by            *)
(* load_relations, refused by build_contract_ir, refused by                *)
(* validate_structure, accepted although optional relations are missing,   *)
(* or accepted and whole.                                                  *)
Quality == {"malformed", "inconsistent", "unstructured", "thin", "sound"}

NoFile == [kind |-> "absent"]
Torn   == [kind |-> "torn"]

(* Bytes that depend on the input alone; gigahorse/ also records command   *)
(* lines and durations, which differ from one invocation to the next.      *)
InputBytes(i)         == [kind |-> "whole", id |-> i]
FactBytes(i, p, q)    == [kind |-> "whole", id |-> i, by |-> p, quality |-> q]
ResultBytes(i, p, st) == [kind |-> "whole", id |-> i, by |-> p, status |-> st]
Derived(i, q)         == [kind |-> "whole", id |-> i, quality |-> q]

NoManifest      == [status |-> "absent"]
Running(i)      == [status |-> "running", id |-> i]
Complete(i, ix) == [status |-> "complete", id |-> i, index |-> ix]

(* Mutant: a failed manifest does not say which run failed.                *)
FailedAnonymous(i) == [status |-> "failed"]
Failed(i) == [status |-> "failed", id |-> i]

ToolStatus   == {"ok", "timeout", "error"}
Completeness == {"full", "partial", "unknown"}
ToolReport(st, c, q) == [status |-> st, completeness |-> c, quality |-> q]
NoTool == ToolReport("unknown", "unknown", "sound")

-----------------------------------------------------------------------------
(* Phases of an invocation, named for what it does next.  An invocation    *)
(* that publishes a manifest passes through "stage" (write the temporary   *)
(* file) and "publish" (rename it), whichever manifest it is.              *)

Checking == {"resume", "empty"}
Working  == {"input", "tool", "results", "relations", "build", "contract",
             "sol", "abi", "storage", "evidence", "structure", "report",
             "logs", "index"}
Putting  == {"stage", "publish"}
Ended    == {"returned", "refused", "raised", "crashed"}
Phase    == {"idle"} \cup Checking \cup Working \cup Putting \cup Ended

Live(p) == pc[p] \in Checking \cup Working \cup Putting

(* any(run_dir.iterdir())                                                  *)
DirEmpty ==
  /\ manifest = NoManifest
  /\ tmp = NoManifest
  /\ \A f \in Artifacts : disk[f] = NoFile

(* Mutant: the fingerprint of the saved run is not compared.               *)
AnyValidManifest(i) ==
  /\ manifest.status = "complete"
  /\ \A f \in Artifacts : manifest.index[f] # NoFile => disk[f] = manifest.index[f]

(* validate_manifest(run_dir, fingerprint=i)                               *)
ValidManifest(i) ==
  /\ manifest.status = "complete"
  /\ manifest.id = i
  /\ \A f \in Artifacts : manifest.index[f] # NoFile => disk[f] = manifest.index[f]

(* _resume_result returns a cached result: the files it requires exist,    *)
(* the manifest validates, contract, ABI and storage parse, and the saved  *)
(* analysis status is one of success.                                      *)
Required == {"contract", "facts", "abi", "storage", "sol", "evidence", "report"}
Resumable(i) ==
  /\ \A f \in Required : disk[f] # NoFile
  /\ ValidManifest(i)
  /\ \A f \in {"contract", "abi", "storage", "results"} : disk[f].kind = "whole"
  /\ disk["results"].status \in {"ok", "partial"}

-----------------------------------------------------------------------------
Init ==
  /\ pc = [p \in Invocations |-> "idle"]
  /\ req \in [Invocations -> [id : Ids, resume : BOOLEAN, backend : Backends]]
  /\ tool = [p \in Invocations |-> NoTool]
  /\ draft = [p \in Invocations |-> NoManifest]
  /\ disk = [f \in Artifacts |-> NoFile]
  /\ manifest = NoManifest
  /\ tmp = NoManifest
  /\ orphans = {}
  /\ answer = [p \in Invocations |-> NoFile]

Goto(p, phase) == pc' = [pc EXCEPT ![p] = phase]

(* _write_json(run.json, m): the next two steps of p write m.              *)
Put(p, m) ==
  /\ Goto(p, "stage")
  /\ draft' = [draft EXCEPT ![p] = m]

(* _mark_failed, then the exception propagates.                            *)
Fail(p) == Put(p, Failed(req[p].id))

Write(f, bytes) == disk' = [disk EXCEPT ![f] = bytes]

(* The command is called; mkdir(exist_ok=True) leaves an existing          *)
(* directory as it is, and a missing one is not told from an empty one.    *)
Start(p) ==
  /\ pc[p] = "idle"
  /\ Goto(p, IF req[p].resume THEN "resume" ELSE "empty")
  /\ UNCHANGED <<req, tool, draft, disk, manifest, tmp, orphans, answer>>

ResumeHit(p) ==
  /\ pc[p] = "resume"
  /\ Resumable(req[p].id)
  /\ Goto(p, "returned")
  /\ answer' = [answer EXCEPT ![p] = disk["contract"]]
  /\ UNCHANGED <<req, tool, draft, disk, manifest, tmp, orphans>>

ResumeMiss(p) ==
  /\ pc[p] = "resume"
  /\ ~Resumable(req[p].id)
  /\ Goto(p, "empty")
  /\ UNCHANGED <<req, tool, draft, disk, manifest, tmp, orphans, answer>>

(* A directory that holds anything is refused with ArtifactError.          *)
Refuse(p) ==
  /\ pc[p] = "empty"
  /\ ~DirEmpty
  /\ Goto(p, "refused")
  /\ UNCHANGED <<req, tool, draft, disk, manifest, tmp, orphans, answer>>

(* Mutant: a call writes into whatever directory it finds.                 *)
BeginAnywhere(p) ==
  /\ pc[p] = "empty"
  /\ Put(p, Running(req[p].id))
  /\ UNCHANGED <<req, tool, disk, manifest, tmp, orphans, answer>>

(* Mutant: a call starts over in a directory whose run never completed.    *)
BeginOver(p) ==
  /\ pc[p] = "empty"
  /\ manifest.status # "complete"
  /\ Put(p, Running(req[p].id))
  /\ UNCHANGED <<req, tool, disk, manifest, tmp, orphans, answer>>

(* p has found the directory empty and has not written a file yet.         *)
Claiming(p) == pc[p] = "stage" /\ draft[p].status = "running"

Begin(p) ==
  /\ pc[p] = "empty"
  /\ DirEmpty
  /\ AtomicClaim => \A q \in Invocations : ~Claiming(q)
  /\ Put(p, Running(req[p].id))
  /\ UNCHANGED <<req, tool, disk, manifest, tmp, orphans, answer>>

Stage(p) ==
  /\ pc[p] = "stage"
  /\ tmp' = draft[p]
  /\ Goto(p, "publish")
  /\ UNCHANGED <<req, tool, draft, disk, manifest, orphans, answer>>

(* The rename publishes whatever the temporary file holds; the call then   *)
(* goes on as its own draft says.                                          *)
Publish(p) ==
  /\ pc[p] = "publish"
  /\ tmp # NoManifest
  /\ manifest' = tmp
  /\ tmp' = NoManifest
  /\ \/ /\ draft[p].status = "running"
        /\ Goto(p, "input")
        /\ UNCHANGED answer
     \/ /\ draft[p].status = "failed"
        /\ Goto(p, "raised")
        /\ UNCHANGED answer
     \/ /\ draft[p].status = "complete"
        /\ Goto(p, "returned")
        /\ answer' = [answer EXCEPT ![p] = Derived(req[p].id, tool[p].quality)]
  /\ UNCHANGED <<req, tool, draft, disk, orphans>>

(* Mutant: the rename is retried until a temporary file turns up.          *)
PublishRetried(p) ==
  /\ pc[p] = "publish"
  /\ tmp = NoManifest
  /\ UNCHANGED vars

(* Another writer has renamed the shared temporary file away.              *)
PublishLost(p) ==
  /\ pc[p] = "publish"
  /\ tmp = NoManifest
  /\ Goto(p, "raised")
  /\ UNCHANGED <<req, tool, draft, disk, manifest, tmp, orphans, answer>>

WriteInput(p) ==
  /\ pc[p] = "input"
  /\ Write("input", InputBytes(req[p].id))
  /\ Goto(p, "tool")
  /\ UNCHANGED <<req, tool, draft, manifest, tmp, orphans, answer>>

-----------------------------------------------------------------------------
(* selected_runner.run(): one action per way a runner can return.          *)

ToolReturns(p, status, completeness) ==
  /\ tool' = [tool EXCEPT ![p] = ToolReport(status, completeness, @.quality)]
  /\ Goto(p, "results")
  /\ UNCHANGED <<req, draft, manifest, tmp, answer>>

(* BuiltinRunner always reports ok/partial and writes every relation.      *)
RunBuiltin(p) ==
  /\ pc[p] = "tool"
  /\ req[p].backend = "builtin"
  /\ \E q \in Quality \ {"thin"} : Write("facts", FactBytes(req[p].id, p, q))
  /\ ToolReturns(p, "ok", "partial")
  /\ UNCHANGED orphans

(* The analyzer exited, with any exit status; "full" only says that some   *)
(* relation file was found.                                                *)
RunExternal(p) ==
  /\ pc[p] = "tool"
  /\ req[p].backend \in {"local", "docker"}
  /\ \E status \in {"ok", "error"} :
       \/ /\ UNCHANGED disk
          /\ ToolReturns(p, status, "partial")
       \/ /\ \E q \in Quality : Write("facts", FactBytes(req[p].id, p, q))
          /\ ToolReturns(p, status, "full")
  /\ UNCHANGED orphans

(* The analyzer timed out, or could not be executed.  A timed-out docker   *)
(* client leaves its container running on the mounted directory.           *)
RunAborted(p) ==
  /\ pc[p] = "tool"
  /\ req[p].backend \in {"local", "docker"}
  /\ \/ /\ ToolReturns(p, "timeout", "unknown")
        /\ orphans' = IF req[p].backend = "docker" THEN orphans \cup {p} ELSE orphans
     \/ /\ ToolReturns(p, "error", "unknown")
        /\ UNCHANGED orphans
  /\ UNCHANGED disk

RunRaises(p) ==
  /\ pc[p] = "tool"
  /\ Fail(p)
  /\ UNCHANGED <<req, tool, disk, manifest, tmp, orphans, answer>>

(* The orphaned container goes on writing relations and its own            *)
(* results.json into gigahorse/, and ends when it likes.                   *)
ContainerWrites(p) ==
  /\ p \in orphans
  /\ \/ \E q \in Quality : Write("facts", FactBytes(req[p].id, p, q))
     \/ Write("results", ResultBytes(req[p].id, p, "ok"))
  /\ UNCHANGED <<pc, req, tool, draft, manifest, tmp, orphans, answer>>

ContainerExits(p) ==
  /\ p \in orphans
  /\ orphans' = orphans \ {p}
  /\ UNCHANGED <<pc, req, tool, draft, disk, manifest, tmp, answer>>

-----------------------------------------------------------------------------
(* Mutant: a timed-out analysis goes on with the relations it finds.       *)
UnusableIfFailed(p) ==
  \/ tool[p].status = "error"
  \/ req[p].backend \in {"local", "docker"} /\ tool[p].completeness = "partial"

(* Timeouts, errors and empty external workspaces fail the run.            *)
Unusable(p) ==
  \/ tool[p].status \in {"timeout", "error"}
  \/ req[p].backend \in {"local", "docker"} /\ tool[p].completeness = "partial"

EffectiveStatus(t) ==
  IF t.completeness = "partial" /\ t.status = "ok" THEN "partial" ELSE t.status

WriteResults(p) ==
  /\ pc[p] = "results"
  /\ Write("results", ResultBytes(req[p].id, p, EffectiveStatus(tool[p])))
  /\ IF Unusable(p)
     THEN Fail(p)
     ELSE Goto(p, "relations") /\ UNCHANGED draft
  /\ UNCHANGED <<req, tool, manifest, tmp, orphans, answer>>

LoadRelations(p) ==
  /\ pc[p] = "relations"
  /\ IF disk["facts"].kind = "whole" /\ disk["facts"].quality # "malformed"
     THEN /\ tool' = [tool EXCEPT ![p] =
                        ToolReport(@.status, @.completeness, disk["facts"].quality)]
          /\ Goto(p, "build")
          /\ UNCHANGED draft
     ELSE Fail(p) /\ UNCHANGED tool
  /\ UNCHANGED <<req, disk, manifest, tmp, orphans, answer>>

BuildIR(p) ==
  /\ pc[p] = "build"
  /\ IF tool[p].quality = "inconsistent"
     THEN Fail(p)
     ELSE Goto(p, "contract") /\ UNCHANGED draft
  /\ UNCHANGED <<req, tool, disk, manifest, tmp, orphans, answer>>

(* The files computed from the contract, in the order they are written;    *)
(* validate_structure runs between the evidence map and the report.        *)
AfterWrite ==
  [contract |-> "sol", sol |-> "abi", abi |-> "storage", storage |-> "evidence",
   evidence |-> "structure", report |-> "logs", logs |-> "index"]

WriteDerived(p) ==
  /\ pc[p] \in DOMAIN AfterWrite
  /\ Write(pc[p], Derived(req[p].id, tool[p].quality))
  /\ Goto(p, AfterWrite[pc[p]])
  /\ UNCHANGED <<req, tool, draft, manifest, tmp, orphans, answer>>

(* Mutant: structural errors are only warned about.                        *)
StructureWarned(p) ==
  /\ pc[p] = "structure"
  /\ Goto(p, "report")
  /\ UNCHANGED <<req, tool, draft, disk, manifest, tmp, orphans, answer>>

(* Mutant: a partial analysis is a structural error.                       *)
StructureStrict(p) ==
  /\ pc[p] = "structure"
  /\ IF tool[p].quality = "unstructured" \/ tool[p].completeness = "partial"
     THEN Fail(p)
     ELSE Goto(p, "report") /\ UNCHANGED draft
  /\ UNCHANGED <<req, tool, disk, manifest, tmp, orphans, answer>>

ValidateStructure(p) ==
  /\ pc[p] = "structure"
  /\ IF tool[p].quality = "unstructured"
     THEN Fail(p)
     ELSE Goto(p, "report") /\ UNCHANGED draft
  /\ UNCHANGED <<req, tool, disk, manifest, tmp, orphans, answer>>

(* Hash every file of the directory except run.json.                       *)
BuildIndex(p) ==
  /\ pc[p] = "index"
  /\ Put(p, Complete(req[p].id, disk))
  /\ UNCHANGED <<req, tool, disk, manifest, tmp, orphans, answer>>

(* The process dies, or an exception nobody marks escapes (a full disk,    *)
(* an inference or rendering error).  Artifacts written in place may be left   *)
(* half written; results.json, abi.inferred.json and run.json, which go    *)
(* through a temporary file, may not.  A container may survive its client. *)
InPlace(phase) ==
  IF phase = "tool" THEN {"facts"}
  ELSE {phase} \cap {"input", "contract", "sol", "storage", "evidence",
                     "report", "logs"}

Crash(p) ==
  /\ Live(p)
  /\ Goto(p, "crashed")
  /\ \/ UNCHANGED disk
     \/ \E f \in InPlace(pc[p]) : Write(f, Torn)
  /\ orphans' = IF pc[p] = "tool" /\ req[p].backend = "docker"
                THEN orphans \cup {p} ELSE orphans
  /\ UNCHANGED <<req, tool, draft, manifest, tmp, answer>>

Step(p) ==
  \/ ResumeHit(p) \/ ResumeMiss(p) \/ Refuse(p) \/ Begin(p)
  \/ Stage(p) \/ Publish(p) \/ PublishLost(p)
  \/ WriteInput(p)
  \/ RunBuiltin(p) \/ RunExternal(p) \/ RunAborted(p) \/ RunRaises(p)
  \/ WriteResults(p) \/ LoadRelations(p) \/ BuildIR(p)
  \/ WriteDerived(p) \/ ValidateStructure(p) \/ BuildIndex(p)

(* Every call has been made and has ended.                                 *)
AllEnded ==
  /\ \A p \in Invocations : pc[p] \in Ended
  /\ orphans = {}
  /\ UNCHANGED vars

Next ==
  \/ \E p \in Invocations :
       \/ Start(p) \/ Step(p) \/ Crash(p)
       \/ ContainerWrites(p) \/ ContainerExits(p)
  \/ AllEnded

Spec == Init /\ [][Next]_vars

(* A process that is alive is scheduled, and every runner returns within   *)
(* its timeout; nobody owes a call, a crash or a container's progress.     *)
FairSpec == Spec /\ \A p \in Invocations : WF_vars(Step(p))

-----------------------------------------------------------------------------
(* The type invariant.                                                     *)

InputTypes  == [kind : {"whole"}, id : Ids]
FactTypes   == [kind : {"whole"}, id : Ids, by : Invocations, quality : Quality]
ResultTypes == [kind : {"whole"}, id : Ids, by : Invocations,
                status : ToolStatus \cup {"partial"}]
Contracts   == [kind : {"whole"}, id : Ids, quality : Quality]

Stored(types) == types \cup {NoFile, Torn}

Disks ==
  {d \in [Artifacts -> Stored(InputTypes \cup FactTypes \cup ResultTypes \cup Contracts)] :
     /\ d["input"] \in Stored(InputTypes)
     /\ d["facts"] \in Stored(FactTypes)
     /\ d["results"] \in Stored(ResultTypes)
     /\ \A f \in DOMAIN AfterWrite : d[f] \in Stored(Contracts)}

Manifests ==
  {NoManifest}
    \cup [status : {"running", "failed"}, id : Ids]
    \cup [status : {"complete"}, id : Ids, index : Disks]

TypeOK ==
  /\ pc \in [Invocations -> Phase]
  /\ req \in [Invocations -> [id : Ids, resume : BOOLEAN, backend : Backends]]
  /\ tool \in [Invocations -> [status : ToolStatus \cup {"unknown"},
                               completeness : Completeness, quality : Quality]]
  /\ draft \in [Invocations -> Manifests]
  /\ disk \in Disks
  /\ manifest \in Manifests
  /\ tmp \in Manifests
  /\ orphans \subseteq Invocations
  /\ answer \in [Invocations -> Contracts \cup {NoFile}]

-----------------------------------------------------------------------------
(* Safety.                                                                 *)

(* A manifest that says "complete" is never a lie: every artifact --resume *)
(* needs is there with its recorded hash, and the whole directory descends *)
(* from one identity and from one workspace that passed load_relations,    *)
(* build_contract_ir and validate_structure (decompile.py:286-426).        *)
CompleteIsWhole ==
  manifest.status = "complete" =>
    /\ Resumable(manifest.id)
    /\ \A f \in Artifacts : disk[f] = manifest.index[f] /\ disk[f].kind = "whole"
    /\ \A f \in Artifacts : disk[f].id = manifest.id
    /\ disk["facts"].quality \in {"thin", "sound"}
    /\ \A f \in DOMAIN AfterWrite : disk[f].quality = disk["facts"].quality

(* Whatever the order of calls, deaths and resumes, a caller gets the      *)
(* contract of the identity it asked for, and all callers of a directory   *)
(* get the one its manifest indexes (_resume_result, decompile.py:247-250).*)
AnswerIsMine ==
  \A p \in Invocations :
    answer[p] # NoFile =>
      /\ answer[p].id = req[p].id
      /\ manifest.status = "complete"
      /\ answer[p] = manifest.index["contract"]

(* The container a timed-out or killed docker client leaves behind writes  *)
(* into gigahorse/ at any later moment; no directory it can still reach is *)
(* ever published as complete (docker.py:78, decompile.py:300-304).        *)
NoOrphanBehindComplete == manifest.status = "complete" => orphans = {}

(* The deterministic layer is immutable: once run.json says "complete", no *)
(* decompile changes a file of the directory (decompile.py:251-258).       *)
CompleteFrozen ==
  [][manifest.status = "complete" => UNCHANGED <<disk, manifest, tmp>>]_vars

(* Calls may race, yet only those that saw the directory empty can harm    *)
(* it: once they have ended, and with them the containers they left, a     *)
(* complete directory stays as it is, whatever calls come later (the       *)
(* emptiness check, decompile.py:251-258).                                 *)
Settled ==
  /\ manifest.status = "complete"
  /\ \A p \in Invocations : pc[p] \notin Working \cup Putting
  /\ orphans = {}

SettledFrozen ==
  [][ Settled => Settled' /\ UNCHANGED <<disk, manifest, tmp>> ]_vars

-----------------------------------------------------------------------------
(* Liveness, under FairSpec.                                               *)

(* Every call ends: none waits for another, whatever it finds on disk.     *)
EveryCallEnds == \A p \in Invocations : Live(p) ~> pc[p] \in Ended

(* A run whose workspace is sound, and whose process survives, is          *)
(* published: nothing after load_relations can refuse it.                  *)
SoundRunReturns ==
  \A p \in Invocations :
    pc[p] = "build" /\ tool[p].quality = "sound" ~> pc[p] \in {"returned", "crashed"}

-----------------------------------------------------------------------------
(* Refinement: one directory is a RunStore.                                *)

Slot ==
  IF manifest.status = "complete"
    THEN [state |-> "sealed", result |-> manifest.index["contract"]]
  ELSE IF DirEmpty THEN [state |-> "empty"]
  ELSE IF \E p \in Invocations : pc[p] \in Working \cup Putting
    THEN [state |-> "claimed"]
  ELSE [state |-> "spoiled"]

Store == INSTANCE RunStore WITH
  Callers <- Invocations, Results <- Contracts, NoResult <- NoFile,
  slot <- Slot, answer <- answer

(* Calls that claim atomically see a directory that is claimed once and    *)
(* then sealed with one result or spoiled for good.                        *)
RunStoreSpec == Store!StoreSpec

=============================================================================
