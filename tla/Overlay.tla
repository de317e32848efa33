------------------------------ MODULE Overlay ------------------------------
(***************************************************************************)
(* The commands that write into a COMPLETE run directory: `agent apply`,   *)
(* `agent render` (also reached as `render --annotated`) and `render`, at  *)
(* the granularity of their file operations (agent/validation.py,          *)
(* agent/artifacts.py, cli.py:138-169).  Several calls may be made, one    *)
(* after the other or at the same time; any may die between two steps or   *)
(* in the middle of a write; somebody may replace annotations.json by      *)
(* hand.                                                                   *)
(*                                                                         *)
(* Of the deterministic layer only output/decompiled.sol is ever written   *)
(* here, so its content decides whether validate_manifest accepts the run. *)
(* A proposal is a model value and stands for its JSON text; SHA-256 is    *)
(* taken as injective.  Writing a temporary file (open, write, close) is   *)
(* one step, except when the process dies in it.                           *)
(***************************************************************************)
EXTENDS Naturals, FiniteSets

CONSTANTS
  Calls,        \* calls of the three commands
  Proposals,    \* proposal files
  Grounded,     \* those validate_proposal accepts for this run
  Releases,     \* releases of the program that `render` may be run with
  HomeRelease,  \* the release that made the run
  MaxEdits,     \* bound on the hand edits of annotations.json
  ApplyAlone    \* TRUE: agent/ has one writer (an apply, a hand edit) or any
                \* number of readers (agent render) at a time

ASSUME GroundedAssumption == Grounded \subseteq Proposals
ASSUME ReleasesAssumption == HomeRelease \in Releases
ASSUME BoundsAssumption == MaxEdits \in Nat /\ ApplyAlone \in BOOLEAN

VARIABLES
  pc,         \* pc[c]: what call c does next
  req,        \* req[c]: its command and what it was given
  file,       \* file[c]: the JSON file `apply` is putting in place
  binds,      \* binds[c]: bytes whose hash c took, or read from the manifest
  loaded,     \* loaded[c]: the proposal `agent render` has parsed
  canonical,  \* output/decompiled.sol
  agent,      \* the files of agent/
  tmps,       \* their temporary names, shared by all calls
  edits       \* hand edits so far

vars == <<pc, req, file, binds, loaded, canonical, agent, tmps, edits>>

-----------------------------------------------------------------------------
(* The content of files.                                                   *)

NoFile     == [kind |-> "absent"]
Truncated  == [kind |-> "truncated"]   \* opened for writing, nothing written
Mixed      == [kind |-> "mixed"]       \* bytes of two writers
Text(a)    == [kind |-> "text", of |-> a]
Binding(b) == [kind |-> "manifest", sha |-> b]

JsonFiles  == {"proposal", "annotations", "manifest"}
AgentFiles == JsonFiles \cup {"sol", "report"}

(* validate_manifest: decompiled.sol has the hash that run.json records.   *)
RunValid == canonical = Text(HomeRelease)

(* What a write leaves behind: the writer truncated the file when it       *)
(* opened it; bytes written since then by somebody else may show through.  *)
Filled(old, new) == IF old \in {Truncated, new} THEN {new} ELSE {new, Mixed}

Requests ==
  [op : {"apply"}, proposal : Proposals]
    \cup [op : {"agent_render"}]
    \cup [op : {"render"}, release : Releases]

Reading  == {"check", "read_manifest", "read_annotations", "compare", "revalidate"}
Writing  == {"stage", "publish", "hash", "open_sol", "fill_sol", "recheck",
             "open_report", "fill_report", "open_canonical", "fill_canonical",
             "reply"}
Ended    == {"returned", "raised", "crashed"}

Live(c) == pc[c] \in Reading \cup Writing

Init ==
  /\ pc = [c \in Calls |-> "idle"]
  /\ req \in [Calls -> Requests]
  /\ file = [c \in Calls |-> "proposal"]
  /\ binds = [c \in Calls |-> NoFile]
  /\ loaded = [c \in Calls |-> NoFile]
  /\ canonical = Text(HomeRelease)
  /\ agent = [f \in AgentFiles |-> NoFile]
  /\ tmps = [f \in JsonFiles |-> NoFile]
  /\ edits = 0

Goto(c, phase) == pc' = [pc EXCEPT ![c] = phase]
Raise(c) == Goto(c, "raised")

-----------------------------------------------------------------------------
(* Live calls that write agent/ or read it before they write; `render`     *)
(* only rewrites decompiled.sol.                                           *)
AgentCalls == {d \in Calls : Live(d) /\ req[d].op # "render"}
Applies    == {d \in Calls : Live(d) /\ req[d].op = "apply"}

Start(c) ==
  /\ pc[c] = "idle"
  /\ ApplyAlone => /\ req[c].op = "apply" => AgentCalls = {}
                   /\ req[c].op = "agent_render" => Applies = {}
  /\ Goto(c, "check")
  /\ UNCHANGED <<req, file, binds, loaded, canonical, agent, tmps, edits>>

(* Mutant: only the proposal is looked at, not the run it is made for.     *)
AcceptableText(c) == req[c].op = "apply" => req[c].proposal \in Grounded

(* Every command validates the run first; apply also the proposal.         *)
Acceptable(c) ==
  /\ RunValid
  /\ req[c].op = "apply" => req[c].proposal \in Grounded

FirstStep == [apply |-> "stage", render |-> "open_canonical"]

Check(c) ==
  /\ pc[c] = "check"
  /\ IF ~Acceptable(c) THEN Raise(c)
     ELSE IF req[c].op = "agent_render" THEN Goto(c, "read_manifest")
     ELSE Goto(c, FirstStep[req[c].op])
  /\ UNCHANGED <<req, file, binds, loaded, canonical, agent, tmps, edits>>

(* Mutant: the manifest binds the proposal file, not its hash.             *)
ContentUnbound(c) == Text(req[c].proposal)

(* apply_proposal: _write_json of proposal.json, annotations.json and      *)
(* manifest.json, each through its one temporary name.                     *)
Content(c) ==
  IF file[c] = "manifest" THEN Binding(binds[c]) ELSE Text(req[c].proposal)

(* Mutant: the temporary file is created exclusively.                      *)
StageExclusive(c) ==
  /\ pc[c] = "stage"
  /\ IF tmps[file[c]] = NoFile
     THEN /\ tmps' = [tmps EXCEPT ![file[c]] = Content(c)]
          /\ Goto(c, "publish")
     ELSE Raise(c) /\ UNCHANGED tmps
  /\ UNCHANGED <<req, file, binds, loaded, canonical, agent, edits>>

Stage(c) ==
  /\ pc[c] = "stage"
  /\ tmps' = [tmps EXCEPT ![file[c]] = Content(c)]
  /\ Goto(c, "publish")
  /\ UNCHANGED <<req, file, binds, loaded, canonical, agent, edits>>

Publish(c) ==
  /\ pc[c] = "publish"
  /\ tmps[file[c]] # NoFile
  /\ agent' = [agent EXCEPT ![file[c]] = tmps[file[c]]]
  /\ tmps' = [tmps EXCEPT ![file[c]] = NoFile]
  /\ \/ /\ file[c] = "proposal"
        /\ file' = [file EXCEPT ![c] = "annotations"]
        /\ Goto(c, "stage")
     \/ /\ file[c] = "annotations"
        /\ Goto(c, "hash")
        /\ UNCHANGED file
     \/ /\ file[c] = "manifest"
        /\ Goto(c, "reply")
        /\ UNCHANGED file
  /\ UNCHANGED <<req, binds, loaded, canonical, edits>>

(* Another call has renamed the shared temporary file away.                *)
PublishLost(c) ==
  /\ pc[c] = "publish"
  /\ tmps[file[c]] = NoFile
  /\ Raise(c)
  /\ UNCHANGED <<req, file, binds, loaded, canonical, agent, tmps, edits>>

(* artifact_hash(annotations.json): the file is read back.                 *)
Hash(c) ==
  /\ pc[c] = "hash"
  /\ binds' = [binds EXCEPT ![c] = agent["annotations"]]
  /\ file' = [file EXCEPT ![c] = "manifest"]
  /\ Goto(c, "stage")
  /\ UNCHANGED <<req, loaded, canonical, agent, tmps, edits>>

Reply(c) ==
  /\ pc[c] = "reply"
  /\ Goto(c, "returned")
  /\ UNCHANGED <<req, file, binds, loaded, canonical, agent, tmps, edits>>

-----------------------------------------------------------------------------
(* load_applied, then render_agent.                                        *)

ReadManifest(c) ==
  /\ pc[c] = "read_manifest"
  /\ IF agent["manifest"].kind = "manifest" /\ agent["annotations"] # NoFile
     THEN /\ binds' = [binds EXCEPT ![c] = agent["manifest"].sha]
          /\ Goto(c, "read_annotations")
     ELSE Raise(c) /\ UNCHANGED binds
  /\ UNCHANGED <<req, file, loaded, canonical, agent, tmps, edits>>

ReadAnnotations(c) ==
  /\ pc[c] = "read_annotations"
  /\ IF agent["annotations"].kind = "text"
     THEN /\ loaded' = [loaded EXCEPT ![c] = agent["annotations"]]
          /\ Goto(c, "compare")
     ELSE Raise(c) /\ UNCHANGED loaded
  /\ UNCHANGED <<req, file, binds, canonical, agent, tmps, edits>>

(* Mutant: the annotations' hash is not compared.                          *)
CompareNothing(c) ==
  /\ pc[c] = "compare"
  /\ Goto(c, "revalidate")
  /\ UNCHANGED <<req, file, binds, loaded, canonical, agent, tmps, edits>>

(* The hash is taken of the file as it is now.                             *)
Compare(c) ==
  /\ pc[c] = "compare"
  /\ IF agent["annotations"] = binds[c] THEN Goto(c, "revalidate") ELSE Raise(c)
  /\ UNCHANGED <<req, file, binds, loaded, canonical, agent, tmps, edits>>

(* Mutant: the file's hash is trusted and what was loaded not validated.   *)
RevalidateRunOnly(c) ==
  /\ pc[c] = "revalidate"
  /\ IF RunValid THEN Goto(c, "open_sol") ELSE Raise(c)
  /\ UNCHANGED <<req, file, binds, loaded, canonical, agent, tmps, edits>>

(* validate_proposal of what was loaded.                                   *)
Revalidate(c) ==
  /\ pc[c] = "revalidate"
  /\ IF RunValid /\ loaded[c].of \in Grounded THEN Goto(c, "open_sol") ELSE Raise(c)
  /\ UNCHANGED <<req, file, binds, loaded, canonical, agent, tmps, edits>>

Open(c, f, next) ==
  /\ agent' = [agent EXCEPT ![f] = Truncated]
  /\ Goto(c, next)
  /\ UNCHANGED <<req, file, binds, loaded, canonical, tmps, edits>>

Fill(c, f, next) ==
  /\ \E bytes \in Filled(agent[f], loaded[c]) : agent' = [agent EXCEPT ![f] = bytes]
  /\ Goto(c, next)
  /\ UNCHANGED <<req, file, binds, loaded, canonical, tmps, edits>>

OpenSol(c)    == pc[c] = "open_sol" /\ Open(c, "sol", "fill_sol")
FillSol(c)    == pc[c] = "fill_sol" /\ Fill(c, "sol", "recheck")
OpenReport(c) == pc[c] = "open_report" /\ Open(c, "report", "fill_report")
FillReport(c) == pc[c] = "fill_report" /\ Fill(c, "report", "reply")

(* The run is validated once more, for its manifest, between the two files.*)
Recheck(c) ==
  /\ pc[c] = "recheck"
  /\ IF RunValid THEN Goto(c, "open_report") ELSE Raise(c)
  /\ UNCHANGED <<req, file, binds, loaded, canonical, agent, tmps, edits>>

-----------------------------------------------------------------------------
(* render: decompiled.sol is rewritten in place.                           *)

OpenCanonical(c) ==
  /\ pc[c] = "open_canonical"
  /\ canonical' = Truncated
  /\ Goto(c, "fill_canonical")
  /\ UNCHANGED <<req, file, binds, loaded, agent, tmps, edits>>

FillCanonical(c) ==
  /\ pc[c] = "fill_canonical"
  /\ canonical' \in Filled(canonical, Text(req[c].release))
  /\ Goto(c, "reply")
  /\ UNCHANGED <<req, file, binds, loaded, agent, tmps, edits>>

-----------------------------------------------------------------------------
Step(c) ==
  \/ Check(c) \/ Reply(c)
  \/ Stage(c) \/ Publish(c) \/ PublishLost(c) \/ Hash(c)
  \/ ReadManifest(c) \/ ReadAnnotations(c) \/ Compare(c) \/ Revalidate(c)
  \/ OpenSol(c) \/ FillSol(c) \/ Recheck(c) \/ OpenReport(c) \/ FillReport(c)
  \/ OpenCanonical(c) \/ FillCanonical(c)

(* The process dies; a temporary file it was writing may be cut short.     *)
Crash(c) ==
  /\ Live(c)
  /\ Goto(c, "crashed")
  /\ \/ UNCHANGED tmps
     \/ pc[c] = "stage" /\ tmps' = [tmps EXCEPT ![file[c]] = Truncated]
  /\ UNCHANGED <<req, file, binds, loaded, canonical, agent, edits>>

(* Somebody puts another proposal in the place of annotations.json.        *)
Edit(a) ==
  /\ edits < MaxEdits
  /\ ApplyAlone => AgentCalls = {}
  /\ agent["annotations"] # NoFile
  /\ agent' = [agent EXCEPT !["annotations"] = Text(a)]
  /\ edits' = edits + 1
  /\ UNCHANGED <<pc, req, file, binds, loaded, canonical, tmps>>

AllEnded ==
  /\ \A c \in Calls : pc[c] \in Ended
  /\ UNCHANGED vars

Next ==
  \/ \E c \in Calls : Start(c) \/ Step(c) \/ Crash(c)
  \/ \E a \in Proposals : Edit(a)
  \/ AllEnded

Spec == Init /\ [][Next]_vars

(* A process that is alive is scheduled; nobody owes a call or a crash.    *)
FairSpec == Spec /\ \A c \in Calls : WF_vars(Step(c))

-----------------------------------------------------------------------------
(* The type invariant.                                                     *)

Texts     == {Text(a) : a \in Proposals}
JsonBytes == {NoFile, Truncated} \cup Texts
Rendered  == {NoFile, Truncated, Mixed} \cup Texts
Manifests == {NoFile, Truncated} \cup {Binding(b) : b \in JsonBytes}

TypeOK ==
  /\ pc \in [Calls -> {"idle"} \cup Reading \cup Writing \cup Ended]
  /\ req \in [Calls -> Requests]
  /\ file \in [Calls -> JsonFiles]
  /\ binds \in [Calls -> JsonBytes]
  /\ loaded \in [Calls -> {NoFile} \cup Texts]
  /\ canonical \in {Truncated, Mixed} \cup {Text(r) : r \in Releases}
  /\ agent \in [AgentFiles -> Rendered \cup Manifests]
  /\ \A f \in {"proposal", "annotations"} : agent[f] \in JsonBytes
  /\ agent["manifest"] \in Manifests
  /\ \A f \in {"sol", "report"} : agent[f] \in Rendered
  /\ tmps \in [JsonFiles -> JsonBytes \cup Manifests]
  /\ \A f \in {"proposal", "annotations"} : tmps[f] \in JsonBytes
  /\ tmps["manifest"] \in Manifests
  /\ edits \in 0..MaxEdits

-----------------------------------------------------------------------------
(* Safety.                                                                 *)

(* Whatever calls overlap or die, and whatever is put into annotations.json*)
(* between two reads of it, agent render never writes out a proposal that  *)
(* validate_proposal refuses: load_applied validates the very value it has *)
(* parsed, not the file it has hashed (agent/artifacts.py:26-37).          *)
RenderedIsGrounded ==
  \A f \in {"sol", "report"} : agent[f].kind = "text" => agent[f].of \in Grounded

(* A run whose decompiled.sol is not the recorded one is dead: once nobody *)
(* is half way through a command, it stays dead, and no later command of   *)
(* this layer gets as far as to write a byte, so none can spread the       *)
(* damage (and none can repair it).                                        *)
Dead == ~RunValid /\ \A c \in Calls : pc[c] \notin Writing

DeadRunIsInert ==
  [][ Dead => /\ Dead'
              /\ UNCHANGED <<canonical, tmps>>
              /\ UNCHANGED agent \/ edits' # edits ]_vars

(* annotations.json holds proposal a and manifest.json its hash.           *)
Bound(a) ==
  /\ agent["annotations"] = Text(a)
  /\ agent["manifest"] = Binding(Text(a))

(* Once every call has ended, none of them by dying and nothing edited,    *)
(* and some apply has reported success, the agent manifest binds the       *)
(* annotations that are there.                                             *)
QuietIsBound ==
  /\ \A c \in Calls : pc[c] \in {"idle", "returned", "raised"}
  /\ \E c \in Calls : req[c].op = "apply" /\ pc[c] = "returned"
  /\ edits = 0
  => \E a \in Grounded : Bound(a)

-----------------------------------------------------------------------------
(* Liveness, under FairSpec.                                               *)

(* A proposal that was accepted is applied unless its process dies:        *)
(* nothing a dead call left in agent/, temporary files included, and no    *)
(* render going on meanwhile stands in the way.                            *)
SoundApplyReturns ==
  \A c \in Calls : pc[c] = "stage" ~> pc[c] \in {"returned", "crashed"}

-----------------------------------------------------------------------------
(* Refinement: the agent layer is an OverlayStore.                         *)

Told(c) ==
  IF pc[c] # "returned" \/ req[c].op = "render" THEN NoFile
  ELSE IF req[c].op = "apply" THEN req[c].proposal ELSE loaded[c].of

Store == INSTANCE OverlayStore WITH
  Callers <- Calls, Proposals <- Grounded, NoAnswer <- NoFile,
  bound <- {a \in Proposals : Bound(a)}, told <- [c \in Calls |-> Told(c)]

(* Commands of which no apply overlaps another agent command, some of them *)
(* dying, bind at most one grounded proposal, and report success for the   *)
(* bound one only; a state in between, or an edited file, is bound to      *)
(* nothing.                                                                *)
OverlayStoreSpec == Store!StoreSpec

=============================================================================
