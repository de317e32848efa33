--------------------------- MODULE PipelineProofs ---------------------------
(***************************************************************************)
(* Proofs about Pipeline, for any sets of invocations and identities and   *)
(* any choice of backends.                                                 *)
(***************************************************************************)
EXTENDS Pipeline, TLAPS

(* TypeOK is not inductive alone: the status written to results.json is    *)
(* the one the runner has returned.                                        *)
TypeInv ==
  /\ TypeOK
  /\ \A p \in Invocations : pc[p] = "results" => tool[p].status \in ToolStatus

-----------------------------------------------------------------------------
(* The inductive invariant of calls that claim the directory atomically:   *)
(* one of them at most is past the emptiness check, however many look on.  *)

AtWork(p) == pc[p] \in Working \cup Putting

OneWriter == \A p, q \in Invocations : AtWork(p) /\ AtWork(q) => p = q

(* The artifacts an invocation has behind it, by the phase it is in.       *)
Checked == {"input", "results", "facts"}
Behind ==
  [input     |-> {},
   tool      |-> {"input"},
   results   |-> {"input"},
   relations |-> {"input", "results"},
   build     |-> Checked,
   contract  |-> Checked,
   sol       |-> Checked \cup {"contract"},
   abi       |-> Checked \cup {"contract", "sol"},
   storage   |-> Checked \cup {"contract", "sol", "abi"},
   evidence  |-> Checked \cup {"contract", "sol", "abi", "storage"},
   structure |-> Checked \cup {"contract", "sol", "abi", "storage", "evidence"},
   report    |-> Checked \cup {"contract", "sol", "abi", "storage", "evidence"},
   logs      |-> Checked \cup {"contract", "sol", "abi", "storage", "evidence", "report"},
   index     |-> Artifacts]

(* Artifact f is what a run of identity i with facts of quality q writes.  *)
Good(f, i, q) ==
  /\ disk[f].kind = "whole"
  /\ disk[f].id = i
  /\ f = "results" => disk[f].status \in {"ok", "partial"}
  /\ f = "facts" => disk[f].quality = q
  /\ f \in DOMAIN AfterWrite => disk[f] = Derived(i, q)

Whole(i) ==
  \E q \in {"thin", "sound"} : \A f \in Artifacts : Good(f, i, q)

(* Quality an invocation can still have, having passed the validations.    *)
Passed ==
  LET built == Quality \ {"malformed", "inconsistent"}
  IN  [input |-> Quality, tool |-> Quality, results |-> Quality,
       relations |-> Quality, build |-> Quality \ {"malformed"},
       contract |-> built, sol |-> built, abi |-> built, storage |-> built,
       evidence |-> built, structure |-> built,
       report |-> {"thin", "sound"}, logs |-> {"thin", "sound"},
       index |-> {"thin", "sound"}]

(* Unless its container was abandoned, the facts are the call's own.       *)
OwnFacts(p) ==
  /\ ~(pc[p] = "results" /\ tool[p].status = "timeout")
  /\ disk["facts"].kind = "whole"
  => disk["facts"].id = req[p].id

WorkInv ==
  \A p \in Invocations : pc[p] \in Working =>
    /\ manifest = Running(req[p].id)
    /\ tmp = NoManifest
    /\ tool[p].quality \in Passed[pc[p]]
    /\ \A f \in Behind[pc[p]] : Good(f, req[p].id, tool[p].quality)
    /\ OwnFacts(p)

PutInv ==
  \A p \in Invocations : pc[p] \in Putting =>
    /\ draft[p] \in {Running(req[p].id), Failed(req[p].id), Complete(req[p].id, disk)}
    /\ tmp = IF pc[p] = "publish" THEN draft[p] ELSE NoManifest
    /\ draft[p].status = "running" =>
         manifest = NoManifest /\ \A f \in Artifacts : disk[f] = NoFile
    /\ draft[p].status # "running" => manifest = Running(req[p].id)
    /\ draft[p].status = "complete" =>
         /\ \A f \in Artifacts : Good(f, req[p].id, tool[p].quality)
         /\ tool[p].quality \in {"thin", "sound"}

CompleteInv ==
  manifest.status = "complete" =>
    /\ \A p \in Invocations : pc[p] \notin Working \cup Putting
    /\ tmp = NoManifest
    /\ orphans = {}
    /\ manifest.index = disk
    /\ Whole(manifest.id)

(* A container left behind: its directory is doomed or already dead.       *)
OrphanInv ==
  orphans # {} =>
    /\ manifest.status \in {"running", "failed"}
    /\ \A p \in Invocations :
         /\ pc[p] \in Working => pc[p] = "results" /\ tool[p].status = "timeout"
         /\ pc[p] \in Putting => draft[p].status = "failed"

AnswerInv ==
  \A p \in Invocations : answer[p] # NoFile =>
    /\ pc[p] = "returned"
    /\ manifest.status = "complete"
    /\ answer[p].id = req[p].id
    /\ answer[p] = disk["contract"]

IInv ==
  /\ TypeInv
  /\ OneWriter
  /\ WorkInv
  /\ PutInv
  /\ CompleteInv
  /\ OrphanInv
  /\ AnswerInv

-----------------------------------------------------------------------------
(* Types.                                                                  *)

LEMMA DerivedFiles ==
  /\ DOMAIN AfterWrite =
       {"contract", "sol", "abi", "storage", "evidence", "report", "logs"}
  /\ Artifacts = {"input", "facts", "results"} \cup DOMAIN AfterWrite
  /\ \A f \in DOMAIN AfterWrite : AfterWrite[f] \in Working
  BY DEF AfterWrite, Artifacts, Working

(* Writing an artifact with bytes of its own kind keeps the disk typed.    *)
LEMMA WriteType ==
  ASSUME NEW d \in Disks, NEW f, NEW b,
         \/ f = "input"   /\ b \in Stored(InputTypes)
         \/ f = "facts"   /\ b \in Stored(FactTypes)
         \/ f = "results" /\ b \in Stored(ResultTypes)
         \/ f \in DOMAIN AfterWrite /\ b \in Stored(Contracts)
  PROVE  [d EXCEPT ![f] = b] \in Disks
<1>1. f \in Artifacts
  BY DerivedFiles
<1>2. b \in Stored(InputTypes \cup FactTypes \cup ResultTypes \cup Contracts)
  BY DEF Stored
<1>3. \A g \in {"input", "facts", "results"} : g \notin DOMAIN AfterWrite
  BY DerivedFiles
<1>4. QED
  BY <1>1, <1>2, <1>3, DerivedFiles DEF Disks

(* The writes the actions make.                                            *)
LEMMA BytesType ==
  ASSUME NEW d \in Disks, NEW p \in Invocations, NEW i \in Ids, NEW q \in Quality
  PROVE  /\ [d EXCEPT !["input"] = InputBytes(i)] \in Disks
         /\ [d EXCEPT !["facts"] = FactBytes(i, p, q)] \in Disks
         /\ \A st \in ToolStatus \cup {"partial"} :
              [d EXCEPT !["results"] = ResultBytes(i, p, st)] \in Disks
         /\ \A f \in DOMAIN AfterWrite : [d EXCEPT ![f] = Derived(i, q)] \in Disks
         /\ \A f \in Artifacts : [d EXCEPT ![f] = Torn] \in Disks
<1>1. /\ InputBytes(i) \in Stored(InputTypes)
      /\ FactBytes(i, p, q) \in Stored(FactTypes)
      /\ Derived(i, q) \in Stored(Contracts)
      /\ \A st \in ToolStatus \cup {"partial"} :
           ResultBytes(i, p, st) \in Stored(ResultTypes)
  BY DEF InputBytes, FactBytes, ResultBytes, Derived, Stored, InputTypes,
         FactTypes, ResultTypes, Contracts
<1>2. \A types : Torn \in Stored(types)
  BY DEF Stored
<1>3. [d EXCEPT !["input"] = InputBytes(i)] \in Disks
  BY <1>1, WriteType
<1>4. [d EXCEPT !["facts"] = FactBytes(i, p, q)] \in Disks
  BY <1>1, WriteType
<1>5. ASSUME NEW st \in ToolStatus \cup {"partial"}
      PROVE  [d EXCEPT !["results"] = ResultBytes(i, p, st)] \in Disks
  BY <1>1, WriteType
<1>6. ASSUME NEW f \in DOMAIN AfterWrite
      PROVE  [d EXCEPT ![f] = Derived(i, q)] \in Disks
  BY <1>1, WriteType
<1>7. ASSUME NEW f \in Artifacts
      PROVE  [d EXCEPT ![f] = Torn] \in Disks
  BY <1>2, WriteType, DerivedFiles
<1>8. QED
  BY <1>3, <1>4, <1>5, <1>6, <1>7

LEMMA ManifestType ==
  ASSUME NEW i \in Ids
  PROVE  /\ Running(i) \in Manifests
         /\ Failed(i) \in Manifests
         /\ \A d \in Disks : Complete(i, d) \in Manifests
         /\ NoManifest \in Manifests
  BY DEF Running, Failed, Complete, NoManifest, Manifests

LEMMA TypeInit == Init => TypeInv
<1> SUFFICES ASSUME Init PROVE TypeInv
  OBVIOUS
<1>1. disk \in Disks
  BY DerivedFiles DEF Init, Disks, Stored
<1>2. NoManifest \in Manifests
  BY DEF Manifests
<1>3. QED
  BY <1>1, <1>2 DEF Init, TypeInv, TypeOK, Phase, NoTool, ToolReport, Completeness, Quality

(* What most actions leave to prove: the phase and the changed variables.  *)
LEMMA TypeStep == TypeInv /\ [Next]_vars => TypeInv'
<1> SUFFICES ASSUME TypeInv, [Next]_vars
             PROVE  TypeInv'
  OBVIOUS
<1> USE DEF TypeInv, TypeOK, Goto, Phase, Checking, Working, Putting, Ended
<1>1. ASSUME NEW p \in Invocations, Start(p)
      PROVE  TypeInv'
  BY <1>1 DEF Start
<1>2. ASSUME NEW p \in Invocations, ResumeHit(p)
      PROVE  TypeInv'
  <2>1. disk["contract"] \in Contracts
    <3>1. disk["contract"] \in Stored(Contracts)
      BY DerivedFiles DEF Disks
    <3>2. disk["contract"].kind = "whole"
      BY <1>2 DEF ResumeHit, Resumable
    <3>3. QED
      BY <3>1, <3>2 DEF Stored, NoFile, Torn
  <2>2. QED
    BY <1>2, <2>1 DEF ResumeHit
<1>3. ASSUME NEW p \in Invocations, ResumeMiss(p) \/ Refuse(p)
      PROVE  TypeInv'
  BY <1>3 DEF ResumeMiss, Refuse
<1>4. ASSUME NEW p \in Invocations, Begin(p)
      PROVE  TypeInv'
  BY <1>4, ManifestType DEF Begin, Put
<1>5. ASSUME NEW p \in Invocations, Stage(p)
      PROVE  TypeInv'
  BY <1>5 DEF Stage
<1>6. ASSUME NEW p \in Invocations, Publish(p)
      PROVE  TypeInv'
  <2>1. Derived(req[p].id, tool[p].quality) \in Contracts
    BY DEF Derived, Contracts
  <2>2. QED
    BY <1>6, <2>1, ManifestType, ZenonT(40) DEF Publish
<1>7. ASSUME NEW p \in Invocations, PublishLost(p)
      PROVE  TypeInv'
  BY <1>7 DEF PublishLost
<1>8. ASSUME NEW p \in Invocations, WriteInput(p)
      PROVE  TypeInv'
  <2>1. disk' \in Disks
    BY <1>8, BytesType DEF WriteInput, Write
  <2>2. QED
    BY <1>8, <2>1 DEF WriteInput
<1>9. ASSUME NEW p \in Invocations, RunBuiltin(p) \/ RunExternal(p) \/ RunAborted(p)
      PROVE  TypeInv'
  <2>1. disk' \in Disks
    <3>1. \A q \in Quality : [disk EXCEPT !["facts"] = FactBytes(req[p].id, p, q)] \in Disks
      BY BytesType
    <3>2. QED
      BY <1>9, <3>1 DEF RunBuiltin, RunExternal, RunAborted, Write
  <2>2. \E status \in ToolStatus, completeness \in Completeness :
          ToolReturns(p, status, completeness)
    BY <1>9 DEF RunBuiltin, RunExternal, RunAborted, ToolStatus, Completeness
  <2>3. orphans' \subseteq Invocations
    BY <1>9 DEF RunBuiltin, RunExternal, RunAborted
  <2>4. PICK status \in ToolStatus, completeness \in Completeness :
               ToolReturns(p, status, completeness)
    BY <2>2
  <2>5. QED
    BY <2>1, <2>3, <2>4 DEF ToolReturns, ToolReport
<1>10. ASSUME NEW p \in Invocations, RunRaises(p)
       PROVE  TypeInv'
  BY <1>10, ManifestType DEF RunRaises, Fail, Put
<1>11. ASSUME NEW p \in Invocations, WriteResults(p)
       PROVE  TypeInv'
  <2>1. EffectiveStatus(tool[p]) \in ToolStatus \cup {"partial"}
    BY <1>11 DEF WriteResults, EffectiveStatus
  <2>2. disk' \in Disks
    BY <1>11, <2>1, BytesType DEF WriteResults, Write
  <2>3. QED
    BY <1>11, <2>2, ManifestType DEF WriteResults, Fail, Put
<1>12. ASSUME NEW p \in Invocations, LoadRelations(p)
       PROVE  TypeInv'
  <2>1. disk["facts"].kind = "whole" => disk["facts"].quality \in Quality
    BY DEF Disks, Stored, NoFile, Torn, FactTypes
  <2>2. CASE disk["facts"].kind = "whole" /\ disk["facts"].quality # "malformed"
    <3> DEFINE report == ToolReport(tool[p].status, tool[p].completeness,
                                    disk["facts"].quality)
    <3>1. report \in [status : ToolStatus \cup {"unknown"},
                     completeness : Completeness, quality : Quality]
      BY <2>1, <2>2 DEF ToolReport
    <3>2. /\ tool' = [tool EXCEPT ![p] = report]
          /\ pc' = [pc EXCEPT ![p] = "build"]
          /\ UNCHANGED <<req, draft, disk, manifest, tmp, orphans, answer>>
      BY <1>12, <2>2 DEF LoadRelations
    <3> HIDE DEF report
    <3>3. QED
      BY <3>1, <3>2
  <2>3. CASE ~(disk["facts"].kind = "whole" /\ disk["facts"].quality # "malformed")
    <3>1. Fail(p) /\ UNCHANGED tool
      BY <1>12, <2>3 DEF LoadRelations
    <3>2. UNCHANGED <<req, disk, manifest, tmp, orphans, answer>>
      BY <1>12 DEF LoadRelations
    <3>3. QED
      BY <3>1, <3>2, ManifestType DEF Fail, Put
  <2>4. QED
    BY <2>2, <2>3
<1>13. ASSUME NEW p \in Invocations, BuildIR(p) \/ ValidateStructure(p)
       PROVE  TypeInv'
  BY <1>13, ManifestType, SMTT(30) DEF BuildIR, ValidateStructure, Fail, Put
<1>14. ASSUME NEW p \in Invocations, WriteDerived(p)
       PROVE  TypeInv'
  <2>2. disk' \in Disks
    BY <1>14, BytesType DEF WriteDerived, Write
  <2>3. AfterWrite[pc[p]] \in Phase
    BY <1>14, DerivedFiles DEF WriteDerived
  <2>4. pc' \in [Invocations -> Phase]
    BY <1>14, <2>3 DEF WriteDerived
  <2>5. \A q \in Invocations : pc'[q] = "results" => pc[q] = "results"
    BY <1>14 DEF WriteDerived, AfterWrite
  <2>6. QED
    BY <1>14, <2>2, <2>4, <2>5 DEF WriteDerived
<1>15. ASSUME NEW p \in Invocations, BuildIndex(p)
       PROVE  TypeInv'
  BY <1>15, ManifestType DEF BuildIndex, Put
<1>16. ASSUME NEW p \in Invocations, Crash(p)
       PROVE  TypeInv'
  <2>1. disk' \in Disks
    <3>1. ASSUME NEW f \in InPlace(pc[p]), Write(f, Torn)
          PROVE  disk' \in Disks
      <4>1. f \in Artifacts
        BY DEF InPlace, Artifacts
      <4>2. QED
        BY <3>1, <4>1, BytesType DEF Write, Quality
    <3>2. QED
      BY <1>16, <3>1 DEF Crash
  <2>2. QED
    BY <1>16, <2>1 DEF Crash
<1>17. ASSUME NEW p \in Invocations, ContainerWrites(p)
       PROVE  TypeInv'
  <2>1. disk' \in Disks
    <3>1. /\ \A q \in Quality : [disk EXCEPT !["facts"] = FactBytes(req[p].id, p, q)] \in Disks
          /\ [disk EXCEPT !["results"] = ResultBytes(req[p].id, p, "ok")] \in Disks
      BY BytesType DEF ToolStatus, Quality
    <3>2. QED
      BY <1>17, <3>1 DEF ContainerWrites, Write
  <2>2. QED
    BY <1>17, <2>1 DEF ContainerWrites
<1>18. ASSUME NEW p \in Invocations, ContainerExits(p)
       PROVE  TypeInv'
  BY <1>18 DEF ContainerExits
<1>19. CASE AllEnded \/ UNCHANGED vars
  BY <1>19 DEF AllEnded, vars
<1>20. QED
  BY <1>1, <1>2, <1>3, <1>4, <1>5, <1>6, <1>7, <1>8, <1>9, <1>10, <1>11, <1>12,
     <1>13, <1>14, <1>15, <1>16, <1>17, <1>18, <1>19 DEF Next, Step

(* Every variable keeps its type in every run of any number of overlapping *)
(* calls.                                                                  *)
THEOREM TypeCorrect == Spec => []TypeOK
<1>1. TypeInv => TypeOK
  BY DEF TypeInv
<1>2. QED
  BY TypeInit, TypeStep, <1>1, PTL DEF Spec

-----------------------------------------------------------------------------
(* Calls that claim atomically.                                            *)

LEMMA IInvInit == Init => IInv
  BY TypeInit DEF Init, IInv, OneWriter, AtWork, WorkInv, PutInv, CompleteInv,
     OrphanInv, AnswerInv, Checking, Working, Putting, NoManifest

(* While one call is at work, no other is.                                 *)
LEMMA OthersQuiet ==
  ASSUME OneWriter, NEW p \in Invocations, AtWork(p)
  PROVE  \A q \in Invocations \ {p} : pc[q] \notin Working \cup Putting
  BY DEF OneWriter, AtWork

(* At most one call is at work after a step of p, if none but p was before.*)
LEMMA OneWriterStep ==
  ASSUME TypeInv, NEW p \in Invocations,
         \A q \in Invocations \ {p} : pc[q] \notin Working \cup Putting,
         \A q \in Invocations \ {p} : pc'[q] = pc[q]
  PROVE  OneWriter'
  BY DEF OneWriter, AtWork

(* A call that only looks at the directory, starts, gives up or dies       *)
(* before it has claimed anything disturbs nobody who is at work.          *)
LEMMA BystanderStep ==
  ASSUME IInv, TypeInv', NEW p \in Invocations,
         pc[p] \notin Working \cup Putting, pc'[p] \notin Working \cup Putting,
         \A q \in Invocations \ {p} : pc'[q] = pc[q],
         UNCHANGED <<req, tool, draft, disk, manifest, tmp, orphans>>
  PROVE  OneWriter' /\ WorkInv' /\ PutInv' /\ CompleteInv' /\ OrphanInv'
<1> USE DEF IInv
<1>1. \A q \in Invocations :
        pc'[q] \in Working \cup Putting => pc'[q] = pc[q]
  OBVIOUS
<1>2. OneWriter'
  BY <1>1 DEF OneWriter, AtWork
<1>3. WorkInv'
  BY <1>1 DEF WorkInv, OwnFacts, Good
<1>4. PutInv'
  BY <1>1 DEF PutInv, Good
<1>5. CompleteInv'
  BY <1>1 DEF CompleteInv, Whole, Good
<1>6. OrphanInv'
  BY <1>1 DEF OrphanInv
<1>7. QED
  BY <1>2, <1>3, <1>4, <1>5, <1>6

LEMMA QuietStep ==
  ASSUME IInv, TypeInv', NEW p \in Invocations,
         Start(p) \/ ResumeHit(p) \/ ResumeMiss(p) \/ Refuse(p)
  PROVE  IInv'
<1> USE DEF IInv
<1>1. /\ \A q \in Invocations \ {p} : pc'[q] = pc[q]
      /\ pc[p] \in {"idle"} \cup Checking
      /\ pc'[p] \in {"returned", "refused"} \cup Checking
      /\ UNCHANGED <<req, tool, draft, disk, manifest, tmp, orphans>>
  BY DEF Start, ResumeHit, ResumeMiss, Refuse, Goto, TypeInv, TypeOK, Checking
<1>2. OneWriter' /\ WorkInv' /\ PutInv' /\ CompleteInv' /\ OrphanInv'
  <2>1. pc[p] \notin Working \cup Putting /\ pc'[p] \notin Working \cup Putting
    BY <1>1 DEF Checking, Working, Putting
  <2>2. QED
    BY <1>1, <2>1, BystanderStep
<1>3. AnswerInv'
  <2>1. ASSUME NEW q \in Invocations, q # p
        PROVE  pc'[q] = pc[q] /\ answer'[q] = answer[q]
    BY <1>1, <2>1 DEF Start, ResumeHit, ResumeMiss, Refuse, TypeInv, TypeOK
  <2>2. answer[p] = NoFile
    BY <1>1 DEF AnswerInv, Checking
  <2>3. CASE ResumeHit(p)
    <3>1. /\ manifest.status = "complete"
          /\ manifest.id = req[p].id
          /\ answer'[p] = disk["contract"]
          /\ pc'[p] = "returned"
      BY <2>3 DEF ResumeHit, Resumable, ValidManifest, Goto, TypeInv, TypeOK
    <3>2. disk["contract"].id = manifest.id
      BY <3>1 DEF CompleteInv, Whole, Good, Artifacts
    <3>3. QED
      BY <1>1, <2>1, <3>1, <3>2 DEF AnswerInv
  <2>4. CASE Start(p) \/ ResumeMiss(p) \/ Refuse(p)
    <3>1. answer' = answer
      BY <2>4 DEF Start, ResumeMiss, Refuse
    <3>2. QED
      BY <1>1, <2>1, <2>2, <3>1 DEF AnswerInv
  <2>5. QED
    BY <2>3, <2>4
<1>4. QED
  BY <1>2, <1>3

(* While a call is at work nothing has been answered.                      *)
LEMMA NotComplete ==
  ASSUME IInv, NEW p \in Invocations, pc[p] \in Working
  PROVE  /\ AtWork(p)
         /\ manifest = Running(req[p].id)
         /\ manifest.status # "complete"
         /\ \A q \in Invocations : answer[q] = NoFile
  BY DEF IInv, AtWork, WorkInv, AnswerInv, Running

(* A call at work that fails goes to publish the failed manifest.          *)
LEMMA FailStep ==
  ASSUME IInv, TypeInv', NEW p \in Invocations, pc[p] \in Working, Fail(p),
         UNCHANGED <<req, manifest, tmp, orphans, answer>>
  PROVE  IInv'
<1> USE DEF IInv
<1>1. \A q \in Invocations \ {p} : pc[q] \notin Working \cup Putting
  BY NotComplete, OthersQuiet
<1>2. /\ \A q \in Invocations \ {p} : pc'[q] = pc[q]
      /\ pc'[p] = "stage"
      /\ draft'[p] = Failed(req[p].id)
  BY DEF Fail, Put, Goto, TypeInv, TypeOK
<1>3. OneWriter'
  BY <1>1, <1>2, OneWriterStep
<1>4. WorkInv'
  BY <1>1, <1>2 DEF WorkInv, Working
<1>5. PutInv'
  <2>1. tmp' = NoManifest /\ manifest' = Running(req'[p].id)
    BY DEF WorkInv
  <2>2. QED
    BY <1>1, <1>2, <2>1 DEF PutInv, Failed, Putting
<1>6. CompleteInv' /\ AnswerInv'
  BY NotComplete DEF CompleteInv, AnswerInv
<1>7. OrphanInv'
  BY <1>1, <1>2, NotComplete DEF OrphanInv, Failed, Running, Working, Putting
<1>8. QED
  BY <1>3, <1>4, <1>5, <1>6, <1>7

(* A call at work that stays at work.                                      *)
LEMMA AdvanceStep ==
  ASSUME IInv, TypeInv', NEW p \in Invocations, NEW next \in Working,
         pc[p] \in Working, Goto(p, next),
         UNCHANGED <<req, draft, manifest, tmp, answer>>,
         tool'[p].quality \in Passed[next],
         \A f \in Behind[next] : Good(f, req[p].id, tool[p].quality)',
         orphans' # {} => next = "results" /\ tool'[p].status = "timeout",
         OwnFacts(p)'
  PROVE  IInv'
<1> USE DEF IInv
<1>1. \A q \in Invocations \ {p} : pc[q] \notin Working \cup Putting
  BY NotComplete, OthersQuiet
<1>2. /\ \A q \in Invocations \ {p} : pc'[q] = pc[q]
      /\ pc'[p] = next
  BY DEF Goto, TypeInv, TypeOK
<1>3. OneWriter'
  BY <1>1, <1>2, OneWriterStep
<1>4. WorkInv'
  <2>1. tmp' = NoManifest /\ manifest' = Running(req'[p].id)
    BY DEF WorkInv
  <2>2. QED
    BY <1>1, <1>2, <2>1 DEF WorkInv
<1>5. PutInv'
  BY <1>1, <1>2 DEF PutInv, Putting, Working
<1>6. CompleteInv' /\ AnswerInv'
  BY NotComplete DEF CompleteInv, AnswerInv
<1>7. OrphanInv'
  BY <1>1, <1>2, NotComplete DEF OrphanInv, Running, Working, Putting
<1>8. QED
  BY <1>3, <1>4, <1>5, <1>6, <1>7

(* No container is left while a call is at work elsewhere than at a        *)
(* timeout.                                                                *)
LEMMA NoOrphan ==
  ASSUME IInv, NEW p \in Invocations, pc[p] \in Working,
         pc[p] = "results" => tool[p].status # "timeout"
  PROVE  orphans = {}
  BY DEF IInv, OrphanInv

LEMMA InputStep ==
  ASSUME IInv, TypeInv', NEW p \in Invocations, WriteInput(p)
  PROVE  IInv'
<1>1. pc[p] \in Working /\ "tool" \in Working /\ Goto(p, "tool")
  BY DEF WriteInput, Working
<1>2. tool'[p].quality \in Passed["tool"]
  BY DEF WriteInput, IInv, TypeInv, TypeOK, Passed
<1>3. \A f \in Behind["tool"] : Good(f, req[p].id, tool[p].quality)'
  BY DerivedFiles
     DEF WriteInput, Write, InputBytes, Good, Behind, IInv, TypeInv, TypeOK, Disks
<1>4. orphans' = {}
  BY <1>1, NoOrphan DEF WriteInput
<1>5. OwnFacts(p)'
  <2>1. disk'["facts"] = disk["facts"]
    BY DEF WriteInput, Write, IInv, TypeInv, TypeOK, Disks
  <2>2. QED
    BY <1>1, <2>1 DEF OwnFacts, WriteInput, IInv, WorkInv
<1>6. QED
  BY <1>1, <1>2, <1>3, <1>4, <1>5, AdvanceStep DEF WriteInput

LEMMA RunStep ==
  ASSUME IInv, TypeInv', NEW p \in Invocations,
         RunBuiltin(p) \/ RunExternal(p) \/ RunAborted(p)
  PROVE  IInv'
<1>1. pc[p] = "tool" /\ pc[p] \in Working /\ "results" \in Working
  BY DEF RunBuiltin, RunExternal, RunAborted, Working
<1>2. PICK status, completeness : ToolReturns(p, status, completeness)
  BY DEF RunBuiltin, RunExternal, RunAborted
<1>3. Goto(p, "results") /\ UNCHANGED <<req, draft, manifest, tmp, answer>>
  BY <1>2 DEF ToolReturns
<1>4. tool'[p].quality \in Passed["results"]
  BY DEF TypeInv, TypeOK, Passed
<1>5. \/ disk' = disk
      \/ \E q \in Quality : disk' = [disk EXCEPT !["facts"] = FactBytes(req[p].id, p, q)]
  BY DEF RunBuiltin, RunExternal, RunAborted, Write
<1>6. \A f \in Behind["results"] : Good(f, req[p].id, tool[p].quality)'
  <2>1. Good("input", req[p].id, tool[p].quality)
    BY <1>1 DEF IInv, WorkInv, Behind
  <2>2. req' = req
    BY <1>3
  <2>3. disk'["input"] = disk["input"]
    BY <1>5, DerivedFiles DEF IInv, TypeInv, TypeOK, Disks
  <2>4. QED
    BY <2>1, <2>2, <2>3, DerivedFiles DEF Good, Behind
<1>7. orphans' # {} => tool'[p].status = "timeout"
  <2>1. orphans = {}
    BY <1>1, NoOrphan
  <2>2. CASE RunAborted(p)
    BY <2>1, <2>2 DEF RunAborted, ToolReturns, ToolReport, IInv, TypeInv, TypeOK
  <2>3. CASE RunBuiltin(p) \/ RunExternal(p)
    BY <2>1, <2>3 DEF RunBuiltin, RunExternal
  <2>4. QED
    BY <2>2, <2>3
<1>8. OwnFacts(p)'
  <2>1. disk'["facts"] = disk["facts"] \/ disk'["facts"].id = req[p].id
    BY <1>5, DerivedFiles DEF IInv, TypeInv, TypeOK, Disks, FactBytes
  <2>2. disk["facts"].kind = "whole" => disk["facts"].id = req[p].id
    BY <1>1 DEF IInv, WorkInv, OwnFacts
  <2>3. QED
    BY <1>3, <1>5, <2>1, <2>2 DEF OwnFacts
<1>9. QED
  BY <1>1, <1>3, <1>4, <1>6, <1>7, <1>8, AdvanceStep

LEMMA ResultsStep ==
  ASSUME IInv, TypeInv', NEW p \in Invocations, WriteResults(p)
  PROVE  IInv'
<1>1. /\ pc[p] = "results" /\ pc[p] \in Working /\ "relations" \in Working
      /\ UNCHANGED <<req, tool, manifest, tmp, orphans, answer>>
  BY DEF WriteResults, Working
<1>2. CASE Unusable(p)
  BY <1>1, <1>2, FailStep DEF WriteResults
<1>3. CASE ~Unusable(p)
  <2>1. Goto(p, "relations") /\ UNCHANGED draft
    BY <1>3 DEF WriteResults
  <2>2. tool[p].status = "ok"
    BY <1>1, <1>3 DEF Unusable, IInv, TypeInv, ToolStatus
  <2>3. orphans' = {}
    BY <1>1, <2>2, NoOrphan
  <2>4. tool'[p].quality \in Passed["relations"]
    BY DEF TypeInv, TypeOK, Passed
  <2>5. Good("input", req[p].id, tool[p].quality)'
    <3>1. Good("input", req[p].id, tool[p].quality)
      BY <1>1 DEF IInv, WorkInv, Behind
    <3>2. disk'["input"] = disk["input"]
      BY DEF WriteResults, Write, IInv, TypeInv, TypeOK, Disks
    <3>3. QED
      BY <1>1, <3>1, <3>2, DerivedFiles DEF Good
  <2>6. Good("results", req[p].id, tool[p].quality)'
    <3>1. EffectiveStatus(tool[p]) \in {"ok", "partial"}
      BY <2>2 DEF EffectiveStatus
    <3>2. disk'["results"] = ResultBytes(req[p].id, p, EffectiveStatus(tool[p]))
      BY DEF WriteResults, Write, IInv, TypeInv, TypeOK, Disks, Artifacts
    <3>3. QED
      BY <1>1, <3>1, <3>2, DerivedFiles DEF Good, ResultBytes
  <2>7. \A f \in Behind["relations"] : Good(f, req[p].id, tool[p].quality)'
    BY <2>5, <2>6 DEF Behind
  <2>8. OwnFacts(p)'
    <3>1. disk["facts"].kind = "whole" => disk["facts"].id = req[p].id
      BY <1>1, <2>2 DEF IInv, WorkInv, OwnFacts
    <3>2. disk'["facts"] = disk["facts"]
      BY DEF WriteResults, Write, IInv, TypeInv, TypeOK, Disks
    <3>3. QED
      BY <1>1, <3>1, <3>2 DEF OwnFacts
  <2>9. QED
    BY <1>1, <2>1, <2>3, <2>4, <2>7, <2>8, AdvanceStep
<1>4. QED
  BY <1>2, <1>3

LEMMA RelationsStep ==
  ASSUME IInv, TypeInv', NEW p \in Invocations, LoadRelations(p)
  PROVE  IInv'
<1>1. /\ pc[p] = "relations" /\ pc[p] \in Working /\ "build" \in Working
      /\ UNCHANGED <<req, disk, manifest, tmp, orphans, answer>>
  BY DEF LoadRelations, Working
<1>2. CASE disk["facts"].kind = "whole" /\ disk["facts"].quality # "malformed"
  <2>1. Goto(p, "build") /\ UNCHANGED draft
    BY <1>2 DEF LoadRelations
  <2>2. tool'[p].quality = disk["facts"].quality
    BY <1>2 DEF LoadRelations, ToolReport, IInv, TypeInv, TypeOK
  <2>3. disk["facts"] \in FactTypes
    BY <1>2 DEF IInv, TypeInv, TypeOK, Disks, Stored, NoFile, Torn
  <2>4. tool'[p].quality \in Passed["build"]
    BY <1>2, <2>2, <2>3 DEF FactTypes, Passed
  <2>5. orphans' = {}
    BY <1>1, NoOrphan
  <2>6. \A f \in {"input", "results"} : Good(f, req[p].id, tool[p].quality)
    BY <1>1 DEF IInv, WorkInv, Behind
  <2>7. \A f \in {"input", "results"} : Good(f, req[p].id, tool[p].quality)'
    BY <1>1, <2>6, DerivedFiles DEF Good
  <2>8. OwnFacts(p) /\ OwnFacts(p)'
    BY <1>1 DEF IInv, WorkInv, OwnFacts
  <2>9. Good("facts", req[p].id, tool[p].quality)'
    BY <1>1, <1>2, <2>2, <2>8, DerivedFiles DEF Good, OwnFacts
  <2>10. \A f \in Behind["build"] : Good(f, req[p].id, tool[p].quality)'
    BY <2>7, <2>9 DEF Behind, Checked
  <2>11. QED
    BY <1>1, <2>1, <2>4, <2>5, <2>8, <2>10, AdvanceStep
<1>3. CASE ~(disk["facts"].kind = "whole" /\ disk["facts"].quality # "malformed")
  <2>1. Fail(p)
    BY <1>3 DEF LoadRelations
  <2>2. QED
    BY <1>1, <2>1, FailStep
<1>4. QED
  BY <1>2, <1>3

(* What is behind an invocation stays as it is while the disk does.        *)
LEMMA BehindKept ==
  ASSUME IInv, NEW p \in Invocations, pc[p] \in Working,
         UNCHANGED <<req, tool, disk>>
  PROVE  /\ \A f \in Behind[pc[p]] : Good(f, req[p].id, tool[p].quality)'
         /\ pc[p] # "results" => OwnFacts(p)'
  BY DEF IInv, WorkInv, Good, OwnFacts

LEMMA BuildStep ==
  ASSUME IInv, TypeInv', NEW p \in Invocations, BuildIR(p)
  PROVE  IInv'
<1>1. /\ pc[p] = "build" /\ pc[p] \in Working /\ "contract" \in Working
      /\ UNCHANGED <<req, tool, disk, manifest, tmp, orphans, answer>>
  BY DEF BuildIR, Working
<1>2. CASE tool[p].quality = "inconsistent"
  BY <1>1, <1>2, FailStep DEF BuildIR
<1>3. CASE tool[p].quality # "inconsistent"
  <2>1. Goto(p, "contract") /\ UNCHANGED draft
    BY <1>3 DEF BuildIR
  <2>2. tool[p].quality \in Passed["build"]
    BY <1>1 DEF IInv, WorkInv
  <2>3. tool'[p].quality \in Passed["contract"]
    BY <1>1, <1>3, <2>2 DEF Passed
  <2>4. orphans' = {}
    BY <1>1, NoOrphan
  <2>5. Behind["contract"] = Behind["build"]
    BY DEF Behind
  <2>6. QED
    BY <1>1, <2>1, <2>3, <2>4, <2>5, BehindKept, AdvanceStep
<1>4. QED
  BY <1>2, <1>3

LEMMA StructureStep ==
  ASSUME IInv, TypeInv', NEW p \in Invocations, ValidateStructure(p)
  PROVE  IInv'
<1>1. /\ pc[p] = "structure" /\ pc[p] \in Working /\ "report" \in Working
      /\ UNCHANGED <<req, tool, disk, manifest, tmp, orphans, answer>>
  BY DEF ValidateStructure, Working
<1>2. CASE tool[p].quality = "unstructured"
  BY <1>1, <1>2, FailStep DEF ValidateStructure
<1>3. CASE tool[p].quality # "unstructured"
  <2>1. Goto(p, "report") /\ UNCHANGED draft
    BY <1>3 DEF ValidateStructure
  <2>2. tool[p].quality \in Passed["structure"]
    BY <1>1 DEF IInv, WorkInv
  <2>3. tool'[p].quality \in Passed["report"]
    BY <1>1, <1>3, <2>2 DEF Passed, Quality
  <2>4. orphans' = {}
    BY <1>1, NoOrphan
  <2>5. Behind["report"] = Behind["structure"]
    BY DEF Behind
  <2>6. QED
    BY <1>1, <2>1, <2>3, <2>4, <2>5, BehindKept, AdvanceStep
<1>4. QED
  BY <1>2, <1>3

(* The seven files derived from the contract, one after the other.         *)
LEMMA DerivedStep ==
  ASSUME IInv, TypeInv', NEW p \in Invocations, WriteDerived(p)
  PROVE  IInv'
<1> DEFINE next == AfterWrite[pc[p]]
<1>1. /\ pc[p] \in DOMAIN AfterWrite /\ pc[p] \in Working /\ next \in Working
      /\ pc[p] # "results" /\ next # "results"
      /\ Goto(p, next)
      /\ UNCHANGED <<req, tool, draft, manifest, tmp, orphans, answer>>
  BY DEF WriteDerived, AfterWrite, Working
<1>2. disk' = [disk EXCEPT ![pc[p]] = Derived(req[p].id, tool[p].quality)]
  BY DEF WriteDerived, Write
<1>3. /\ disk'[pc[p]] = Derived(req[p].id, tool[p].quality)
      /\ \A f \in Artifacts \ {pc[p]} : disk'[f] = disk[f]
  BY <1>1, <1>2, DerivedFiles DEF IInv, TypeInv, TypeOK, Disks
<1>4. /\ Behind[next] = Behind[pc[p]] \cup {pc[p]}
      /\ Behind[pc[p]] \subseteq Artifacts \ {pc[p]}
      /\ tool[p].quality \in Passed[pc[p]] => tool[p].quality \in Passed[next]
  BY <1>1 DEF AfterWrite, Behind, Checked, Artifacts, Passed
<1>5. tool'[p].quality \in Passed[next]
  BY <1>1, <1>4 DEF IInv, WorkInv
<1>6. orphans' = {}
  BY <1>1, NoOrphan
<1>7. \A f \in Behind[next] : Good(f, req[p].id, tool[p].quality)'
  <2>1. ASSUME NEW f \in Behind[pc[p]]
        PROVE  Good(f, req[p].id, tool[p].quality)'
    <3>1. Good(f, req[p].id, tool[p].quality)
      BY <1>1, <2>1 DEF IInv, WorkInv
    <3>2. disk'[f] = disk[f]
      BY <1>3, <1>4, <2>1
    <3>3. QED
      BY <1>1, <3>1, <3>2 DEF Good
  <2>2. ASSUME NEW f \in DOMAIN AfterWrite, f = pc[p]
        PROVE  Good(f, req[p].id, tool[p].quality)'
    BY <1>1, <1>3, <2>2, DerivedFiles DEF Good, Derived
  <2>3. QED
    BY <1>1, <1>4, <2>1, <2>2
<1>8. OwnFacts(p)'
  <2>1. disk'["facts"] = disk["facts"]
    BY <1>1, <1>3, DerivedFiles
  <2>2. QED
    BY <1>1, <2>1 DEF IInv, WorkInv, OwnFacts
<1> HIDE DEF next
<1>9. QED
  BY <1>1, <1>5, <1>6, <1>7, <1>8, AdvanceStep

-----------------------------------------------------------------------------
(* Publishing a manifest.                                                  *)

LEMMA BeginStep ==
  ASSUME AtomicClaim, IInv, TypeInv', NEW p \in Invocations, Begin(p)
  PROVE  IInv'
<1> USE DEF IInv
<1>1. /\ pc[p] = "empty" /\ DirEmpty
      /\ UNCHANGED <<req, tool, disk, manifest, tmp, orphans, answer>>
  BY DEF Begin
<1>2. \A q \in Invocations \ {p} : pc[q] \notin Working \cup Putting
  <2>1. ASSUME NEW q \in Invocations, pc[q] \in Working
        PROVE  FALSE
    BY <1>1, <2>1 DEF WorkInv, DirEmpty, NoManifest, Running
  <2>2. ASSUME NEW q \in Invocations, pc[q] = "publish"
        PROVE  FALSE
    <3>1. tmp = draft[q] /\ draft[q].status \in {"running", "failed", "complete"}
      BY <2>2 DEF PutInv, Putting, Running, Failed, Complete
    <3>2. QED
      BY <1>1, <3>1 DEF DirEmpty, NoManifest
  <2>3. ASSUME NEW q \in Invocations, pc[q] = "stage"
        PROVE  FALSE
    <3>1. draft[q].status # "running"
      BY <2>3 DEF Begin, Claiming
    <3>2. manifest = Running(req[q].id)
      BY <2>3, <3>1 DEF PutInv, Putting
    <3>3. QED
      BY <1>1, <3>2 DEF DirEmpty, NoManifest, Running
  <2>4. QED
    BY <2>1, <2>2, <2>3 DEF Putting
<1>3. /\ \A q \in Invocations \ {p} : pc'[q] = pc[q]
      /\ pc'[p] = "stage"
      /\ draft'[p] = Running(req[p].id)
  BY DEF Begin, Put, Goto, TypeInv, TypeOK
<1>4. OneWriter'
  BY <1>2, <1>3, OneWriterStep
<1>5. WorkInv'
  BY <1>2, <1>3 DEF WorkInv, Working
<1>6. PutInv'
  BY <1>1, <1>2, <1>3 DEF PutInv, DirEmpty, Running, Putting
<1>7. CompleteInv' /\ OrphanInv' /\ AnswerInv'
  BY <1>1 DEF CompleteInv, OrphanInv, AnswerInv, DirEmpty, NoManifest
<1>8. QED
  BY <1>4, <1>5, <1>6, <1>7

LEMMA IndexStep ==
  ASSUME IInv, TypeInv', NEW p \in Invocations, BuildIndex(p)
  PROVE  IInv'
<1> USE DEF IInv
<1>1. /\ pc[p] = "index" /\ pc[p] \in Working /\ pc[p] # "results"
      /\ UNCHANGED <<req, tool, disk, manifest, tmp, orphans, answer>>
  BY DEF BuildIndex, Working
<1>2. \A q \in Invocations \ {p} : pc[q] \notin Working \cup Putting
  BY <1>1, NotComplete, OthersQuiet
<1>3. /\ \A q \in Invocations \ {p} : pc'[q] = pc[q]
      /\ pc'[p] = "stage"
      /\ draft'[p] = Complete(req[p].id, disk)
  BY DEF BuildIndex, Put, Goto, TypeInv, TypeOK
<1>4. /\ manifest = Running(req[p].id) /\ tmp = NoManifest
      /\ tool[p].quality \in {"thin", "sound"}
      /\ \A f \in Artifacts : Good(f, req[p].id, tool[p].quality)
  BY <1>1 DEF WorkInv, Passed, Behind
<1>5. OneWriter'
  BY <1>2, <1>3, OneWriterStep
<1>6. WorkInv'
  BY <1>2, <1>3 DEF WorkInv, Working
<1>7. PutInv'
  <2>1. \A f \in Artifacts : Good(f, req[p].id, tool[p].quality)'
    BY <1>1, <1>4 DEF Good
  <2>2. QED
    BY <1>1, <1>2, <1>3, <1>4, <2>1 DEF PutInv, Complete, Putting
<1>8. CompleteInv' /\ AnswerInv'
  BY <1>1, NotComplete DEF CompleteInv, AnswerInv
<1>9. OrphanInv'
  BY <1>1, NoOrphan DEF OrphanInv
<1>10. QED
  BY <1>5, <1>6, <1>7, <1>8, <1>9

LEMMA StageStep ==
  ASSUME IInv, TypeInv', NEW p \in Invocations, Stage(p)
  PROVE  IInv'
<1> USE DEF IInv
<1>1. /\ pc[p] = "stage" /\ AtWork(p)
      /\ tmp' = draft[p]
      /\ UNCHANGED <<req, tool, draft, disk, manifest, orphans, answer>>
  BY DEF Stage, AtWork, Putting
<1>2. \A q \in Invocations \ {p} : pc[q] \notin Working \cup Putting
  BY <1>1, OthersQuiet
<1>3. (\A q \in Invocations \ {p} : pc'[q] = pc[q]) /\ pc'[p] = "publish"
  BY DEF Stage, Goto, TypeInv, TypeOK
<1>4. OneWriter'
  BY <1>2, <1>3, OneWriterStep
<1>5. WorkInv'
  BY <1>2, <1>3 DEF WorkInv, Working
<1>6. PutInv'
  BY <1>1, <1>2, <1>3 DEF PutInv, Putting, Good
<1>7. CompleteInv'
  BY <1>1 DEF CompleteInv, Putting
<1>8. OrphanInv'
  BY <1>1, <1>2, <1>3 DEF OrphanInv, Working, Putting
<1>9. AnswerInv'
  BY <1>1, <1>3 DEF AnswerInv
<1>10. QED
  BY <1>4, <1>5, <1>6, <1>7, <1>8, <1>9

(* Among atomic claims, a call finds its own temporary file when it renames it.          *)
LEMMA NotLost ==
  ASSUME IInv, NEW p \in Invocations, pc[p] = "publish"
  PROVE  tmp = draft[p] /\ tmp # NoManifest
  BY DEF IInv, PutInv, Putting, Running, Failed, Complete, NoManifest

LEMMA PublishStep ==
  ASSUME IInv, TypeInv', NEW p \in Invocations, Publish(p)
  PROVE  IInv'
<1> USE DEF IInv
<1>1. /\ pc[p] = "publish" /\ AtWork(p)
      /\ manifest' = draft[p] /\ tmp' = NoManifest
      /\ UNCHANGED <<req, tool, draft, disk, orphans>>
  BY NotLost DEF Publish, AtWork, Putting
<1>2. \A q \in Invocations \ {p} : pc[q] \notin Working \cup Putting
  BY <1>1, OthersQuiet
<1>3. \A q \in Invocations \ {p} : pc'[q] = pc[q]
  BY DEF Publish, Goto, TypeInv, TypeOK
<1>4. OneWriter'
  BY <1>2, <1>3, OneWriterStep
<1>5. \A q \in Invocations : answer[q] = NoFile
  BY <1>1 DEF AnswerInv, CompleteInv, Putting
<1>6. CASE draft[p].status = "running"
  <2>1. pc'[p] = "input" /\ UNCHANGED answer
    BY <1>6 DEF Publish, Goto, TypeInv, TypeOK
  <2>2. /\ draft[p] = Running(req[p].id)
        /\ \A f \in Artifacts : disk[f] = NoFile
    BY <1>1, <1>6 DEF PutInv, Putting, Failed, Complete
  <2>3. WorkInv'
    <3>1. OwnFacts(p)'
      BY <1>1, <2>2, DerivedFiles DEF OwnFacts, NoFile
    <3>2. tool'[p].quality \in Passed["input"] /\ Behind["input"] = {}
      BY DEF TypeInv, TypeOK, Passed, Behind
    <3>3. QED
      BY <1>1, <1>2, <1>3, <2>1, <2>2, <3>1, <3>2 DEF WorkInv, Working
  <2>4. PutInv'
    BY <1>2, <1>3, <2>1 DEF PutInv, Putting
  <2>5. CompleteInv' /\ AnswerInv'
    BY <1>1, <1>5, <1>6, <2>1 DEF CompleteInv, AnswerInv
  <2>6. OrphanInv'
    BY <1>1, <1>6 DEF OrphanInv, Putting
  <2>7. QED
    BY <1>4, <2>3, <2>4, <2>5, <2>6
<1>7. CASE draft[p].status = "failed"
  <2>1. pc'[p] = "raised" /\ UNCHANGED answer
    BY <1>7 DEF Publish, Goto, TypeInv, TypeOK
  <2>2. WorkInv' /\ PutInv'
    BY <1>2, <1>3, <2>1 DEF WorkInv, PutInv, Working, Putting
  <2>3. CompleteInv' /\ AnswerInv'
    BY <1>1, <1>5, <1>7, <2>1 DEF CompleteInv, AnswerInv
  <2>4. OrphanInv'
    BY <1>1, <1>2, <1>3, <1>7, <2>1 DEF OrphanInv, Working, Putting
  <2>5. QED
    BY <1>4, <2>2, <2>3, <2>4
<1>8. CASE draft[p].status = "complete"
  <2>1. /\ pc'[p] = "returned"
        /\ answer' = [answer EXCEPT ![p] = Derived(req[p].id, tool[p].quality)]
    BY <1>8 DEF Publish, Goto, TypeInv, TypeOK
  <2>2. /\ draft[p] = Complete(req[p].id, disk)
        /\ \A f \in Artifacts : Good(f, req[p].id, tool[p].quality)
        /\ tool[p].quality \in {"thin", "sound"}
    BY <1>1, <1>8 DEF PutInv, Putting, Running, Failed
  <2>3. /\ manifest'.status = "complete"
        /\ manifest'.id = req[p].id
        /\ manifest'.index = disk'
    BY <1>1, <2>2 DEF Complete
  <2>4. \A q \in Invocations : pc'[q] \notin Working \cup Putting
    BY <1>2, <1>3, <2>1 DEF Working, Putting
  <2>5. orphans = {}
    BY <1>1, <1>8 DEF OrphanInv, Putting
  <2>6. Whole(manifest.id)'
    BY <1>1, <2>2, <2>3 DEF Whole, Good
  <2>7. CompleteInv' /\ OrphanInv' /\ WorkInv' /\ PutInv'
    BY <1>1, <2>3, <2>4, <2>5, <2>6 DEF CompleteInv, OrphanInv, WorkInv, PutInv
  <2>8. AnswerInv'
    <3>1. disk["contract"] = Derived(req[p].id, tool[p].quality)
      BY <2>2, DerivedFiles DEF Good
    <3>2. /\ answer'[p] = disk["contract"]
          /\ \A q \in Invocations \ {p} : answer'[q] = NoFile
          /\ disk["contract"].id = req[p].id
      BY <1>5, <2>1, <3>1 DEF TypeInv, TypeOK, Derived
    <3>3. QED
      BY <1>1, <2>1, <2>3, <3>2 DEF AnswerInv
  <2>9. QED
    BY <1>4, <2>7, <2>8
<1>9. draft[p].status \in {"running", "failed", "complete"}
  BY DEF Publish
<1>10. QED
  BY <1>6, <1>7, <1>8, <1>9

-----------------------------------------------------------------------------
(* Deaths and containers.                                                  *)

LEMMA CrashStep ==
  ASSUME IInv, TypeInv', NEW p \in Invocations, Crash(p)
  PROVE  IInv'
<1> USE DEF IInv
<1>1. /\ Live(p)
      /\ UNCHANGED <<req, tool, draft, manifest, tmp, answer>>
      /\ orphans' # orphans => pc[p] = "tool"
  BY DEF Crash
<1>2. (\A q \in Invocations \ {p} : pc'[q] = pc[q]) /\ pc'[p] = "crashed"
  BY DEF Crash, Goto, TypeInv, TypeOK
<1>3. pc'[p] \notin Working \cup Putting
  BY <1>2 DEF Working, Putting
<1>4. pc[p] \notin Working => UNCHANGED <<disk, orphans>>
  BY <1>1 DEF Crash, InPlace, Working
<1>5. CASE pc[p] \in Checking
  <2>1. pc[p] \notin Working \cup Putting /\ pc[p] # "returned"
    BY <1>5 DEF Checking, Working, Putting
  <2>2. OneWriter' /\ WorkInv' /\ PutInv' /\ CompleteInv' /\ OrphanInv'
    BY <1>1, <1>2, <1>3, <1>4, <2>1, BystanderStep
  <2>3. AnswerInv'
    BY <1>1, <1>2, <1>4, <2>1 DEF AnswerInv
  <2>4. QED
    BY <2>2, <2>3
<1>6. CASE AtWork(p)
  <2>1. \A q \in Invocations : pc'[q] \notin Working \cup Putting
    BY <1>2, <1>3, <1>6, OthersQuiet
  <2>2. OneWriter' /\ WorkInv' /\ PutInv'
    BY <2>1 DEF OneWriter, AtWork, WorkInv, PutInv
  <2>3. \A q \in Invocations : answer[q] = NoFile
    BY <1>6 DEF AnswerInv, CompleteInv, AtWork
  <2>4. CompleteInv' /\ AnswerInv'
    BY <1>1, <1>6, <2>3 DEF CompleteInv, AnswerInv, AtWork
  <2>5. CASE pc[p] \in Working
    <3>1. manifest = Running(req[p].id)
      BY <2>5, NotComplete
    <3>2. QED
      BY <1>1, <2>1, <2>2, <2>4, <3>1 DEF OrphanInv, Running
  <2>6. CASE pc[p] \notin Working
    BY <1>1, <1>4, <2>1, <2>2, <2>4, <2>6 DEF OrphanInv
  <2>7. QED
    BY <2>5, <2>6
<1>7. QED
  BY <1>1, <1>5, <1>6 DEF Live, AtWork

LEMMA ContainerStep ==
  ASSUME IInv, TypeInv', NEW p \in Invocations,
         ContainerWrites(p) \/ ContainerExits(p)
  PROVE  IInv'
<1> USE DEF IInv
<1>1. /\ orphans # {} /\ orphans' \subseteq orphans
      /\ UNCHANGED <<pc, req, tool, draft, manifest, tmp, answer>>
  BY DEF ContainerWrites, ContainerExits
<1>2. OneWriter'
  BY <1>1 DEF OneWriter, AtWork
<1>3. /\ manifest.status \in {"running", "failed"}
      /\ \A q \in Invocations :
           /\ pc[q] \in Working => pc[q] = "results" /\ tool[q].status = "timeout"
           /\ pc[q] \in Putting => draft[q].status = "failed"
  BY <1>1 DEF OrphanInv
<1>4. disk'["input"] = disk["input"]
  BY DerivedFiles
     DEF ContainerWrites, ContainerExits, Write, TypeInv, TypeOK, Disks
<1>5. WorkInv'
  <2>1. ASSUME NEW q \in Invocations, pc[q] \in Working
        PROVE  /\ \A f \in Behind["results"] : Good(f, req[q].id, tool[q].quality)'
               /\ OwnFacts(q)'
    <3>1. pc[q] = "results" /\ tool[q].status = "timeout"
      BY <1>3, <2>1
    <3>2. Good("input", req[q].id, tool[q].quality)
      BY <2>1, <3>1 DEF WorkInv, Behind
    <3>3. QED
      BY <1>1, <1>4, <3>1, <3>2, DerivedFiles DEF Good, OwnFacts, Behind
  <2>2. QED
    BY <1>1, <1>3, <2>1 DEF WorkInv
<1>6. PutInv'
  BY <1>1, <1>3 DEF PutInv, Running, Failed, Complete
<1>7. CompleteInv' /\ AnswerInv'
  BY <1>1, <1>3 DEF CompleteInv, AnswerInv
<1>8. OrphanInv'
  BY <1>1, <1>3 DEF OrphanInv
<1>9. QED
  BY <1>2, <1>5, <1>6, <1>7, <1>8

-----------------------------------------------------------------------------
(* The theorems.                                                           *)

LEMMA IInvStep == AtomicClaim /\ IInv /\ [Next]_vars => IInv'
<1> SUFFICES ASSUME AtomicClaim, IInv, [Next]_vars
             PROVE  IInv'
  OBVIOUS
<1>1. TypeInv'
  BY TypeStep DEF IInv
<1>2. ASSUME NEW p \in Invocations, Start(p)
      PROVE  IInv'
  BY <1>1, <1>2, QuietStep
<1>3. ASSUME NEW p \in Invocations, Step(p)
      PROVE  IInv'
  <2>1. CASE ResumeHit(p) \/ ResumeMiss(p) \/ Refuse(p)
    BY <1>1, <2>1, QuietStep
  <2>2. CASE Begin(p)
    BY <1>1, <2>2, BeginStep
  <2>3. CASE Stage(p)
    BY <1>1, <2>3, StageStep
  <2>4. CASE Publish(p)
    BY <1>1, <2>4, PublishStep
  <2>5. CASE PublishLost(p)
    BY <2>5, NotLost DEF PublishLost
  <2>6. CASE WriteInput(p)
    BY <1>1, <2>6, InputStep
  <2>7. CASE RunBuiltin(p) \/ RunExternal(p) \/ RunAborted(p)
    BY <1>1, <2>7, RunStep
  <2>8. CASE RunRaises(p)
    BY <1>1, <2>8, FailStep DEF RunRaises, Working
  <2>9. CASE WriteResults(p)
    BY <1>1, <2>9, ResultsStep
  <2>10. CASE LoadRelations(p)
    BY <1>1, <2>10, RelationsStep
  <2>11. CASE BuildIR(p)
    BY <1>1, <2>11, BuildStep
  <2>12. CASE WriteDerived(p)
    BY <1>1, <2>12, DerivedStep
  <2>13. CASE ValidateStructure(p)
    BY <1>1, <2>13, StructureStep
  <2>14. CASE BuildIndex(p)
    BY <1>1, <2>14, IndexStep
  <2>15. QED
    BY <1>3, <2>1, <2>2, <2>3, <2>4, <2>5, <2>6, <2>7, <2>8, <2>9, <2>10, <2>11,
       <2>12, <2>13, <2>14 DEF Step
<1>4. ASSUME NEW p \in Invocations, Crash(p)
      PROVE  IInv'
  BY <1>1, <1>4, CrashStep
<1>5. ASSUME NEW p \in Invocations, ContainerWrites(p) \/ ContainerExits(p)
      PROVE  IInv'
  BY <1>1, <1>5, ContainerStep
<1>6. CASE AllEnded \/ UNCHANGED vars
  <2>1. UNCHANGED vars
    BY <1>6 DEF AllEnded
  <2>2. QED
    BY <1>1, <2>1 DEF vars, IInv, OneWriter, AtWork, WorkInv, OwnFacts, Good, PutInv,
       CompleteInv, Whole, OrphanInv, AnswerInv
<1>7. QED
  BY <1>2, <1>3, <1>4, <1>5, <1>6 DEF Next

LEMMA IInvAlways == ASSUME AtomicClaim PROVE Spec => []IInv
  BY IInvInit, IInvStep, PTL DEF Spec

(* Calls that claim atomically never leave a manifest that says "complete"    *)
(* over a directory that is not, whatever dies and whenever.               *)
THEOREM CompleteRunsAreWhole ==
  ASSUME AtomicClaim
  PROVE  Spec => []CompleteIsWhole
<1>1. IInv => CompleteIsWhole
  <2> SUFFICES ASSUME IInv, manifest.status = "complete"
               PROVE  CompleteIsWhole
    BY DEF CompleteIsWhole
  <2>1. PICK q \in {"thin", "sound"} : \A f \in Artifacts : Good(f, manifest.id, q)
    BY DEF IInv, CompleteInv, Whole
  <2>2. manifest.index = disk
    BY DEF IInv, CompleteInv
  <2>3. /\ \A f \in Artifacts : disk[f].kind = "whole" /\ disk[f].id = manifest.id
        /\ \A f \in Artifacts : disk[f] # NoFile
        /\ disk["results"].status \in {"ok", "partial"}
        /\ disk["facts"].quality = q
    BY <2>1, DerivedFiles DEF Good, NoFile
  <2>4. \A f \in DOMAIN AfterWrite : disk[f].quality = q
    BY <2>1, DerivedFiles DEF Good, Derived
  <2>5. Resumable(manifest.id)
    BY <2>2, <2>3 DEF Resumable, ValidManifest, Required, Artifacts
  <2>6. QED
    BY <2>2, <2>3, <2>4, <2>5 DEF CompleteIsWhole
<1>2. QED
  BY <1>1, IInvAlways, PTL

(* Every caller gets the contract of its own identity, and the one the     *)
(* manifest indexes.                                                       *)
THEOREM AnswersAreMine ==
  ASSUME AtomicClaim
  PROVE  Spec => []AnswerIsMine
<1>1. IInv => AnswerIsMine
  BY DEF IInv, AnswerInv, AnswerIsMine, CompleteInv
<1>2. QED
  BY <1>1, IInvAlways, PTL

(* No container left behind can reach a directory published as complete.   *)
THEOREM OrphansAreHarmless ==
  ASSUME AtomicClaim
  PROVE  Spec => []NoOrphanBehindComplete
<1>1. IInv => NoOrphanBehindComplete
  BY DEF IInv, CompleteInv, NoOrphanBehindComplete
<1>2. QED
  BY <1>1, IInvAlways, PTL

(* What a call, or a container, can still do to a settled directory.       *)
LEMMA SettledStep ==
  ASSUME TypeOK, [Next]_vars, Settled
  PROVE  Settled' /\ UNCHANGED <<disk, manifest, tmp>>
<1>1. /\ \A p \in Invocations : pc[p] \notin Working \cup Putting
      /\ orphans = {}
      /\ ~DirEmpty
  BY DEF Settled, DirEmpty, NoManifest
<1>2. pc \in [Invocations -> Phase]
  BY DEF TypeOK
<1>3. ASSUME NEW p \in Invocations, Start(p) \/ Step(p) \/ Crash(p)
      PROVE  /\ UNCHANGED <<disk, manifest, tmp, orphans>>
             /\ \E phase : /\ phase \notin Working \cup Putting
                           /\ pc' = [pc EXCEPT ![p] = phase]
  <2>1. ~Begin(p)
    BY <1>1 DEF Begin
  <2>2. ~(Stage(p) \/ Publish(p) \/ PublishLost(p))
    BY <1>1 DEF Stage, Publish, PublishLost, Putting
  <2>3. ~(WriteInput(p) \/ RunBuiltin(p) \/ RunExternal(p) \/ RunAborted(p) \/ RunRaises(p))
    BY <1>1 DEF WriteInput, RunBuiltin, RunExternal, RunAborted, RunRaises, Working
  <2>4. ~(WriteResults(p) \/ LoadRelations(p) \/ BuildIR(p) \/ WriteDerived(p)
            \/ ValidateStructure(p) \/ BuildIndex(p))
    BY <1>1, DerivedFiles DEF WriteResults, LoadRelations, BuildIR, WriteDerived,
       ValidateStructure, BuildIndex, Working, AfterWrite
  <2>5. CASE Start(p) \/ ResumeHit(p) \/ ResumeMiss(p) \/ Refuse(p)
    BY <2>5 DEF Start, ResumeHit, ResumeMiss, Refuse, Goto, Working, Putting
  <2>6. CASE Crash(p)
    <3>1. InPlace(pc[p]) = {} /\ pc[p] # "tool"
      BY <1>1 DEF InPlace, Working
    <3>2. QED
      BY <2>6, <3>1 DEF Crash, Goto, Working, Putting
  <2>7. QED
    BY <1>3, <2>1, <2>2, <2>3, <2>4, <2>5, <2>6 DEF Step
<1>4. ASSUME NEW p \in Invocations, Start(p) \/ Step(p) \/ Crash(p)
      PROVE  Settled'
  BY <1>1, <1>2, <1>3, <1>4 DEF Settled
<1>5. ASSUME NEW p \in Invocations
      PROVE  ~(ContainerWrites(p) \/ ContainerExits(p))
  BY <1>1 DEF ContainerWrites, ContainerExits
<1>6. CASE AllEnded \/ UNCHANGED vars
  BY <1>6 DEF AllEnded, vars, Settled
<1>7. QED
  BY <1>3, <1>4, <1>5, <1>6 DEF Next

(* However calls overlap, once those that saw the directory empty, and the *)
(* containers they left, have ended, a complete directory no longer        *)
(* changes.                                                                *)
THEOREM SettledRunsAreFrozen == Spec => SettledFrozen
<1>1. TypeOK /\ [Next]_vars
        => [Settled => Settled' /\ UNCHANGED <<disk, manifest, tmp>>]_vars
  BY SettledStep
<1>2. QED
  BY <1>1, TypeCorrect, PTL DEF Spec, SettledFrozen

LEMMA FrozenStep ==
  ASSUME IInv, [Next]_vars, manifest.status = "complete"
  PROVE  UNCHANGED <<disk, manifest, tmp>>
<1>1. Settled
  BY DEF IInv, CompleteInv, Settled
<1>2. TypeOK
  BY DEF IInv, TypeInv
<1>3. QED
  BY <1>1, <1>2, SettledStep

(* The deterministic layer is immutable, if claims are atomic.             *)
THEOREM CompleteRunsAreFrozen ==
  ASSUME AtomicClaim
  PROVE  Spec => CompleteFrozen
<1>1. IInv /\ [Next]_vars
        => [manifest.status = "complete" => UNCHANGED <<disk, manifest, tmp>>]_vars
  BY FrozenStep
<1>2. QED
  BY <1>1, IInvAlways, PTL DEF Spec, CompleteFrozen

-----------------------------------------------------------------------------
(* The pipeline implements RunStore, step by step.                         *)

LEMMA SlotClaimed ==
  ASSUME NEW p \in Invocations, pc[p] \in Working \cup Putting,
         manifest.status # "complete", ~DirEmpty
  PROVE  Slot = Store!Claimed
  BY DEF Slot, Store!Claimed

LEMMA SlotSpoiled ==
  ASSUME \A p \in Invocations : pc[p] \notin Working \cup Putting,
         manifest.status # "complete", ~DirEmpty
  PROVE  Slot = Store!Spoiled
  BY DEF Slot, Store!Spoiled

LEMMA SlotEmpty == DirEmpty => Slot = Store!Empty
  BY DEF Slot, DirEmpty, NoManifest, Store!Empty

(* A step that leaves the files alone, or changes them in a directory that *)
(* stays non-empty and incomplete, and that neither takes up nor drops the *)
(* work, is a stutter of the store.                                        *)
LEMMA SlotKept ==
  ASSUME \/ UNCHANGED <<disk, manifest, tmp>>
         \/ /\ ~DirEmpty /\ ~DirEmpty'
            /\ manifest.status # "complete" /\ manifest'.status # "complete",
         (\E p \in Invocations : pc[p] \in Working \cup Putting)
           <=> (\E p \in Invocations : pc'[p] \in Working \cup Putting)
  PROVE  Slot' = Slot
  BY DEF Slot, DirEmpty

LEMMA StoreInitial == Init => Store!StoreInit
  BY SlotEmpty DEF Init, DirEmpty, Store!StoreInit

LEMMA NoAnswerYet ==
  ASSUME IInv, NEW p \in Invocations, pc[p] # "returned" \/ manifest.status # "complete"
  PROVE  answer[p] = NoFile
  BY DEF IInv, AnswerInv

(* A step that takes p from work to work, in a running directory.          *)
LEMMA WorkKept ==
  ASSUME IInv, NEW p \in Invocations, pc[p] \in Working,
         pc'[p] \in Working \cup Putting, UNCHANGED <<manifest, answer>>
  PROVE  Slot' = Slot /\ UNCHANGED answer
<1>1. manifest = Running(req[p].id)
  BY DEF IInv, WorkInv
<1>2. /\ manifest.status # "complete" /\ manifest'.status # "complete"
      /\ ~DirEmpty /\ ~DirEmpty'
  BY <1>1 DEF Running, DirEmpty, NoManifest
<1>3. QED
  BY <1>2, SlotKept

LEMMA WorkStores ==
  ASSUME IInv, TypeInv', NEW p \in Invocations,
         \/ WriteInput(p) \/ RunBuiltin(p) \/ RunExternal(p) \/ RunAborted(p)
         \/ RunRaises(p) \/ WriteResults(p) \/ LoadRelations(p) \/ BuildIR(p)
         \/ WriteDerived(p) \/ ValidateStructure(p) \/ BuildIndex(p)
  PROVE  Slot' = Slot /\ UNCHANGED answer
<1>1. /\ pc[p] \in Working
      /\ UNCHANGED <<manifest, answer>>
  BY DerivedFiles DEF WriteInput, RunBuiltin, RunExternal, RunAborted, RunRaises,
     WriteResults, LoadRelations, BuildIR, WriteDerived, ValidateStructure,
     BuildIndex, ToolReturns, Working, AfterWrite
<1>2. pc'[p] \in Working \cup Putting
  <2>1. pc \in [Invocations -> Phase]
    BY DEF IInv, TypeInv, TypeOK
  <2>2. pc[p] \in DOMAIN AfterWrite => AfterWrite[pc[p]] \in Working
    BY DerivedFiles
  <2>3. CASE WriteInput(p) \/ RunBuiltin(p) \/ RunExternal(p) \/ RunAborted(p)
               \/ RunRaises(p)
    BY <2>1, <2>3 DEF WriteInput, RunBuiltin, RunExternal, RunAborted, RunRaises,
       ToolReturns, Goto, Fail, Put, Working, Putting
  <2>4. CASE WriteResults(p) \/ LoadRelations(p) \/ BuildIR(p)
    BY <2>1, <2>4 DEF WriteResults, LoadRelations, BuildIR, Goto, Fail, Put,
       Working, Putting
  <2>5. CASE WriteDerived(p)
    BY <2>1, <2>2, <2>5 DEF WriteDerived, Goto
  <2>6. CASE ValidateStructure(p) \/ BuildIndex(p)
    BY <2>1, <2>6 DEF ValidateStructure, BuildIndex, Goto, Fail, Put, Working, Putting
  <2>7. QED
    BY <2>3, <2>4, <2>5, <2>6
<1>3. QED
  BY <1>1, <1>2, WorkKept

LEMMA LookStores ==
  ASSUME IInv, NEW p \in Invocations,
         \/ Start(p) \/ ResumeHit(p) \/ ResumeMiss(p) \/ Refuse(p)
  PROVE  /\ Slot' = Slot
         /\ UNCHANGED answer \/ Store!Serve(p)
<1>1. /\ pc \in [Invocations -> Phase]
      /\ answer \in [Invocations -> Contracts \cup {NoFile}]
  BY DEF IInv, TypeInv, TypeOK
<1>2. \E phase \in Checking \cup Ended : pc' = [pc EXCEPT ![p] = phase]
  BY <1>1 DEF Start, ResumeHit, ResumeMiss, Refuse, Goto, Checking, Ended
<1>3. pc[p] \notin Working \cup Putting
  BY DEF Start, ResumeHit, ResumeMiss, Refuse, Working, Putting
<1>4. \A q \in Invocations :
        pc[q] \in Working \cup Putting <=> pc'[q] \in Working \cup Putting
  BY <1>1, <1>2, <1>3 DEF Checking, Ended, Working, Putting
<1>5. UNCHANGED <<disk, manifest, tmp>>
  BY DEF Start, ResumeHit, ResumeMiss, Refuse
<1>6. Slot' = Slot
  BY <1>4, <1>5, SlotKept
<1>7. ASSUME ResumeHit(p)
      PROVE  Store!Serve(p)
  <2>1. manifest.status = "complete" /\ manifest.index = disk
    BY <1>7 DEF ResumeHit, Resumable, ValidManifest, IInv, CompleteInv
  <2>2. Slot = [state |-> "sealed", result |-> disk["contract"]]
    BY <2>1 DEF Slot
  <2>3. answer[p] = NoFile
    BY <1>7, NoAnswerYet DEF ResumeHit
  <2>4. QED
    BY <1>6, <1>7, <2>2, <2>3 DEF ResumeHit, Store!Serve
<1>8. QED
  BY <1>6, <1>7 DEF Start, ResumeMiss, Refuse

LEMMA BeginStores ==
  ASSUME IInv, TypeInv', NEW p \in Invocations, Begin(p)
  PROVE  Slot' = Slot /\ UNCHANGED answer
<1>1. DirEmpty /\ DirEmpty' /\ UNCHANGED answer
  BY DEF Begin, DirEmpty
<1>2. Slot = Store!Empty /\ Slot' = Store!Empty
  BY <1>1, SlotEmpty DEF Slot, DirEmpty, NoManifest, Store!Empty
<1>3. QED
  BY <1>1, <1>2

(* The first temporary file claims the directory; later ones find it so.   *)
LEMMA StageStores ==
  ASSUME IInv, TypeInv', NEW p \in Invocations, Stage(p)
  PROVE  /\ Slot' = Slot \/ Store!Claim
         /\ UNCHANGED answer
<1>1. /\ pc[p] = "stage" /\ pc'[p] = "publish"
      /\ tmp' = draft[p]
      /\ UNCHANGED <<disk, manifest, answer>>
  BY DEF Stage, Goto, IInv, TypeInv, TypeOK
<1>2. /\ draft[p] \in {Running(req[p].id), Failed(req[p].id), Complete(req[p].id, disk)}
      /\ manifest \in {NoManifest, Running(req[p].id)}
  BY <1>1 DEF IInv, PutInv, Putting
<1>3. /\ manifest.status # "complete" /\ manifest'.status # "complete"
      /\ ~DirEmpty'
  BY <1>1, <1>2 DEF DirEmpty, NoManifest, Running, Failed, Complete
<1>4. Slot' = Store!Claimed
  BY <1>1, <1>3 DEF Slot, Putting, Store!Claimed
<1>5. CASE DirEmpty
  BY <1>1, <1>4, <1>5, SlotEmpty DEF Store!Claim
<1>6. CASE ~DirEmpty
  BY <1>1, <1>3, <1>4, <1>6, SlotClaimed DEF Putting
<1>7. QED
  BY <1>1, <1>5, <1>6

LEMMA PublishStores ==
  ASSUME IInv, TypeInv', NEW p \in Invocations, Publish(p)
  PROVE  \/ Slot' = Slot /\ UNCHANGED answer
         \/ Store!Spoil
         \/ \E r \in Contracts : Store!Seal(p, r)
<1>1. /\ pc[p] = "publish" /\ pc[p] \in Putting
      /\ tmp = draft[p] /\ manifest' = draft[p] /\ tmp' = NoManifest
      /\ UNCHANGED <<disk, draft, req, tool>>
  BY DEF Publish, Putting, IInv, PutInv
<1>2. /\ draft[p] \in {Running(req[p].id), Failed(req[p].id), Complete(req[p].id, disk)}
      /\ manifest \in {NoManifest, Running(req[p].id)}
      /\ ~DirEmpty /\ manifest.status # "complete"
  BY <1>1 DEF IInv, PutInv, Putting, DirEmpty, NoManifest, Running, Failed, Complete
<1>3. Slot = Store!Claimed
  BY <1>1, <1>2, SlotClaimed
<1>4. /\ pc \in [Invocations -> Phase]
      /\ answer \in [Invocations -> Contracts \cup {NoFile}]
  BY DEF IInv, TypeInv, TypeOK
<1>5. CASE draft[p].status = "running"
  <2>1. pc'[p] = "input" /\ UNCHANGED answer
    BY <1>4, <1>5 DEF Publish, Goto
  <2>2. manifest'.status # "complete" /\ ~DirEmpty'
    BY <1>1, <1>5 DEF DirEmpty, NoManifest
  <2>3. Slot' = Store!Claimed
    BY <2>1, <2>2 DEF Slot, Working, Store!Claimed
  <2>4. QED
    BY <1>3, <2>1, <2>3
<1>6. CASE draft[p].status = "failed"
  <2>1. pc' = [pc EXCEPT ![p] = "raised"] /\ UNCHANGED answer
    BY <1>6 DEF Publish, Goto
  <2>2. \A q \in Invocations : pc'[q] \notin Working \cup Putting
    BY <1>1, <1>4, <2>1 DEF IInv, OneWriter, AtWork, Working, Putting
  <2>3. manifest'.status # "complete" /\ ~DirEmpty'
    BY <1>1, <1>6 DEF DirEmpty, NoManifest
  <2>4. Slot' = Store!Spoiled
    BY <2>2, <2>3 DEF Slot, Store!Spoiled
  <2>5. QED
    BY <1>3, <2>1, <2>4 DEF Store!Spoil
<1>7. CASE draft[p].status = "complete"
  <2> DEFINE r == Derived(req[p].id, tool[p].quality)
  <2>1. draft[p] = Complete(req[p].id, disk)
    BY <1>2, <1>7 DEF Running, Failed
  <2>2. disk["contract"] = r
    BY <1>1, <1>7, DerivedFiles DEF IInv, PutInv, Good
  <2>3. r \in Contracts
    BY DEF Derived, Contracts, IInv, TypeInv, TypeOK
  <2>4. answer' = [answer EXCEPT ![p] = r]
    BY <1>7 DEF Publish
  <2>5. Slot' = Store!Sealed(r)
    BY <1>1, <2>1, <2>2 DEF Slot, Complete, Store!Sealed
  <2>6. answer[p] = NoFile
    BY <1>1, NoAnswerYet
  <2>7. Store!Seal(p, r)
    BY <1>3, <2>4, <2>5, <2>6 DEF Store!Seal
  <2>8. QED
    BY <2>3, <2>7
<1>8. QED
  BY <1>2, <1>5, <1>6, <1>7 DEF Running, Failed, Complete

LEMMA CrashStores ==
  ASSUME IInv, TypeInv', NEW p \in Invocations, Crash(p)
  PROVE  /\ Slot' = Slot \/ Store!Spoil
         /\ UNCHANGED answer
<1>1. /\ Live(p)
      /\ pc' = [pc EXCEPT ![p] = "crashed"]
      /\ UNCHANGED <<manifest, tmp, answer>>
  BY DEF Crash, Goto
<1>2. pc \in [Invocations -> Phase]
  BY DEF IInv, TypeInv, TypeOK
<1>3. /\ pc'[p] \notin Working \cup Putting
      /\ \A q \in Invocations : q # p => pc'[q] = pc[q]
  BY <1>1, <1>2 DEF Working, Putting
<1>4. ASSUME AtWork(p)
      PROVE  \A q \in Invocations : pc'[q] \notin Working \cup Putting
  BY <1>3, <1>4, OthersQuiet DEF IInv
<1>5. pc[p] \notin Working => UNCHANGED disk
  BY DEF Crash, InPlace, Working
<1>6. CASE pc[p] \in Checking
  <2>1. pc[p] \notin Working \cup Putting
    BY <1>6 DEF Checking, Working, Putting
  <2>2. QED
    BY <1>1, <1>3, <1>5, <2>1, SlotKept
<1>7. CASE pc[p] \in Working
  <2>1. manifest = Running(req[p].id)
    BY <1>7 DEF IInv, WorkInv
  <2>2. /\ manifest.status # "complete" /\ manifest'.status # "complete"
        /\ ~DirEmpty /\ ~DirEmpty'
    BY <1>1, <2>1 DEF Running, DirEmpty, NoManifest
  <2>3. Slot = Store!Claimed
    BY <1>7, <2>2, SlotClaimed
  <2>4. Slot' = Store!Spoiled
    BY <1>4, <1>7, <2>2 DEF AtWork, Slot, Store!Spoiled
  <2>5. QED
    BY <1>1, <2>3, <2>4 DEF Store!Spoil
<1>8. CASE pc[p] \in Putting
  <2>1. UNCHANGED disk
    BY <1>5, <1>8 DEF Working, Putting
  <2>2. /\ manifest.status # "complete" /\ manifest'.status # "complete"
        /\ DirEmpty' <=> DirEmpty
    BY <1>1, <1>8, <2>1 DEF IInv, PutInv, NoManifest, Running, DirEmpty
  <2>3. CASE DirEmpty
    BY <1>1, <2>1, <2>3 DEF Slot, DirEmpty, NoManifest
  <2>4. CASE ~DirEmpty
    <3>1. Slot = Store!Claimed
      BY <1>8, <2>2, <2>4, SlotClaimed
    <3>2. Slot' = Store!Spoiled
      BY <1>4, <1>8, <2>2, <2>4 DEF AtWork, Slot, Store!Spoiled
    <3>3. QED
      BY <1>1, <3>1, <3>2 DEF Store!Spoil
  <2>5. QED
    BY <1>1, <2>3, <2>4
<1>9. QED
  BY <1>1, <1>6, <1>7, <1>8 DEF Live

LEMMA ContainerStores ==
  ASSUME IInv, NEW p \in Invocations, ContainerWrites(p) \/ ContainerExits(p)
  PROVE  Slot' = Slot /\ UNCHANGED answer
<1>1. /\ orphans # {}
      /\ UNCHANGED <<pc, manifest, answer>>
  BY DEF ContainerWrites, ContainerExits
<1>2. manifest.status \in {"running", "failed"}
  BY <1>1 DEF IInv, OrphanInv
<1>3. /\ manifest.status # "complete" /\ manifest'.status # "complete"
      /\ ~DirEmpty /\ ~DirEmpty'
  BY <1>1, <1>2 DEF DirEmpty, NoManifest
<1>4. QED
  BY <1>1, <1>3, SlotKept

LEMMA StoreStep ==
  ASSUME IInv, TypeInv', [Next]_vars
  PROVE  [Store!StoreNext]_(Store!storeVars)
<1>1. ASSUME NEW p \in Invocations, Start(p) \/ Step(p)
      PROVE  [Store!StoreNext]_(Store!storeVars)
  <2>1. CASE Start(p) \/ ResumeHit(p) \/ ResumeMiss(p) \/ Refuse(p)
    BY <2>1, LookStores DEF Store!StoreNext, Store!storeVars
  <2>2. CASE Begin(p)
    BY <1>1, <2>2, BeginStores DEF Store!storeVars
  <2>3. CASE Stage(p)
    BY <2>3, StageStores DEF Store!StoreNext, Store!storeVars
  <2>4. CASE Publish(p)
    BY <2>4, PublishStores DEF Store!StoreNext, Store!storeVars
  <2>5. CASE PublishLost(p)
    BY <2>5, NotLost DEF PublishLost
  <2>6. CASE \/ WriteInput(p) \/ RunBuiltin(p) \/ RunExternal(p) \/ RunAborted(p)
             \/ RunRaises(p) \/ WriteResults(p) \/ LoadRelations(p) \/ BuildIR(p)
             \/ WriteDerived(p) \/ ValidateStructure(p) \/ BuildIndex(p)
    BY <2>6, WorkStores DEF Store!storeVars
  <2>7. QED
    BY <1>1, <2>1, <2>2, <2>3, <2>4, <2>5, <2>6 DEF Step
<1>2. ASSUME NEW p \in Invocations, Crash(p)
      PROVE  [Store!StoreNext]_(Store!storeVars)
  BY <1>2, CrashStores DEF Store!StoreNext, Store!storeVars
<1>3. ASSUME NEW p \in Invocations, ContainerWrites(p) \/ ContainerExits(p)
      PROVE  [Store!StoreNext]_(Store!storeVars)
  BY <1>3, ContainerStores DEF Store!storeVars
<1>4. CASE AllEnded \/ UNCHANGED vars
  <2>1. UNCHANGED vars
    BY <1>4 DEF AllEnded
  <2>2. Slot' = Slot /\ UNCHANGED answer
    BY <2>1 DEF vars, Slot, DirEmpty
  <2>3. QED
    BY <2>2 DEF Store!storeVars
<1>5. QED
  BY <1>1, <1>2, <1>3, <1>4 DEF Next

(* Calls that claim atomically treat the directory as a RunStore: claimed  *)
(* once, then sealed with the one result every later call is served, or    *)
(* spoiled for good.                                                       *)
THEOREM PipelineImplementsRunStore ==
  ASSUME AtomicClaim
  PROVE  Spec => RunStoreSpec
<1>1. IInv /\ IInv' /\ [Next]_vars => [Store!StoreNext]_(Store!storeVars)
  BY StoreStep DEF IInv
<1>2. QED
  BY <1>1, StoreInitial, IInvAlways, PTL DEF Spec, RunStoreSpec, Store!StoreSpec

(* What the store promises holds of the directory: two calls that return   *)
(* anything return the same contract, and asked for the same identity.     *)
THEOREM AnswersAgree ==
  ASSUME AtomicClaim
  PROVE  Spec => []( \A p, q \in Invocations :
                       answer[p] # NoFile /\ answer[q] # NoFile
                         => answer[p] = answer[q] /\ req[p].id = req[q].id )
<1>1. AnswerIsMine
        => \A p, q \in Invocations :
             answer[p] # NoFile /\ answer[q] # NoFile
               => answer[p] = answer[q] /\ req[p].id = req[q].id
  BY DEF AnswerIsMine
<1>2. QED
  BY <1>1, AnswersAreMine, PTL

-----------------------------------------------------------------------------
(* What is left of liveness without fairness: calls cannot go in circles,  *)
(* and a sound run cannot be turned away.                                  *)

(* Steps a call can still take, at most: it passes through "stage" and     *)
(* "publish" once to say that it runs and once to say how it ended.        *)
PhasesLeft ==
  [idle |-> 25, resume |-> 24, empty |-> 23, stage |-> 22, publish |-> 21,
   input |-> 20, tool |-> 19, results |-> 18, relations |-> 17, build |-> 16,
   contract |-> 15, sol |-> 14, abi |-> 13, storage |-> 12, evidence |-> 11,
   structure |-> 10, report |-> 9, logs |-> 8, index |-> 7,
   returned |-> 0, refused |-> 0, raised |-> 0, crashed |-> 0]

StepsLeft(p) ==
  IF pc[p] \in Putting /\ draft[p].status # "running"
    THEN PhasesLeft[pc[p]] - 20
    ELSE PhasesLeft[pc[p]]

LEMMA StepsLeftType ==
  ASSUME TypeOK, NEW p \in Invocations
  PROVE  StepsLeft(p) \in 0..25 /\ (StepsLeft(p) = 0 <=> pc[p] \in Ended)
<1>1. pc[p] \in Phase
  BY DEF TypeOK
<1>2. QED
  BY <1>1 DEF StepsLeft, PhasesLeft, Phase, Checking, Working, Putting, Ended

(* A step of p that puts a manifest that does not say "running".           *)
LEMMA PutDescends ==
  ASSUME TypeOK, NEW p \in Invocations, pc[p] \in Working,
         NEW m, Put(p, m), m.status # "running"
  PROVE  StepsLeft(p)' < StepsLeft(p)
<1>1. pc'[p] = "stage" /\ draft'[p] = m
  BY DEF Put, Goto, TypeOK
<1>2. StepsLeft(p)' = 2
  BY <1>1 DEF StepsLeft, PhasesLeft, Putting
<1>3. QED
  BY <1>2 DEF StepsLeft, PhasesLeft, Working, Putting

LEMMA StepDescends ==
  ASSUME TypeOK, NEW p \in Invocations, Start(p) \/ Step(p) \/ Crash(p)
  PROVE  StepsLeft(p)' < StepsLeft(p)
<1>1. pc \in [Invocations -> Phase] /\ draft \in [Invocations -> Manifests]
  BY DEF TypeOK
<1>2. ASSUME NEW phase, pc[p] \notin Putting, phase \notin Putting, Goto(p, phase),
             PhasesLeft[phase] < PhasesLeft[pc[p]]
      PROVE  StepsLeft(p)' < StepsLeft(p)
  BY <1>1, <1>2 DEF Goto, StepsLeft
<1>3. CASE Start(p) \/ ResumeHit(p) \/ ResumeMiss(p) \/ Refuse(p)
  <2>1. CASE Start(p)
    BY <1>1, <2>1 DEF Start, Goto, StepsLeft, PhasesLeft, Putting
  <2>2. CASE ResumeHit(p) \/ ResumeMiss(p) \/ Refuse(p)
    BY <1>1, <2>2 DEF ResumeHit, ResumeMiss, Refuse, Goto, StepsLeft, PhasesLeft, Putting
  <2>3. QED
    BY <1>3, <2>1, <2>2
<1>4. CASE Begin(p)
  BY <1>1, <1>4 DEF Begin, Put, Goto, Running, StepsLeft, PhasesLeft, Putting
<1>5. CASE Stage(p)
  BY <1>1, <1>5 DEF Stage, Goto, StepsLeft, PhasesLeft, Putting
<1>6. CASE Publish(p) \/ PublishLost(p)
  <2>1. /\ pc[p] = "publish" /\ UNCHANGED draft
        /\ \/ draft[p].status = "running" /\ pc'[p] = "input"
           \/ pc'[p] \in {"raised", "returned"}
    BY <1>1, <1>6 DEF Publish, PublishLost, Goto
  <2>2. QED
    BY <2>1 DEF StepsLeft, PhasesLeft, Putting
<1>7. CASE WriteInput(p) \/ RunBuiltin(p) \/ RunExternal(p) \/ RunAborted(p)
  BY <1>1, <1>7 DEF WriteInput, RunBuiltin, RunExternal, RunAborted, ToolReturns,
     Goto, StepsLeft, PhasesLeft, Putting
<1>8. CASE \/ RunRaises(p) \/ BuildIndex(p)
           \/ (WriteResults(p) \/ LoadRelations(p) \/ BuildIR(p) \/ ValidateStructure(p))
                /\ Fail(p)
  <2>1. pc[p] \in Working
    BY <1>8 DEF RunRaises, BuildIndex, WriteResults, LoadRelations, BuildIR,
       ValidateStructure, Working
  <2>2. CASE BuildIndex(p)
    BY <2>1, <2>2, PutDescends DEF BuildIndex, Complete
  <2>3. CASE Fail(p)
    BY <2>1, <2>3, PutDescends DEF Fail, Failed
  <2>4. QED
    BY <1>8, <2>2, <2>3 DEF RunRaises
<1>9. CASE /\ WriteResults(p) \/ LoadRelations(p) \/ BuildIR(p) \/ ValidateStructure(p)
           /\ ~Fail(p)
  <2>1. \/ pc[p] = "results" /\ Goto(p, "relations")
        \/ pc[p] = "relations" /\ Goto(p, "build")
        \/ pc[p] = "build" /\ Goto(p, "contract")
        \/ pc[p] = "structure" /\ Goto(p, "report")
    BY <1>9 DEF WriteResults, LoadRelations, BuildIR, ValidateStructure
  <2>2. QED
    BY <1>2, <2>1 DEF PhasesLeft, Putting
<1>10. CASE WriteDerived(p)
  <2>1. pc[p] \in DOMAIN AfterWrite /\ Goto(p, AfterWrite[pc[p]])
    BY <1>10 DEF WriteDerived
  <2>2. /\ pc[p] \notin Putting /\ AfterWrite[pc[p]] \notin Putting
        /\ PhasesLeft[AfterWrite[pc[p]]] < PhasesLeft[pc[p]]
    BY <2>1 DEF AfterWrite, PhasesLeft, Putting
  <2>3. QED
    BY <1>2, <2>1, <2>2
<1>11. CASE Crash(p)
  <2>1. pc'[p] = "crashed" /\ pc[p] \in Checking \cup Working \cup Putting
    BY <1>1, <1>11 DEF Crash, Live, Goto
  <2>2. StepsLeft(p)' = 0
    BY <2>1 DEF StepsLeft, PhasesLeft, Putting
  <2>3. StepsLeft(p) > 0
    BY <2>1 DEF StepsLeft, PhasesLeft, Checking, Working, Putting
  <2>4. QED
    BY <2>2, <2>3
<1>12. QED
  BY <1>3, <1>4, <1>5, <1>6, <1>7, <1>8, <1>9, <1>10, <1>11 DEF Step

(* A step of one call leaves what the others know of themselves.           *)
LEMMA OthersStand ==
  ASSUME TypeOK, NEW q \in Invocations, Start(q) \/ Step(q) \/ Crash(q),
         NEW p \in Invocations, p # q
  PROVE  pc'[p] = pc[p] /\ draft'[p] = draft[p] /\ tool'[p] = tool[p]
<1>1. /\ \E phase : pc' = [pc EXCEPT ![q] = phase]
      /\ draft' = draft \/ \E m : draft' = [draft EXCEPT ![q] = m]
      /\ tool' = tool \/ \E t : tool' = [tool EXCEPT ![q] = t]
  <2>1. CASE Start(q) \/ Crash(q)
    BY <2>1 DEF Start, Crash, Goto
  <2>2. CASE Step(q)
    BY <2>2 DEF Step, ResumeHit, ResumeMiss, Refuse, Begin, Stage, Publish,
       PublishLost, WriteInput, RunBuiltin, RunExternal, RunAborted, RunRaises,
       WriteResults, LoadRelations, BuildIR, WriteDerived, ValidateStructure,
       BuildIndex, ToolReturns, Fail, Put, Goto
  <2>3. QED
    BY <2>1, <2>2
<1>2. QED
  BY <1>1 DEF TypeOK

(* In any overlap of calls, each step of a call brings it closer to its    *)
(* end, and no step of another call, nor of a container, sets it back: it  *)
(* takes 25 steps at most (decompile has no loop, and nobody rolls back    *)
(* what another call believes of itself).                                  *)
CallsDescend ==
  [][ \A p \in Invocations :
        /\ Start(p) \/ Step(p) \/ Crash(p) => StepsLeft(p)' < StepsLeft(p)
        /\ ~(Start(p) \/ Step(p) \/ Crash(p)) => StepsLeft(p)' = StepsLeft(p) ]_vars

THEOREM CallsAreBounded == Spec => CallsDescend
<1>1. ASSUME TypeOK, Next, NEW p \in Invocations, ~(Start(p) \/ Step(p) \/ Crash(p))
      PROVE  StepsLeft(p)' = StepsLeft(p)
  <2>1. ASSUME NEW q \in Invocations, Start(q) \/ Step(q) \/ Crash(q)
        PROVE  pc'[p] = pc[p] /\ draft'[p] = draft[p]
    BY <1>1, <2>1, OthersStand
  <2>2. CASE \E q \in Invocations : Start(q) \/ Step(q) \/ Crash(q)
    BY <2>1, <2>2 DEF StepsLeft
  <2>3. CASE (\E q \in Invocations : ContainerWrites(q) \/ ContainerExits(q)) \/ AllEnded
    BY <2>3 DEF ContainerWrites, ContainerExits, AllEnded, vars, StepsLeft
  <2>4. QED
    BY <1>1, <2>2, <2>3 DEF Next
<1>2. TypeOK /\ [Next]_vars =>
        [ \A p \in Invocations :
            /\ Start(p) \/ Step(p) \/ Crash(p) => StepsLeft(p)' < StepsLeft(p)
            /\ ~(Start(p) \/ Step(p) \/ Crash(p)) => StepsLeft(p)' = StepsLeft(p) ]_vars
  BY <1>1, StepDescends
<1>3. QED
  BY <1>2, TypeCorrect, PTL DEF Spec, CallsDescend

(* A call that has loaded sound relations, on its way to a complete        *)
(* manifest.                                                               *)
Promising(p) ==
  /\ tool[p].quality = "sound"
  /\ \/ pc[p] \in Working \ {"input", "tool", "results", "relations"}
     \/ pc[p] \in Putting /\ draft[p].status = "complete"
     \/ pc[p] = "returned"

(* Nothing but its own death takes such a call off its way: no later       *)
(* check refuses it, and no other call takes its temporary file            *)
(* (decompile.py:319-426).                                                 *)
PromiseKept ==
  [][ \A p \in Invocations :
        Promising(p) => Promising(p)' \/ pc'[p] = "crashed" ]_vars

LEMMA PromiseStep ==
  ASSUME IInv, NEW p \in Invocations, Promising(p), Step(p)
  PROVE  Promising(p)'
<1>1. /\ pc \in [Invocations -> Phase]
      /\ tool[p].quality = "sound"
      /\ \/ pc[p] \in Working \ {"input", "tool", "results", "relations"}
         \/ pc[p] \in Putting /\ draft[p].status = "complete"
         \/ pc[p] = "returned"
  BY DEF IInv, TypeInv, TypeOK, Promising
<1>2. ~(ResumeHit(p) \/ ResumeMiss(p) \/ Refuse(p) \/ Begin(p) \/ WriteInput(p)
          \/ RunBuiltin(p) \/ RunExternal(p) \/ RunAborted(p) \/ RunRaises(p)
          \/ WriteResults(p) \/ LoadRelations(p))
  BY <1>1 DEF ResumeHit, ResumeMiss, Refuse, Begin, WriteInput, RunBuiltin,
     RunExternal, RunAborted, RunRaises, WriteResults, LoadRelations, Working, Putting
<1>3. CASE Stage(p)
  BY <1>1, <1>3 DEF Stage, Goto, Promising, Working, Putting
<1>4. CASE Publish(p)
  <2>1. draft[p].status = "complete"
    BY <1>1, <1>4 DEF Publish, Working
  <2>2. pc'[p] = "returned" /\ UNCHANGED tool
    BY <1>1, <1>4, <2>1 DEF Publish, Goto
  <2>3. QED
    BY <1>1, <2>2 DEF Promising
<1>5. CASE PublishLost(p)
  BY <1>5, NotLost DEF PublishLost
<1>6. CASE BuildIR(p) \/ ValidateStructure(p)
  BY <1>1, <1>6 DEF BuildIR, ValidateStructure, Goto, Promising, Working
<1>7. CASE WriteDerived(p)
  <2>1. /\ AfterWrite[pc[p]] \in Working \ {"input", "tool", "results", "relations"}
        /\ pc'[p] = AfterWrite[pc[p]] /\ UNCHANGED tool
    BY <1>1, <1>7 DEF WriteDerived, AfterWrite, Working, Goto
  <2>2. QED
    BY <1>1, <2>1 DEF Promising
<1>8. CASE BuildIndex(p)
  <2>1. draft \in [Invocations -> Manifests]
    BY DEF IInv, TypeInv, TypeOK
  <2>2. pc'[p] = "stage" /\ draft'[p].status = "complete" /\ UNCHANGED tool
    BY <1>1, <1>8, <2>1 DEF BuildIndex, Put, Goto, Complete
  <2>3. QED
    BY <1>1, <2>2 DEF Promising, Putting
<1>9. QED
  BY <1>2, <1>3, <1>4, <1>5, <1>6, <1>7, <1>8 DEF Step

THEOREM SoundRunsKeepTheirPromise ==
  ASSUME AtomicClaim
  PROVE  Spec => PromiseKept
<1>1. ASSUME IInv, Next, NEW p \in Invocations, Promising(p)
      PROVE  Promising(p)' \/ pc'[p] = "crashed"
  <2>1. CASE Step(p)
    BY <1>1, <2>1, PromiseStep
  <2>2. CASE Crash(p)
    <3>1. pc'[p] = "crashed"
      BY <1>1, <2>2 DEF Crash, Goto, IInv, TypeInv, TypeOK
    <3>2. QED
      BY <3>1
  <2>3. CASE Start(p)
    BY <1>1, <2>3 DEF Start, Promising, Working, Putting
  <2>4. ASSUME NEW q \in Invocations, q # p, Start(q) \/ Step(q) \/ Crash(q)
        PROVE  pc'[p] = pc[p] /\ draft'[p] = draft[p] /\ tool'[p] = tool[p]
    BY <1>1, <2>4, OthersStand DEF IInv, TypeInv
  <2>5. CASE \E q \in Invocations : q # p /\ (Start(q) \/ Step(q) \/ Crash(q))
    BY <1>1, <2>4, <2>5 DEF Promising
  <2>6. CASE (\E q \in Invocations : ContainerWrites(q) \/ ContainerExits(q)) \/ AllEnded
    BY <1>1, <2>6 DEF ContainerWrites, ContainerExits, AllEnded, vars, Promising
  <2>7. QED
    BY <1>1, <2>1, <2>2, <2>3, <2>5, <2>6 DEF Next
<1>2. IInv /\ [Next]_vars =>
        [ \A p \in Invocations :
            Promising(p) => Promising(p)' \/ pc'[p] = "crashed" ]_vars
  BY <1>1
<1>3. QED
  BY <1>2, IInvAlways, PTL DEF Spec, PromiseKept

=============================================================================
