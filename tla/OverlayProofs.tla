---------------------------- MODULE OverlayProofs ----------------------------
(***************************************************************************)
(* Proofs about Overlay, for any sets of calls, proposals and releases.    *)
(***************************************************************************)
EXTENDS Overlay, TLAPS

(* A call is only where its command can take it.                           *)
Applying == {"stage", "publish", "hash"}
Redoing  == {"open_canonical", "fill_canonical"}

OpInv ==
  \A c \in Calls :
    /\ pc[c] \in Applying => req[c].op = "apply"
    /\ pc[c] \in Redoing => req[c].op = "render"

TypeInv == TypeOK /\ OpInv

-----------------------------------------------------------------------------
(* Types.                                                                  *)

LEMMA RequestType ==
  ASSUME NEW r \in Requests
  PROVE  /\ r.op \in {"apply", "agent_render", "render"}
         /\ r.op = "apply" => r.proposal \in Proposals
         /\ r.op = "render" => r.release \in Releases
  BY DEF Requests

LEMMA TypeInit == Init => TypeInv
<1> SUFFICES ASSUME Init
             PROVE  TypeInv
  OBVIOUS
<1>1. TypeOK
  BY ReleasesAssumption, BoundsAssumption
     DEF Init, TypeOK, JsonFiles, AgentFiles, JsonBytes, Manifests, Rendered
<1>2. OpInv
  BY DEF Init, OpInv, Applying, Redoing
<1>3. QED
  BY <1>1, <1>2 DEF TypeInv

(* A step that changes nothing but where a call stands.                    *)
LEMMA MoveType ==
  ASSUME TypeInv, NEW c \in Calls,
         NEW phase \in {"idle"} \cup Reading \cup Writing \cup Ended,
         phase \in Applying => req[c].op = "apply",
         phase \in Redoing => req[c].op = "render",
         Goto(c, phase),
         UNCHANGED <<req, file, binds, loaded, canonical, agent, tmps, edits>>
  PROVE  TypeInv'
<1>1. TypeOK'
  BY DEF Goto, TypeInv, TypeOK
<1>2. OpInv'
  BY DEF Goto, TypeInv, TypeOK, OpInv
<1>3. QED
  BY <1>1, <1>2 DEF TypeInv

LEMMA LookType ==
  ASSUME TypeInv, NEW c \in Calls,
         \/ Start(c) \/ Check(c) \/ PublishLost(c) \/ Reply(c)
         \/ Compare(c) \/ Revalidate(c) \/ Recheck(c)
  PROVE  TypeInv'
<1>1. UNCHANGED <<req, file, binds, loaded, canonical, agent, tmps, edits>>
  BY DEF Start, Check, PublishLost, Reply, Compare, Revalidate, Recheck
<1>2. CASE Check(c)
  <2>1. req[c].op \in {"apply", "agent_render", "render"}
    BY RequestType DEF TypeInv, TypeOK
  <2>2. \/ Goto(c, "raised")
        \/ Goto(c, "read_manifest")
        \/ req[c].op = "apply" /\ Goto(c, "stage")
        \/ req[c].op = "render" /\ Goto(c, "open_canonical")
    <3>1. FirstStep["apply"] = "stage" /\ FirstStep["render"] = "open_canonical"
      BY DEF FirstStep
    <3>2. QED
      BY <1>2, <2>1, <3>1 DEF Check, Raise
  <2>3. QED
    BY <1>1, <2>2, MoveType DEF Reading, Writing, Ended, Applying, Redoing
<1>3. CASE \/ Start(c) \/ PublishLost(c) \/ Reply(c)
           \/ Compare(c) \/ Revalidate(c) \/ Recheck(c)
  <2>1. \/ Goto(c, "check") \/ Goto(c, "raised") \/ Goto(c, "returned")
        \/ Goto(c, "revalidate") \/ Goto(c, "open_sol") \/ Goto(c, "open_report")
    BY <1>3 DEF Start, PublishLost, Reply, Compare, Revalidate, Recheck, Raise
  <2>2. QED
    BY <1>1, <2>1, MoveType DEF Reading, Writing, Ended, Applying, Redoing
<1>4. QED
  BY <1>2, <1>3

LEMMA StageType ==
  ASSUME TypeInv, NEW c \in Calls, Stage(c)
  PROVE  TypeInv'
<1>1. /\ pc[c] = "stage" /\ req[c].op = "apply"
      /\ req[c].proposal \in Proposals
  BY RequestType DEF Stage, TypeInv, TypeOK, OpInv, Applying
<1>2. /\ file[c] = "manifest" => Content(c) \in Manifests
      /\ file[c] # "manifest" => Content(c) \in JsonBytes
  BY <1>1 DEF Content, Manifests, JsonBytes, Texts, TypeInv, TypeOK
<1>3. TypeOK'
  BY <1>2 DEF Stage, Goto, TypeInv, TypeOK, JsonFiles, Writing
<1>4. OpInv'
  BY <1>1 DEF Stage, Goto, TypeInv, TypeOK, OpInv, Redoing
<1>5. QED
  BY <1>3, <1>4 DEF TypeInv

LEMMA PublishType ==
  ASSUME TypeInv, NEW c \in Calls, Publish(c)
  PROVE  TypeInv'
<1>1. pc[c] = "publish" /\ req[c].op = "apply"
  BY DEF Publish, TypeInv, OpInv, Applying
<1>2. /\ pc' \in [Calls -> {"idle"} \cup Reading \cup Writing \cup Ended]
      /\ file' \in [Calls -> JsonFiles]
  BY DEF Publish, Goto, TypeInv, TypeOK, JsonFiles, Writing
<1>3. /\ agent' \in [AgentFiles -> Rendered \cup Manifests]
      /\ \A f \in {"proposal", "annotations"} : agent'[f] \in JsonBytes
      /\ agent'["manifest"] \in Manifests
      /\ \A f \in {"sol", "report"} : agent'[f] \in Rendered
  <2>1. /\ file[c] \in JsonFiles
        /\ JsonFiles \subseteq AgentFiles /\ {"sol", "report"} \cap JsonFiles = {}
        /\ JsonBytes \subseteq Rendered
    BY DEF TypeInv, TypeOK, JsonFiles, AgentFiles, JsonBytes, Rendered
  <2>2. agent' = [agent EXCEPT ![file[c]] = tmps[file[c]]]
    BY DEF Publish
  <2>3. QED
    BY <2>1, <2>2 DEF TypeInv, TypeOK, JsonFiles, AgentFiles
<1>4. /\ tmps' \in [JsonFiles -> JsonBytes \cup Manifests]
      /\ \A f \in {"proposal", "annotations"} : tmps'[f] \in JsonBytes
      /\ tmps'["manifest"] \in Manifests
  BY DEF Publish, TypeInv, TypeOK, JsonFiles, JsonBytes, Manifests
<1>5. TypeOK'
  BY <1>2, <1>3, <1>4 DEF Publish, TypeInv, TypeOK
<1>6. OpInv'
  BY <1>1 DEF Publish, Goto, TypeInv, TypeOK, OpInv, Redoing
<1>7. QED
  BY <1>5, <1>6 DEF TypeInv

LEMMA ReadType ==
  ASSUME TypeInv, NEW c \in Calls,
         Hash(c) \/ ReadManifest(c) \/ ReadAnnotations(c)
  PROVE  TypeInv'
<1>1. CASE Hash(c)
  <2>1. req[c].op = "apply"
    BY <1>1 DEF Hash, TypeInv, OpInv, Applying
  <2>2. TypeOK'
    BY <1>1 DEF Hash, Goto, TypeInv, TypeOK, JsonFiles, Writing
  <2>3. OpInv'
    BY <1>1, <2>1 DEF Hash, Goto, TypeInv, TypeOK, OpInv, Redoing
  <2>4. QED
    BY <2>2, <2>3 DEF TypeInv
<1>2. CASE ReadManifest(c)
  <2>1. agent["manifest"].kind = "manifest" => agent["manifest"].sha \in JsonBytes
    BY DEF TypeInv, TypeOK, Manifests, NoFile, Truncated, Binding
  <2>2. TypeOK'
    BY <1>2, <2>1 DEF ReadManifest, Goto, Raise, TypeInv, TypeOK, Reading, Ended
  <2>3. OpInv'
    BY <1>2 DEF ReadManifest, Goto, Raise, TypeInv, TypeOK, OpInv, Applying, Redoing
  <2>4. QED
    BY <2>2, <2>3 DEF TypeInv
<1>3. CASE ReadAnnotations(c)
  <2>1. agent["annotations"].kind = "text" => agent["annotations"] \in Texts
    BY DEF TypeInv, TypeOK, JsonBytes, NoFile, Truncated
  <2>2. TypeOK'
    BY <1>3, <2>1 DEF ReadAnnotations, Goto, Raise, TypeInv, TypeOK, Reading, Ended
  <2>3. OpInv'
    BY <1>3 DEF ReadAnnotations, Goto, Raise, TypeInv, TypeOK, OpInv, Applying, Redoing
  <2>4. QED
    BY <2>2, <2>3 DEF TypeInv
<1>4. QED
  BY <1>1, <1>2, <1>3

LEMMA RenderType ==
  ASSUME TypeInv, NEW c \in Calls,
         \/ OpenSol(c) \/ FillSol(c) \/ OpenReport(c) \/ FillReport(c)
         \/ OpenCanonical(c) \/ FillCanonical(c)
  PROVE  TypeInv'
<1>1. \A f \in {"sol", "report"} : Filled(agent[f], loaded[c]) \subseteq Rendered
  BY DEF TypeInv, TypeOK, Filled, Rendered
<1>2. CASE OpenSol(c) \/ FillSol(c) \/ OpenReport(c) \/ FillReport(c)
  <2>1. /\ \E f \in {"sol", "report"}, b \in Rendered : agent' = [agent EXCEPT ![f] = b]
        /\ \E next \in {"fill_sol", "recheck", "fill_report", "reply"} : Goto(c, next)
        /\ UNCHANGED <<req, file, binds, loaded, canonical, tmps, edits>>
    BY <1>1, <1>2 DEF OpenSol, FillSol, OpenReport, FillReport, Open, Fill, Rendered
  <2>2. PICK f \in {"sol", "report"}, b \in Rendered : agent' = [agent EXCEPT ![f] = b]
    BY <2>1
  <2>3. /\ agent' \in [AgentFiles -> Rendered \cup Manifests]
        /\ \A g \in JsonFiles : agent'[g] = agent[g]
        /\ \A g \in {"sol", "report"} : agent'[g] \in Rendered
    BY <2>2 DEF TypeInv, TypeOK, AgentFiles, JsonFiles
  <2>4. pc' \in [Calls -> {"idle"} \cup Reading \cup Writing \cup Ended]
    BY <2>1 DEF Goto, TypeInv, TypeOK, Writing
  <2>5. TypeOK'
    BY <2>1, <2>3, <2>4 DEF TypeInv, TypeOK, JsonFiles
  <2>6. OpInv'
    BY <2>1 DEF Goto, TypeInv, TypeOK, OpInv, Applying, Redoing
  <2>7. QED
    BY <2>5, <2>6 DEF TypeInv
<1>3. CASE OpenCanonical(c) \/ FillCanonical(c)
  <2>1. req[c].op = "render" /\ req[c].release \in Releases
    BY <1>3, RequestType
       DEF OpenCanonical, FillCanonical, TypeInv, TypeOK, OpInv, Redoing
  <2>2. canonical' \in {Truncated, Mixed} \cup {Text(r) : r \in Releases}
    BY <1>3, <2>1 DEF OpenCanonical, FillCanonical, Filled
  <2>3. /\ \E next \in {"fill_canonical", "reply"} : Goto(c, next)
        /\ UNCHANGED <<req, file, binds, loaded, agent, tmps, edits>>
    BY <1>3 DEF OpenCanonical, FillCanonical
  <2>4. TypeOK'
    BY <2>2, <2>3 DEF Goto, TypeInv, TypeOK, Writing
  <2>5. OpInv'
    BY <2>1, <2>3 DEF Goto, TypeInv, TypeOK, OpInv, Applying
  <2>6. QED
    BY <2>4, <2>5 DEF TypeInv
<1>4. QED
  BY <1>2, <1>3

LEMMA CrashType ==
  ASSUME TypeInv, NEW c \in Calls, Crash(c)
  PROVE  TypeInv'
<1>1. /\ tmps' \in [JsonFiles -> JsonBytes \cup Manifests]
      /\ \A f \in {"proposal", "annotations"} : tmps'[f] \in JsonBytes
      /\ tmps'["manifest"] \in Manifests
  BY DEF Crash, TypeInv, TypeOK, JsonFiles, JsonBytes, Manifests
<1>2. TypeOK'
  BY <1>1 DEF Crash, Goto, TypeInv, TypeOK, Ended
<1>3. OpInv'
  BY DEF Crash, Goto, TypeInv, TypeOK, OpInv, Applying, Redoing
<1>4. QED
  BY <1>2, <1>3 DEF TypeInv

LEMMA EditType ==
  ASSUME TypeInv, NEW a \in Proposals, Edit(a)
  PROVE  TypeInv'
<1>1. Text(a) \in JsonBytes /\ Text(a) \in Rendered
  BY DEF JsonBytes, Rendered, Texts
<1>2. edits' \in 0..MaxEdits
  BY BoundsAssumption DEF Edit, TypeInv, TypeOK
<1>3. TypeOK'
  BY <1>1, <1>2 DEF Edit, TypeInv, TypeOK, AgentFiles, JsonFiles
<1>4. OpInv'
  BY DEF Edit, TypeInv, OpInv
<1>5. QED
  BY <1>3, <1>4 DEF TypeInv

LEMMA TypeStep == TypeInv /\ [Next]_vars => TypeInv'
<1> SUFFICES ASSUME TypeInv, [Next]_vars
             PROVE  TypeInv'
  OBVIOUS
<1>1. ASSUME NEW c \in Calls, Start(c) \/ Step(c)
      PROVE  TypeInv'
  BY <1>1, LookType, StageType, PublishType, ReadType, RenderType DEF Step
<1>2. ASSUME NEW c \in Calls, Crash(c)
      PROVE  TypeInv'
  BY <1>2, CrashType
<1>3. ASSUME NEW a \in Proposals, Edit(a)
      PROVE  TypeInv'
  BY <1>3, EditType
<1>4. CASE AllEnded \/ UNCHANGED vars
  BY <1>4 DEF AllEnded, vars, TypeInv, TypeOK, OpInv
<1>5. QED
  BY <1>1, <1>2, <1>3, <1>4 DEF Next

LEMMA TypeAlways == Spec => []TypeInv
  BY TypeInit, TypeStep, PTL DEF Spec

(* Every variable keeps its type, whatever overlaps or dies.               *)
THEOREM TypeCorrect == Spec => []TypeOK
  BY TypeAlways, PTL DEF TypeInv

-----------------------------------------------------------------------------
(* Only grounded proposals are rendered.                                   *)

Showing == {"open_sol", "fill_sol", "recheck", "open_report", "fill_report"}

(* RenderedIsGrounded is inductive once the proposal a rendering call      *)
(* carries is known to have been validated.                                *)
GroundInv ==
  /\ TypeInv
  /\ \A c \in Calls : pc[c] \in {"compare", "revalidate"} => loaded[c] \in Texts
  /\ \A c \in Calls : pc[c] \in Showing => loaded[c] \in Texts /\ loaded[c].of \in Grounded
  /\ RenderedIsGrounded

LEMMA GroundInit == Init => GroundInv
  BY TypeInit DEF Init, GroundInv, RenderedIsGrounded, Showing, NoFile, AgentFiles

(* A step that writes neither rendered file and takes no call to where it  *)
(* shows what it has loaded.                                               *)
LEMMA GroundKept ==
  ASSUME GroundInv, TypeInv', UNCHANGED loaded,
         \A f \in {"sol", "report"} : agent'[f] = agent[f],
         \A c \in Calls : pc'[c] \in Showing \cup {"compare", "revalidate"} =>
           \/ pc'[c] = pc[c]
           \/ pc[c] \in Showing /\ pc'[c] \in Showing
           \/ pc[c] = "compare" /\ pc'[c] = "revalidate"
           \/ pc[c] = "revalidate" /\ pc'[c] = "open_sol" /\ loaded[c].of \in Grounded
  PROVE  GroundInv'
  BY DEF GroundInv, RenderedIsGrounded, Showing

LEMMA GroundFile ==
  ASSUME GroundInv, NEW c \in Calls, pc[c] \in Showing,
         NEW f \in {"sol", "report"}, NEW bytes \in {Truncated} \cup Filled(agent[f], loaded[c])
  PROVE  bytes.kind = "text" => bytes.of \in Grounded
  BY DEF GroundInv, Filled, Truncated, Mixed, Texts, Text

LEMMA GroundStep == GroundInv /\ [Next]_vars => GroundInv'
<1> SUFFICES ASSUME GroundInv, [Next]_vars
             PROVE  GroundInv'
  OBVIOUS
<1>1. TypeInv'
  BY TypeStep DEF GroundInv
<1>2. /\ pc \in [Calls -> {"idle"} \cup Reading \cup Writing \cup Ended]
      /\ agent \in [AgentFiles -> Rendered \cup Manifests]
      /\ loaded \in [Calls -> {NoFile} \cup Texts]
  BY DEF GroundInv, TypeInv, TypeOK
<1>3. ASSUME NEW c \in Calls,
             \/ Start(c) \/ Check(c) \/ Reply(c) \/ PublishLost(c) \/ Compare(c)
             \/ Revalidate(c) \/ Recheck(c) \/ Crash(c)
      PROVE  GroundInv'
  <2>1. UNCHANGED <<loaded, agent>>
    BY <1>3 DEF Start, Check, Reply, PublishLost, Compare, Revalidate, Recheck, Crash
  <2>2. \E phase : pc' = [pc EXCEPT ![c] = phase]
    BY <1>3 DEF Start, Check, Reply, PublishLost, Compare, Revalidate, Recheck,
       Crash, Goto, Raise
  <2>3. \A d \in Calls : d # c => pc'[d] = pc[d]
    BY <1>2, <2>2
  <2>4. \/ pc'[c] \notin Showing \cup {"compare", "revalidate"}
        \/ pc[c] = "compare" /\ pc'[c] = "revalidate"
        \/ pc[c] = "revalidate" /\ pc'[c] = "open_sol" /\ loaded[c].of \in Grounded
        \/ pc[c] = "recheck" /\ pc'[c] = "open_report"
    <3>1. FirstStep["apply"] = "stage" /\ FirstStep["render"] = "open_canonical"
      BY DEF FirstStep
    <3>2. req[c].op \in {"apply", "agent_render", "render"}
      BY RequestType DEF GroundInv, TypeInv, TypeOK
    <3>3. CASE Check(c)
      BY <1>2, <3>1, <3>2, <3>3 DEF Check, Goto, Raise, Showing
    <3>4. CASE ~Check(c)
      BY <1>2, <1>3, <3>4 DEF Start, Reply, PublishLost, Compare, Revalidate,
         Recheck, Crash, Goto, Raise, Showing
    <3>5. QED
      BY <3>3, <3>4
  <2>5. QED
    BY <1>1, <2>1, <2>3, <2>4, GroundKept DEF Showing
<1>4. ASSUME NEW c \in Calls,
             \/ Stage(c) \/ Publish(c) \/ Hash(c) \/ ReadManifest(c)
             \/ OpenCanonical(c) \/ FillCanonical(c)
      PROVE  GroundInv'
  <2>1. UNCHANGED loaded /\ \A f \in {"sol", "report"} : agent'[f] = agent[f]
    BY <1>2, <1>4 DEF Stage, Publish, Hash, ReadManifest, OpenCanonical,
       FillCanonical, AgentFiles, GroundInv, TypeInv, TypeOK, JsonFiles
  <2>2. \A d \in Calls : d # c => pc'[d] = pc[d]
    BY <1>2, <1>4 DEF Stage, Publish, Hash, ReadManifest, OpenCanonical,
       FillCanonical, Goto, Raise
  <2>3. pc'[c] \notin Showing \cup {"compare", "revalidate"}
    BY <1>2, <1>4 DEF Stage, Publish, Hash, ReadManifest, OpenCanonical,
       FillCanonical, Goto, Raise, Showing
  <2>4. QED
    BY <1>1, <2>1, <2>2, <2>3, GroundKept
<1>5. ASSUME NEW c \in Calls, ReadAnnotations(c)
      PROVE  GroundInv'
  <2>1. UNCHANGED agent
    BY <1>5 DEF ReadAnnotations
  <2>2. \A d \in Calls : d # c => pc'[d] = pc[d] /\ loaded'[d] = loaded[d]
    BY <1>2, <1>5 DEF ReadAnnotations, Goto, Raise
  <2>3. /\ pc'[c] \in {"compare", "raised"}
        /\ pc'[c] = "compare" => loaded'[c] \in Texts
    <3>1. agent["annotations"].kind = "text" => agent["annotations"] \in Texts
      BY DEF GroundInv, TypeInv, TypeOK, JsonBytes, NoFile, Truncated
    <3>2. QED
      BY <1>2, <1>5, <3>1 DEF ReadAnnotations, Goto, Raise
  <2>4. QED
    BY <1>1, <2>1, <2>2, <2>3 DEF GroundInv, RenderedIsGrounded, Showing
<1>6. ASSUME NEW c \in Calls,
             OpenSol(c) \/ FillSol(c) \/ OpenReport(c) \/ FillReport(c)
      PROVE  GroundInv'
  <2>1. pc[c] \in Showing
    BY <1>6 DEF OpenSol, FillSol, OpenReport, FillReport, Showing
  <2>2. PICK f \in {"sol", "report"} :
          \E bytes \in {Truncated} \cup Filled(agent[f], loaded[c]) :
            agent' = [agent EXCEPT ![f] = bytes]
    BY <1>6 DEF OpenSol, FillSol, OpenReport, FillReport, Open, Fill
  <2> PICK bytes \in {Truncated} \cup Filled(agent[f], loaded[c]) :
        agent' = [agent EXCEPT ![f] = bytes]
    BY <2>2
  <2>3. bytes.kind = "text" => bytes.of \in Grounded
    BY <2>1, GroundFile
  <2>4. RenderedIsGrounded'
    BY <1>2, <2>3 DEF GroundInv, RenderedIsGrounded, AgentFiles
  <2>5. /\ UNCHANGED loaded
        /\ pc'[c] \in Showing \cup {"reply"}
        /\ \A d \in Calls : d # c => pc'[d] = pc[d]
    BY <1>2, <1>6 DEF OpenSol, FillSol, OpenReport, FillReport, Open, Fill, Goto, Showing
  <2>6. QED
    BY <1>1, <2>1, <2>4, <2>5 DEF GroundInv, Showing
<1>7. ASSUME NEW a \in Proposals, Edit(a)
      PROVE  GroundInv'
  BY <1>1, <1>2, <1>7, GroundKept DEF Edit, AgentFiles
<1>8. CASE AllEnded \/ UNCHANGED vars
  BY <1>1, <1>8, GroundKept DEF AllEnded, vars
<1>9. QED
  BY <1>3, <1>4, <1>5, <1>6, <1>7, <1>8 DEF Next, Step

(* agent render never writes out a proposal that the run does not support, *)
(* whatever else happens to annotations.json meanwhile.                    *)
THEOREM RenderedAreGrounded == Spec => []RenderedIsGrounded
<1>1. GroundInv => RenderedIsGrounded
  BY DEF GroundInv
<1>2. QED
  BY <1>1, GroundInit, GroundStep, PTL DEF Spec

-----------------------------------------------------------------------------
(* A run that validate_manifest refuses is left as it is.                  *)
THEOREM DeadRunsAreInert == Spec => DeadRunIsInert
<1>1. ASSUME TypeOK, [Next]_vars, Dead
      PROVE  Dead' /\ UNCHANGED <<canonical, tmps>> /\ (UNCHANGED agent \/ edits' # edits)
  <2>1. pc \in [Calls -> {"idle"} \cup Reading \cup Writing \cup Ended]
    BY <1>1 DEF TypeOK
  <2>2. ASSUME NEW c \in Calls, Start(c) \/ Step(c) \/ Crash(c)
        PROVE  /\ UNCHANGED <<canonical, tmps, agent>>
               /\ \E phase : phase \notin Writing /\ pc' = [pc EXCEPT ![c] = phase]
    <3>1. CASE Start(c) \/ Crash(c)
      BY <1>1, <3>1 DEF Dead, Start, Crash, Goto, Writing
    <3>2. CASE Check(c)
      BY <1>1, <3>2 DEF Dead, Check, Acceptable, Goto, Raise, Writing
    <3>3. CASE Step(c) /\ ~Check(c)
      BY <1>1, <3>3 DEF Dead, Step, Reply, Stage, Publish, PublishLost, Hash,
         ReadManifest, ReadAnnotations, Compare, Revalidate, OpenSol, FillSol,
         Recheck, OpenReport, FillReport, OpenCanonical, FillCanonical, Goto, Raise, Writing
    <3>4. QED
      BY <2>2, <3>1, <3>2, <3>3
  <2>3. ASSUME NEW c \in Calls, Start(c) \/ Step(c) \/ Crash(c)
        PROVE  Dead'
    BY <1>1, <2>1, <2>2, <2>3 DEF Dead, RunValid
  <2>4. ASSUME NEW a \in Proposals, Edit(a)
        PROVE  Dead' /\ UNCHANGED <<canonical, tmps>> /\ edits' # edits
    BY <1>1, <2>4, BoundsAssumption DEF Edit, TypeOK, Dead, RunValid
  <2>5. CASE AllEnded \/ UNCHANGED vars
    BY <1>1, <2>5 DEF AllEnded, vars, Dead, RunValid
  <2>6. QED
    BY <1>1, <2>2, <2>3, <2>4, <2>5 DEF Next
<1>2. QED
  BY <1>1, TypeCorrect, PTL DEF Spec, DeadRunIsInert

-----------------------------------------------------------------------------
(* Commands of which no apply overlaps another agent command implement     *)
(* OverlayStore.                                                           *)

Locked ==
  \A c, d \in Calls :
    c # d /\ Live(c) /\ Live(d) /\ req[c].op = "apply" => req[d].op = "render"

Loading == {"read_manifest", "read_annotations", "compare", "revalidate"}

(* What an apply has done when it stands at a given step.                  *)
ApplyOf(c) ==
  /\ pc[c] \in {"idle", "check"} => file[c] = "proposal"
  /\ pc[c] \in Applying \/ (pc[c] = "reply" /\ req[c].op = "apply") =>
       /\ req[c].proposal \in Grounded
       /\ pc[c] = "publish" => tmps[file[c]] = Content(c)
       /\ pc[c] = "hash" => agent["annotations"] = Text(req[c].proposal)
       /\ pc[c] \in {"stage", "publish"} /\ file[c] = "manifest" =>
            /\ agent["annotations"] = Text(req[c].proposal)
            /\ binds[c] = Text(req[c].proposal)
       /\ pc[c] = "reply" => Bound(req[c].proposal)

(* What an agent render has read.                                          *)
LoadOf(c) ==
  /\ pc[c] \in Loading \cup Showing => req[c].op = "agent_render"
  /\ pc[c] \in {"read_annotations", "compare"} => agent["manifest"] = Binding(binds[c])
  /\ pc[c] = "compare" => loaded[c] \in Texts /\ agent["annotations"] = loaded[c]
  /\ pc[c] \in {"revalidate"} \cup Showing \/ (pc[c] = "reply" /\ req[c].op = "agent_render") =>
       loaded[c] \in Texts /\ Bound(loaded[c].of)

(* A manifest in place, or about to be, binds a grounded proposal.         *)
BindInv ==
  \A b \in JsonBytes :
    agent["manifest"] = Binding(b) => \E a \in Grounded : b = Text(a)

BoundInv ==
  /\ TypeInv
  /\ Locked
  /\ \A c \in Calls : ApplyOf(c) /\ LoadOf(c)
  /\ BindInv

BoundSet == {a \in Proposals : Bound(a)}

LEMMA TextOf ==
  ASSUME NEW t \in Texts
  PROVE  t = Text(t.of) /\ t.of \in Proposals
<1>1. PICK a \in Proposals : t = Text(a)
  BY DEF Texts
<1>2. Text(a).of = a
  BY DEF Text
<1>3. QED
  BY <1>1, <1>2

LEMMA BoundInit == Init => BoundInv
<1> SUFFICES ASSUME Init
             PROVE  BoundInv
  OBVIOUS
<1>1. TypeInv
  BY TypeInit
<1>2. Locked /\ \A c \in Calls : ApplyOf(c) /\ LoadOf(c)
  BY DEF Init, Locked, Live, Reading, Writing, ApplyOf, LoadOf, Applying, Loading, Showing
<1>3. BindInv
  BY DEF Init, BindInv, NoFile, Binding, AgentFiles, JsonFiles
<1>4. QED
  BY <1>1, <1>2, <1>3 DEF BoundInv

(* The others stand still while c moves, and the lock is kept.             *)
LEMMA OneMoves ==
  ASSUME BoundInv, ApplyAlone, NEW c \in Calls, Start(c) \/ Step(c) \/ Crash(c)
  PROVE  /\ req' = req
         /\ \A d \in Calls : d # c =>
              /\ pc'[d] = pc[d] /\ file'[d] = file[d]
              /\ binds'[d] = binds[d] /\ loaded'[d] = loaded[d]
         /\ Locked'
<1>1. /\ pc \in [Calls -> {"idle"} \cup Reading \cup Writing \cup Ended]
      /\ req \in [Calls -> Requests]
      /\ file \in [Calls -> JsonFiles]
      /\ binds \in [Calls -> JsonBytes]
      /\ loaded \in [Calls -> {NoFile} \cup Texts]
  BY DEF BoundInv, TypeInv, TypeOK
<1>2. /\ req' = req
      /\ \E phase : pc' = [pc EXCEPT ![c] = phase]
      /\ file' = file \/ \E f : file' = [file EXCEPT ![c] = f]
      /\ binds' = binds \/ \E b : binds' = [binds EXCEPT ![c] = b]
      /\ loaded' = loaded \/ \E b : loaded' = [loaded EXCEPT ![c] = b]
  <2>1. CASE Start(c) \/ Crash(c)
    BY <2>1 DEF Start, Crash, Goto
  <2>2. CASE \/ Check(c) \/ Reply(c) \/ Stage(c) \/ Publish(c) \/ PublishLost(c)
             \/ Hash(c) \/ ReadManifest(c) \/ ReadAnnotations(c)
    BY <2>2 DEF Check, Reply, Stage, Publish, PublishLost, Hash,
       ReadManifest, ReadAnnotations, Goto, Raise
  <2>3. CASE \/ Compare(c) \/ Revalidate(c) \/ OpenSol(c) \/ FillSol(c) \/ Recheck(c)
             \/ OpenReport(c) \/ FillReport(c) \/ OpenCanonical(c) \/ FillCanonical(c)
    BY <2>3 DEF Compare, Revalidate, OpenSol, FillSol, Recheck, OpenReport,
       FillReport, OpenCanonical, FillCanonical, Open, Fill, Goto, Raise
  <2>4. QED
    BY <2>1, <2>2, <2>3 DEF Step
<1>3. \A d \in Calls : d # c =>
        /\ pc'[d] = pc[d] /\ file'[d] = file[d]
        /\ binds'[d] = binds[d] /\ loaded'[d] = loaded[d]
  BY <1>1, <1>2
<1>4. CASE Start(c)
  <2>1. ASSUME NEW d \in Calls, d # c, Live(d)
        PROVE  /\ req[c].op = "apply" => req[d].op = "render"
               /\ req[d].op = "apply" => req[c].op = "render"
    <3>1. /\ req[c].op \in {"apply", "agent_render", "render"}
          /\ req[d].op \in {"apply", "agent_render", "render"}
      BY <1>1, RequestType
    <3>2. QED
      BY <1>4, <2>1, <3>1 DEF Start, AgentCalls, Applies
  <2>2. QED
    BY <1>2, <1>3, <2>1 DEF BoundInv, Locked, Live
<1>5. CASE Step(c) \/ Crash(c)
  <2>1. Live(c)
    BY <1>5 DEF Step, Check, Reply, Stage, Publish, PublishLost, Hash,
       ReadManifest, ReadAnnotations, Compare, Revalidate, OpenSol, FillSol,
       Recheck, OpenReport, FillReport, OpenCanonical, FillCanonical, Crash,
       Live, Reading, Writing
  <2>2. QED
    BY <1>2, <1>3, <2>1 DEF BoundInv, Locked, Live
<1>6. QED
  BY <1>2, <1>3, <1>4, <1>5

(* A call that is over, or that only renders the contract, relies on       *)
(* nothing in agent/.                                                      *)
LEMMA Uninvolved ==
  ASSUME BoundInv, NEW d \in Calls, ~Live(d) \/ req[d].op = "render",
         req' = req, pc'[d] = pc[d], file'[d] = file[d]
  PROVE  ApplyOf(d)' /\ LoadOf(d)'
<1>1. /\ pc[d] \notin Applying \cup Loading \cup Showing
      /\ pc[d] = "reply" => req[d].op = "render"
  BY DEF Live, Reading, Writing, Applying, Loading, Showing, BoundInv, TypeInv,
     OpInv, LoadOf
<1>2. pc[d] \in {"idle", "check"} => file[d] = "proposal"
  BY DEF BoundInv, ApplyOf
<1>3. QED
  BY <1>1, <1>2 DEF ApplyOf, LoadOf, Loading

(* Only an apply touches what the others have read or rely on.             *)
LEMMA OthersRely ==
  ASSUME BoundInv, ApplyAlone, NEW c \in Calls, Start(c) \/ Step(c) \/ Crash(c),
         NEW d \in Calls, d # c
  PROVE  ApplyOf(d)' /\ LoadOf(d)'
<1>1. /\ req' = req
      /\ pc'[d] = pc[d] /\ file'[d] = file[d]
      /\ binds'[d] = binds[d] /\ loaded'[d] = loaded[d]
  BY OneMoves
<1>2. CASE pc[c] \in Applying
  <2>1. req[c].op = "apply" /\ Live(c)
    BY <1>2 DEF BoundInv, TypeInv, OpInv, Applying, Live, Writing
  <2>2. QED
    BY <1>1, <2>1, Uninvolved DEF BoundInv, Locked
<1>3. CASE pc[c] \notin Applying
  <2>1. /\ UNCHANGED tmps
        /\ \/ UNCHANGED agent
           \/ \E f \in {"sol", "report"} : \E b : agent' = [agent EXCEPT ![f] = b]
    <3>1. CASE Start(c) \/ Crash(c)
      BY <1>3, <3>1 DEF Start, Crash, Applying
    <3>2. CASE Step(c)
      BY <1>3, <3>2 DEF Applying, Step, Check, Reply, Stage, Publish, PublishLost, Hash,
         ReadManifest, ReadAnnotations, Compare, Revalidate, OpenSol, FillSol,
         Recheck, OpenReport, FillReport, OpenCanonical, FillCanonical, Open, Fill
    <3>3. QED
      BY <3>1, <3>2
  <2>2. /\ agent'["annotations"] = agent["annotations"]
        /\ agent'["manifest"] = agent["manifest"]
    BY <2>1 DEF BoundInv, TypeInv, TypeOK, AgentFiles, JsonFiles
  <2>3. ApplyOf(d) /\ LoadOf(d)
    BY DEF BoundInv
  <2>4. ApplyOf(d)'
    BY <1>1, <2>1, <2>2, <2>3 DEF ApplyOf, Bound, Content
  <2>5. LoadOf(d)'
    BY <1>1, <2>1, <2>2, <2>3 DEF LoadOf, Bound
  <2>6. QED
    BY <2>4, <2>5
<1>4. QED
  BY <1>2, <1>3

(* It is enough to look at the call that moves.                            *)
LEMMA OwnStep ==
  ASSUME BoundInv, ApplyAlone, NEW c \in Calls, Start(c) \/ Step(c) \/ Crash(c),
         BindInv', ApplyOf(c)', LoadOf(c)'
  PROVE  BoundInv'
<1>1. TypeInv'
  <2>1. Next
    BY DEF Next
  <2>2. QED
    BY <2>1, TypeStep DEF BoundInv
<1>2. \A d \in Calls : ApplyOf(d)' /\ LoadOf(d)'
  BY OthersRely
<1>3. Locked'
  BY OneMoves
<1>4. QED
  BY <1>1, <1>2, <1>3 DEF BoundInv

LEMMA PcOf ==
  ASSUME BoundInv, NEW c \in Calls, NEW phase, Goto(c, phase)
  PROVE  pc'[c] = phase
  BY DEF Goto, BoundInv, TypeInv, TypeOK

(* A step that leaves agent/, and what c has read, as they are.            *)
LEMMA LookBound ==
  ASSUME BoundInv, ApplyAlone, NEW c \in Calls,
         \/ Start(c) \/ Check(c) \/ Reply(c) \/ PublishLost(c) \/ Compare(c)
         \/ Revalidate(c) \/ Recheck(c) \/ Crash(c)
         \/ OpenCanonical(c) \/ FillCanonical(c)
  PROVE  BoundInv'
<1>1. UNCHANGED <<req, file, binds, loaded, agent>>
  BY DEF Start, Check, Reply, PublishLost, Compare, Revalidate, Recheck, Crash,
     OpenCanonical, FillCanonical
<1>2. BindInv'
  BY <1>1 DEF BoundInv, BindInv
<1>3. /\ ApplyOf(c) /\ LoadOf(c)
      /\ pc[c] \in Redoing => req[c].op = "render"
  BY DEF BoundInv, TypeInv, OpInv
<1>4. CASE Check(c)
  <2>1. FirstStep["apply"] = "stage" /\ FirstStep["render"] = "open_canonical"
    BY DEF FirstStep
  <2>2. req[c].op \in {"apply", "agent_render", "render"}
    BY RequestType DEF BoundInv, TypeInv, TypeOK
  <2>3. \/ pc'[c] = "raised"
        \/ pc'[c] = "read_manifest" /\ req[c].op = "agent_render"
        \/ pc'[c] = "stage" /\ req[c].op = "apply" /\ req[c].proposal \in Grounded
        \/ pc'[c] = "open_canonical"
    BY <1>4, <2>1, <2>2, PcOf DEF Check, Raise, Acceptable
  <2>4. file[c] = "proposal"
    BY <1>3, <1>4 DEF Check, ApplyOf
  <2>5. ApplyOf(c)' /\ LoadOf(c)'
    BY <1>1, <2>3, <2>4 DEF ApplyOf, LoadOf, Applying, Loading, Showing
  <2>6. QED
    BY <1>2, <1>4, <2>5, OwnStep DEF Step
<1>5. CASE Start(c)
  <2>1. pc[c] = "idle" /\ pc'[c] = "check"
    BY <1>5, PcOf DEF Start
  <2>2. ApplyOf(c)' /\ LoadOf(c)'
    BY <1>1, <1>3, <2>1 DEF ApplyOf, LoadOf, Applying, Loading, Showing
  <2>3. QED
    BY <1>2, <1>5, <2>2, OwnStep
<1>6. CASE Reply(c) \/ PublishLost(c) \/ Crash(c)
  <2>1. pc'[c] \in Ended
    BY <1>6, PcOf DEF Reply, PublishLost, Crash, Raise, Ended
  <2>2. ApplyOf(c)' /\ LoadOf(c)'
    BY <2>1 DEF ApplyOf, LoadOf, Applying, Loading, Showing, Ended
  <2>3. QED
    BY <1>2, <1>6, <2>2, OwnStep DEF Step
<1>7. CASE OpenCanonical(c) \/ FillCanonical(c)
  <2>1. pc[c] \in Redoing /\ pc'[c] \in {"fill_canonical", "reply"}
    BY <1>7, PcOf DEF OpenCanonical, FillCanonical, Redoing
  <2>2. ApplyOf(c)' /\ LoadOf(c)'
    BY <1>1, <1>3, <2>1 DEF ApplyOf, LoadOf, Applying, Loading, Showing
  <2>3. QED
    BY <1>2, <1>7, <2>2, OwnStep DEF Step
<1>8. CASE Compare(c)
  <2>1. /\ pc[c] = "compare"
        /\ \/ pc'[c] = "raised"
           \/ pc'[c] = "revalidate" /\ agent["annotations"] = binds[c]
    BY <1>8, PcOf DEF Compare, Raise
  <2>2. /\ req[c].op = "agent_render" /\ loaded[c] \in Texts
        /\ agent["annotations"] = loaded[c] /\ agent["manifest"] = Binding(binds[c])
    BY <1>3, <2>1 DEF LoadOf, Loading
  <2>3. agent["annotations"] = binds[c] => Bound(loaded[c].of)
    <3>1. loaded[c] = Text(loaded[c].of)
      BY <2>2, TextOf
    <3>2. QED
      BY <2>2, <3>1 DEF Bound
  <2>4. ApplyOf(c)' /\ LoadOf(c)'
    BY <1>1, <2>1, <2>2, <2>3 DEF ApplyOf, LoadOf, Bound, Applying, Loading, Showing
  <2>5. QED
    BY <1>2, <1>8, <2>4, OwnStep DEF Step
<1>9. CASE Revalidate(c) \/ Recheck(c)
  <2>1. /\ pc[c] \in {"revalidate", "recheck"}
        /\ pc'[c] \in {"raised", "open_sol", "open_report"}
    BY <1>9, PcOf DEF Revalidate, Recheck, Raise
  <2>2. ApplyOf(c)' /\ LoadOf(c)'
    BY <1>1, <1>3, <2>1 DEF ApplyOf, LoadOf, Bound, Applying, Loading, Showing
  <2>3. QED
    BY <1>2, <1>9, <2>2, OwnStep DEF Step
<1>10. QED
  BY <1>4, <1>5, <1>6, <1>7, <1>8, <1>9

LEMMA StageBound ==
  ASSUME BoundInv, ApplyAlone, NEW c \in Calls, Stage(c)
  PROVE  BoundInv'
<1>1. /\ pc[c] = "stage" /\ pc'[c] = "publish"
      /\ UNCHANGED <<req, file, binds, loaded, agent>>
  BY PcOf DEF Stage
<1>2. tmps'[file[c]] = Content(c)
  BY DEF Stage, BoundInv, TypeInv, TypeOK
<1>3. BindInv'
  BY <1>1 DEF BoundInv, BindInv
<1>4. ApplyOf(c)
  BY DEF BoundInv
<1>5. ApplyOf(c)' /\ LoadOf(c)'
  BY <1>1, <1>2, <1>4 DEF ApplyOf, LoadOf, Content, Applying, Loading, Showing
<1>6. QED
  BY <1>3, <1>5, OwnStep DEF Step

LEMMA PublishBound ==
  ASSUME BoundInv, ApplyAlone, NEW c \in Calls, Publish(c)
  PROVE  BoundInv'
<1>1. /\ pc[c] = "publish" /\ req[c].op = "apply"
      /\ req[c].proposal \in Grounded
      /\ UNCHANGED <<req, binds, loaded>>
      /\ agent' = [agent EXCEPT ![file[c]] = Content(c)]
  BY DEF Publish, BoundInv, TypeInv, OpInv, ApplyOf, Applying
<1>2. /\ agent \in [AgentFiles -> Rendered \cup Manifests]
      /\ file \in [Calls -> JsonFiles]
      /\ JsonFiles \subseteq AgentFiles
  BY DEF BoundInv, TypeInv, TypeOK, JsonFiles, AgentFiles
<1>3. /\ {"manifest", "annotations"} \subseteq AgentFiles
      /\ \A f \in AgentFiles : agent'[f] = IF f = file[c] THEN Content(c) ELSE agent[f]
  BY <1>1, <1>2 DEF AgentFiles, JsonFiles
<1>4. file[c] = "manifest" =>
        /\ agent["annotations"] = Text(req[c].proposal)
        /\ binds[c] = Text(req[c].proposal)
  BY <1>1 DEF BoundInv, ApplyOf, Applying
<1>5. BindInv'
  <2>1. CASE file[c] = "manifest"
    <3>1. agent'["manifest"] = Binding(Text(req[c].proposal))
      BY <1>3, <1>4, <2>1 DEF Content
    <3>2. QED
      BY <1>1, <3>1 DEF BindInv, Binding
  <2>2. CASE file[c] # "manifest"
    BY <1>3, <2>2 DEF BoundInv, BindInv
  <2>3. QED
    BY <2>1, <2>2
<1>6. \/ file[c] = "proposal" /\ file'[c] = "annotations" /\ pc'[c] = "stage"
      \/ file[c] = "annotations" /\ file'[c] = "annotations" /\ pc'[c] = "hash"
      \/ file[c] = "manifest" /\ file'[c] = "manifest" /\ pc'[c] = "reply"
  BY <1>2, PcOf DEF Publish, JsonFiles
<1>7. ApplyOf(c)'
  <2>1. CASE file[c] = "proposal"
    BY <1>1, <1>6, <2>1 DEF ApplyOf, Applying
  <2>2. CASE file[c] = "annotations"
    <3>1. agent'["annotations"] = Text(req[c].proposal)
      BY <1>3, <2>2 DEF Content
    <3>2. QED
      BY <1>1, <1>6, <2>2, <3>1 DEF ApplyOf
  <2>3. CASE file[c] = "manifest"
    <3>1. /\ agent'["annotations"] = Text(req[c].proposal)
          /\ agent'["manifest"] = Binding(Text(req[c].proposal))
      BY <1>3, <1>4, <2>3 DEF Content
    <3>2. QED
      BY <1>1, <1>6, <2>3, <3>1 DEF ApplyOf, Bound, Applying
  <2>4. QED
    BY <1>6, <2>1, <2>2, <2>3
<1>8. LoadOf(c)'
  BY <1>1, <1>6 DEF LoadOf, Loading, Showing
<1>9. QED
  BY <1>5, <1>7, <1>8, OwnStep DEF Step

LEMMA ReadBound ==
  ASSUME BoundInv, ApplyAlone, NEW c \in Calls,
         Hash(c) \/ ReadManifest(c) \/ ReadAnnotations(c)
  PROVE  BoundInv'
<1>1. UNCHANGED <<req, agent, tmps>>
  BY DEF Hash, ReadManifest, ReadAnnotations
<1>2. BindInv'
  BY <1>1 DEF BoundInv, BindInv
<1>3. /\ ApplyOf(c) /\ LoadOf(c)
      /\ pc[c] \in Applying => req[c].op = "apply"
      /\ binds \in [Calls -> JsonBytes] /\ loaded \in [Calls -> {NoFile} \cup Texts]
      /\ file \in [Calls -> JsonFiles]
  BY DEF BoundInv, TypeInv, OpInv, TypeOK
<1>4. CASE Hash(c)
  <2>1. /\ pc[c] = "hash" /\ pc'[c] = "stage"
        /\ binds'[c] = agent["annotations"] /\ UNCHANGED loaded
    BY <1>3, <1>4, PcOf DEF Hash
  <2>2. ApplyOf(c)' /\ LoadOf(c)'
    BY <1>1, <1>3, <2>1 DEF ApplyOf, LoadOf, Applying, Loading, Showing
  <2>3. QED
    BY <1>2, <1>4, <2>2, OwnStep DEF Step
<1>5. CASE ReadManifest(c)
  <2>1. pc[c] = "read_manifest" /\ req[c].op = "agent_render"
    BY <1>3, <1>5 DEF ReadManifest, LoadOf, Loading
  <2>2. \/ pc'[c] = "raised"
        \/ /\ pc'[c] = "read_annotations"
           /\ agent["manifest"].kind = "manifest"
           /\ binds'[c] = agent["manifest"].sha
    BY <1>3, <1>5, PcOf DEF ReadManifest, Raise
  <2>3. agent["manifest"].kind = "manifest"
          => agent["manifest"] = Binding(agent["manifest"].sha)
    BY DEF BoundInv, TypeInv, TypeOK, Manifests, NoFile, Truncated, Binding
  <2>4. ApplyOf(c)' /\ LoadOf(c)'
    BY <1>1, <2>1, <2>2, <2>3 DEF ApplyOf, LoadOf, Applying, Loading, Showing
  <2>5. QED
    BY <1>2, <1>5, <2>4, OwnStep DEF Step
<1>6. CASE ReadAnnotations(c)
  <2>1. /\ pc[c] = "read_annotations" /\ req[c].op = "agent_render"
        /\ agent["manifest"] = Binding(binds[c])
    BY <1>3, <1>6 DEF ReadAnnotations, LoadOf, Loading
  <2>2. /\ UNCHANGED binds
        /\ \/ pc'[c] = "raised"
           \/ /\ pc'[c] = "compare"
              /\ agent["annotations"].kind = "text"
              /\ loaded'[c] = agent["annotations"]
    BY <1>3, <1>6, PcOf DEF ReadAnnotations, Raise
  <2>3. agent["annotations"].kind = "text" => agent["annotations"] \in Texts
    BY DEF BoundInv, TypeInv, TypeOK, JsonBytes, NoFile, Truncated
  <2>4. ApplyOf(c)' /\ LoadOf(c)'
    BY <1>1, <2>1, <2>2, <2>3 DEF ApplyOf, LoadOf, Applying, Loading, Showing
  <2>5. QED
    BY <1>2, <1>6, <2>4, OwnStep DEF Step
<1>7. QED
  BY <1>4, <1>5, <1>6

LEMMA ShowBound ==
  ASSUME BoundInv, ApplyAlone, NEW c \in Calls,
         OpenSol(c) \/ FillSol(c) \/ OpenReport(c) \/ FillReport(c)
  PROVE  BoundInv'
<1>1. /\ pc[c] \in Showing /\ pc'[c] \in Showing \cup {"reply"}
      /\ UNCHANGED <<req, file, binds, loaded>>
      /\ \E f \in {"sol", "report"} : \E b : agent' = [agent EXCEPT ![f] = b]
  BY PcOf DEF OpenSol, FillSol, OpenReport, FillReport, Open, Fill, Showing
<1>2. agent'["annotations"] = agent["annotations"] /\ agent'["manifest"] = agent["manifest"]
  BY <1>1 DEF BoundInv, TypeInv, TypeOK, AgentFiles, JsonFiles
<1>3. BindInv'
  BY <1>2 DEF BoundInv, BindInv
<1>4. LoadOf(c)
  BY DEF BoundInv
<1>5. ApplyOf(c)' /\ LoadOf(c)'
  BY <1>1, <1>2, <1>4 DEF ApplyOf, LoadOf, Bound, Applying, Loading, Showing
<1>6. QED
  BY <1>3, <1>5, OwnStep DEF Step

(* An edit while no agent command is alive: nobody relies on               *)
(* annotations.json.                                                       *)
LEMMA EditBound ==
  ASSUME BoundInv, ApplyAlone, NEW a \in Proposals, Edit(a)
  PROVE  BoundInv'
<1>1. TypeInv'
  BY EditType DEF BoundInv
<1>2. /\ UNCHANGED <<pc, req, file, binds, loaded, canonical, tmps>>
      /\ \A d \in Calls : ~Live(d) \/ req[d].op = "render"
      /\ agent' = [agent EXCEPT !["annotations"] = Text(a)]
  BY DEF Edit, AgentCalls
<1>3. agent'["manifest"] = agent["manifest"]
  BY <1>2 DEF BoundInv, TypeInv, TypeOK, AgentFiles, JsonFiles
<1>4. BindInv'
  BY <1>3 DEF BoundInv, BindInv
<1>5. ASSUME NEW d \in Calls
      PROVE  ApplyOf(d)' /\ LoadOf(d)'
  BY <1>2, Uninvolved
<1>6. Locked'
  BY <1>2 DEF BoundInv, Locked, Live
<1>7. QED
  BY <1>1, <1>4, <1>5, <1>6 DEF BoundInv

LEMMA BoundStep == ApplyAlone /\ BoundInv /\ [Next]_vars => BoundInv'
<1> SUFFICES ASSUME ApplyAlone, BoundInv, [Next]_vars
             PROVE  BoundInv'
  OBVIOUS
<1>1. ASSUME NEW c \in Calls, Start(c) \/ Step(c) \/ Crash(c)
      PROVE  BoundInv'
  BY <1>1, LookBound, StageBound, PublishBound, ReadBound, ShowBound DEF Step
<1>2. ASSUME NEW a \in Proposals, Edit(a)
      PROVE  BoundInv'
  BY <1>2, EditBound
<1>3. CASE AllEnded \/ UNCHANGED vars
  <2>1. UNCHANGED vars
    BY <1>3 DEF AllEnded
  <2>2. TypeInv'
    BY TypeStep DEF BoundInv
  <2>3. QED
    BY <2>1, <2>2 DEF vars, BoundInv, Locked, Live, ApplyOf, LoadOf, BindInv, Bound, Content
<1>4. QED
  BY <1>1, <1>2, <1>3 DEF Next

(* No step but Reply changes what callers have been told.                  *)
LEMMA ToldKept ==
  ASSUME BoundInv, NEW c \in Calls, Start(c) \/ Step(c) \/ Crash(c), ~Reply(c)
  PROVE  \A d \in Calls : Told(d)' = Told(d)
<1>1. /\ pc \in [Calls -> {"idle"} \cup Reading \cup Writing \cup Ended]
      /\ loaded \in [Calls -> {NoFile} \cup Texts]
  BY DEF BoundInv, TypeInv, TypeOK
<1>2. /\ pc[c] \in {"idle"} \cup Reading \cup Writing
      /\ pc[c] # "returned" /\ UNCHANGED req
      /\ \E phase : phase # "returned" /\ pc' = [pc EXCEPT ![c] = phase]
      /\ loaded' = loaded \/ \E b : loaded' = [loaded EXCEPT ![c] = b]
  <2>1. CASE Start(c) \/ Crash(c)
    BY <2>1 DEF Start, Crash, Goto, Live, Reading, Writing
  <2>2. CASE Check(c)
    <3>1. FirstStep["apply"] = "stage" /\ FirstStep["render"] = "open_canonical"
      BY DEF FirstStep
    <3>2. req[c].op \in {"apply", "agent_render", "render"}
      BY RequestType DEF BoundInv, TypeInv, TypeOK
    <3>3. QED
      BY <2>2, <3>1, <3>2 DEF Check, Goto, Raise, Reading
  <2>3. CASE \/ Stage(c) \/ Publish(c) \/ PublishLost(c) \/ Hash(c)
             \/ ReadManifest(c) \/ ReadAnnotations(c) \/ Compare(c) \/ Revalidate(c)
    BY <2>3 DEF Stage, Publish, PublishLost, Hash, ReadManifest, ReadAnnotations,
       Compare, Revalidate, Goto, Raise, Reading, Writing
  <2>4. CASE \/ OpenSol(c) \/ FillSol(c) \/ Recheck(c) \/ OpenReport(c) \/ FillReport(c)
             \/ OpenCanonical(c) \/ FillCanonical(c)
    BY <2>4 DEF OpenSol, FillSol, Recheck, OpenReport, FillReport, OpenCanonical,
       FillCanonical, Open, Fill, Goto, Raise, Writing
  <2>5. QED
    BY <2>1, <2>2, <2>3, <2>4 DEF Step
<1>3. \A d \in Calls : d # c => pc'[d] = pc[d] /\ loaded'[d] = loaded[d]
  BY <1>1, <1>2
<1>4. pc'[c] # "returned"
  BY <1>1, <1>2
<1>5. QED
  BY <1>2, <1>3, <1>4 DEF Told

LEMMA ReplyTells ==
  ASSUME BoundInv, NEW c \in Calls, Reply(c)
  PROVE  /\ Told(c) = NoFile
         /\ Told(c)' = NoFile \/ Told(c)' \in BoundSet
         /\ \A d \in Calls : d # c => Told(d)' = Told(d)
         /\ BoundSet' = BoundSet
<1>1. /\ pc[c] = "reply" /\ pc'[c] = "returned"
      /\ \A d \in Calls : d # c => pc'[d] = pc[d]
      /\ UNCHANGED <<req, loaded, agent>>
  BY DEF Reply, Goto, BoundInv, TypeInv, TypeOK
<1>2. req[c].op \in {"apply", "agent_render", "render"}
  BY RequestType DEF BoundInv, TypeInv, TypeOK
<1>3. req[c].op = "apply" => req[c].proposal \in BoundSet
  BY <1>1, RequestType DEF BoundInv, TypeInv, TypeOK, ApplyOf, BoundSet
<1>4. req[c].op = "agent_render" => loaded[c].of \in BoundSet
  BY <1>1, TextOf DEF BoundInv, LoadOf, BoundSet
<1>5. BoundSet' = BoundSet
  BY <1>1 DEF BoundSet, Bound
<1>6. QED
  BY <1>1, <1>2, <1>3, <1>4, <1>5 DEF Told

LEMMA StoreStep ==
  ASSUME ApplyAlone, BoundInv, [Next]_vars
  PROVE  [Store!OverlayNext]_(Store!overlayVars)
<1> DEFINE told == [c \in Calls |-> Told(c)]
<1>1. BoundInv'
  BY BoundStep
<1>2. BoundSet' = {} \/ \E a \in Grounded : BoundSet' = {a}
  <2>1. \A a, b \in Proposals : Bound(a)' /\ Bound(b)' => a = b
    BY DEF Bound, Text
  <2>2. \A a \in Proposals : Bound(a)' => a \in Grounded
    BY <1>1 DEF Bound, BoundInv, BindInv, JsonBytes, Texts, Text
  <2>3. QED
    BY <2>1, <2>2 DEF BoundSet
<1>3. ASSUME \A d \in Calls : Told(d)' = Told(d)
      PROVE  [Store!OverlayNext]_(Store!overlayVars)
  <2>1. told' = told
    BY <1>3
  <2>2. CASE BoundSet' = {}
    BY <2>1, <2>2 DEF Store!OverlayNext, Store!Unbind, BoundSet
  <2>3. CASE \E a \in Grounded : BoundSet' = {a}
    BY <2>1, <2>3 DEF Store!OverlayNext, Store!Bind, BoundSet
  <2>4. QED
    BY <1>2, <2>2, <2>3
<1>4. ASSUME NEW c \in Calls, Reply(c)
      PROVE  [Store!OverlayNext]_(Store!overlayVars)
  <2>1. CASE Told(c)' = NoFile
    BY <1>3, <1>4, <2>1, ReplyTells
  <2>2. CASE Told(c)' \in BoundSet
    <3>1. told' = [told EXCEPT ![c] = Told(c)']
      BY <1>4, ReplyTells
    <3>2. told[c] = NoFile /\ BoundSet' = BoundSet
      BY <1>4, ReplyTells
    <3>3. Store!Tell(c)
      BY <2>2, <3>1, <3>2 DEF Store!Tell, BoundSet
    <3>4. QED
      BY <3>3 DEF Store!OverlayNext
  <2>3. QED
    BY <1>4, <2>1, <2>2, ReplyTells
<1>5. ASSUME NEW c \in Calls, Start(c) \/ Step(c) \/ Crash(c), ~Reply(c)
      PROVE  [Store!OverlayNext]_(Store!overlayVars)
  BY <1>3, <1>5, ToldKept
<1>6. CASE (\E a \in Proposals : Edit(a)) \/ AllEnded \/ UNCHANGED vars
  BY <1>3, <1>6 DEF Edit, AllEnded, vars, Told
<1>7. QED
  BY <1>4, <1>5, <1>6 DEF Next

LEMMA StoreInitial == Init => Store!OverlayInit
  BY DEF Init, Bound, Told, Text, NoFile, AgentFiles, JsonFiles, Store!OverlayInit

(* Commands of which no apply overlaps another agent command, whichever of *)
(* them die and whatever is edited in between, keep at most one grounded   *)
(* proposal bound, and report success for that one only.                   *)
THEOREM OverlayImplementsStore ==
  ASSUME ApplyAlone
  PROVE  Spec => OverlayStoreSpec
<1>1. BoundInv /\ [Next]_vars => [Store!OverlayNext]_(Store!overlayVars)
  BY StoreStep
<1>2. BoundInv /\ [Next]_vars => BoundInv'
  BY BoundStep
<1>3. QED
  BY <1>1, <1>2, BoundInit, StoreInitial, PTL DEF Spec, OverlayStoreSpec, Store!StoreSpec

-----------------------------------------------------------------------------
(* What is left of liveness without fairness: commands cannot go in        *)
(* circles, and an accepted apply cannot be turned away.                   *)

PhasesLeft ==
  [phase \in {"idle"} \cup Reading \cup Writing \cup Ended |->
     IF phase = "idle" THEN 12
     ELSE IF phase = "check" THEN 11
     ELSE IF phase = "read_manifest" THEN 10
     ELSE IF phase = "read_annotations" THEN 9
     ELSE IF phase = "compare" THEN 8
     ELSE IF phase = "revalidate" THEN 7
     ELSE IF phase = "open_sol" THEN 6
     ELSE IF phase = "fill_sol" THEN 5
     ELSE IF phase \in {"recheck", "hash"} THEN 4
     ELSE IF phase \in {"open_report", "open_canonical", "stage"} THEN 3
     ELSE IF phase \in {"fill_report", "fill_canonical", "publish"} THEN 2
     ELSE IF phase = "reply" THEN 1
     ELSE 0]

LEMMA PhaseTable ==
  /\ \A phase \in {"idle"} \cup Reading \cup Writing \cup Ended :
       PhasesLeft[phase] \in Nat
  /\ PhasesLeft["idle"] = 12 /\ PhasesLeft["check"] = 11
  /\ PhasesLeft["stage"] = 3 /\ PhasesLeft["publish"] = 2 /\ PhasesLeft["hash"] = 4
  /\ PhasesLeft["read_manifest"] = 10 /\ PhasesLeft["read_annotations"] = 9
  /\ PhasesLeft["compare"] = 8 /\ PhasesLeft["revalidate"] = 7
  /\ PhasesLeft["open_sol"] = 6 /\ PhasesLeft["fill_sol"] = 5
  /\ PhasesLeft["recheck"] = 4 /\ PhasesLeft["open_report"] = 3
  /\ PhasesLeft["fill_report"] = 2
  /\ PhasesLeft["open_canonical"] = 3 /\ PhasesLeft["fill_canonical"] = 2
  /\ PhasesLeft["reply"] = 1
  /\ \A phase \in Ended : PhasesLeft[phase] = 0
  BY DEF PhasesLeft, Reading, Writing, Ended

(* An apply puts three files in place, the proposal first.                 *)
FilesLeft == [proposal |-> 5, annotations |-> 3, manifest |-> 0]

StepsLeft(c) ==
  IF pc[c] \in {"stage", "publish"} THEN PhasesLeft[pc[c]] + FilesLeft[file[c]]
  ELSE PhasesLeft[pc[c]]

(* TypeOK does not say that an apply starts with proposal.json.            *)
FileInv ==
  /\ TypeInv
  /\ \A c \in Calls : pc[c] \in {"idle", "check"} => file[c] = "proposal"

LEMMA StepsLeftType ==
  ASSUME TypeOK, NEW c \in Calls
  PROVE  StepsLeft(c) \in 0..12 /\ (StepsLeft(c) = 0 <=> pc[c] \in Ended)
<1>1. pc[c] \in {"idle"} \cup Reading \cup Writing \cup Ended /\ file[c] \in JsonFiles
  BY DEF TypeOK
<1>2. CASE pc[c] \in {"stage", "publish"}
  BY <1>1, <1>2, PhaseTable DEF StepsLeft, FilesLeft, JsonFiles, Ended
<1>3. CASE pc[c] \notin {"stage", "publish"}
  BY <1>1, <1>3, PhaseTable DEF StepsLeft, Reading, Writing, Ended
<1>4. QED
  BY <1>2, <1>3

(* A step of one call leaves where the others stand.                       *)
LEMMA OthersStand ==
  ASSUME TypeOK, NEW c \in Calls, Start(c) \/ Step(c) \/ Crash(c),
         NEW d \in Calls, d # c
  PROVE  pc'[d] = pc[d] /\ file'[d] = file[d] /\ req' = req
<1>1. /\ req' = req
      /\ \E phase : pc' = [pc EXCEPT ![c] = phase]
      /\ file' = file \/ \E f : file' = [file EXCEPT ![c] = f]
  <2>1. CASE Start(c) \/ Crash(c)
    BY <2>1 DEF Start, Crash, Goto
  <2>2. CASE Step(c)
    BY <2>2 DEF Step, Check, Reply, Stage, Publish, PublishLost, Hash,
       ReadManifest, ReadAnnotations, Compare, Revalidate, OpenSol, FillSol,
       Recheck, OpenReport, FillReport, OpenCanonical, FillCanonical, Open, Fill,
       Goto, Raise
  <2>3. QED
    BY <2>1, <2>2
<1>2. QED
  BY <1>1 DEF TypeOK

LEMMA StepDescends ==
  ASSUME FileInv, NEW c \in Calls, Start(c) \/ Step(c) \/ Crash(c)
  PROVE  /\ StepsLeft(c)' < StepsLeft(c)
         /\ pc'[c] \in {"idle", "check"} => file'[c] = "proposal"
<1>1. /\ pc \in [Calls -> {"idle"} \cup Reading \cup Writing \cup Ended]
      /\ file \in [Calls -> JsonFiles]
      /\ req[c].op \in {"apply", "agent_render", "render"}
      /\ pc[c] \in {"idle", "check"} => file[c] = "proposal"
  BY RequestType DEF FileInv, TypeInv, TypeOK
<1> DEFINE Plain == {"idle"} \cup Reading \cup (Writing \ {"stage", "publish"})
<1>2. ASSUME NEW phase \in (Plain \ {"idle", "check"}) \cup Ended, pc[c] \in Plain,
             Goto(c, phase), PhasesLeft[phase] < PhasesLeft[pc[c]]
      PROVE  /\ StepsLeft(c)' < StepsLeft(c)
             /\ pc'[c] \notin {"idle", "check"}
  <2>1. pc'[c] = phase
    BY <1>1, <1>2 DEF Goto
  <2>2. pc[c] \notin {"stage", "publish"} /\ phase \notin {"stage", "publish"}
    BY <1>2 DEF Reading, Writing, Ended
  <2>3. QED
    BY <1>2, <2>1, <2>2 DEF StepsLeft, Ended
<1>3. CASE Start(c)
  <2>1. pc[c] = "idle" /\ pc'[c] = "check" /\ UNCHANGED file
    BY <1>1, <1>3 DEF Start, Goto
  <2>2. QED
    BY <1>1, <2>1, PhaseTable DEF StepsLeft
<1>4. CASE Check(c)
  <2>1. FirstStep["apply"] = "stage" /\ FirstStep["render"] = "open_canonical"
    BY DEF FirstStep
  <2>2. /\ pc[c] = "check" /\ UNCHANGED file
        /\ pc'[c] \in {"raised", "read_manifest", "stage", "open_canonical"}
    BY <1>1, <1>4, <2>1 DEF Check, Raise, Goto
  <2>3. QED
    BY <1>1, <2>2, PhaseTable DEF StepsLeft, FilesLeft, Ended
<1>5. CASE Stage(c)
  <2>1. pc[c] = "stage" /\ pc'[c] = "publish" /\ UNCHANGED file
    BY <1>1, <1>5 DEF Stage, Goto
  <2>2. file[c] \in {"proposal", "annotations", "manifest"}
    BY <1>1 DEF JsonFiles
  <2>3. QED
    BY <2>1, <2>2, PhaseTable DEF StepsLeft, FilesLeft
<1>6. CASE Publish(c) \/ PublishLost(c)
  <2>1. /\ pc[c] = "publish"
        /\ \/ file[c] = "proposal" /\ file'[c] = "annotations" /\ pc'[c] = "stage"
           \/ file[c] = "annotations" /\ pc'[c] = "hash"
           \/ file[c] = "manifest" /\ pc'[c] = "reply"
           \/ file[c] \in {"proposal", "annotations", "manifest"} /\ pc'[c] = "raised"
    BY <1>1, <1>6 DEF Publish, PublishLost, Raise, Goto, JsonFiles
  <2>2. QED
    BY <2>1, PhaseTable DEF StepsLeft, FilesLeft, Ended
<1>7. CASE Hash(c)
  <2>1. pc[c] = "hash" /\ pc'[c] = "stage" /\ file'[c] = "manifest"
    BY <1>1, <1>7 DEF Hash, Goto
  <2>2. QED
    BY <2>1, PhaseTable DEF StepsLeft, FilesLeft
<1>8. CASE \/ ReadManifest(c) \/ ReadAnnotations(c) \/ Compare(c) \/ Revalidate(c)
           \/ OpenSol(c) \/ FillSol(c) \/ Recheck(c) \/ OpenReport(c) \/ FillReport(c)
           \/ OpenCanonical(c) \/ FillCanonical(c) \/ Reply(c)
  <2>1. \/ pc[c] = "read_manifest" /\ (Goto(c, "read_annotations") \/ Goto(c, "raised"))
        \/ pc[c] = "read_annotations" /\ (Goto(c, "compare") \/ Goto(c, "raised"))
        \/ pc[c] = "compare" /\ (Goto(c, "revalidate") \/ Goto(c, "raised"))
        \/ pc[c] = "revalidate" /\ (Goto(c, "open_sol") \/ Goto(c, "raised"))
        \/ pc[c] = "open_sol" /\ Goto(c, "fill_sol")
        \/ pc[c] = "fill_sol" /\ Goto(c, "recheck")
        \/ pc[c] = "recheck" /\ (Goto(c, "open_report") \/ Goto(c, "raised"))
        \/ pc[c] = "open_report" /\ Goto(c, "fill_report")
        \/ pc[c] = "fill_report" /\ Goto(c, "reply")
        \/ pc[c] = "open_canonical" /\ Goto(c, "fill_canonical")
        \/ pc[c] = "fill_canonical" /\ Goto(c, "reply")
        \/ pc[c] = "reply" /\ Goto(c, "returned")
    BY <1>8 DEF ReadManifest, ReadAnnotations, Compare, Revalidate, OpenSol, FillSol,
       Recheck, OpenReport, FillReport, OpenCanonical, FillCanonical, Reply, Open,
       Fill, Raise
  <2>2. \E phase \in (Plain \ {"idle", "check"}) \cup Ended :
          Goto(c, phase) /\ pc[c] \in Plain /\ PhasesLeft[phase] < PhasesLeft[pc[c]]
    BY <2>1, PhaseTable DEF Reading, Writing, Ended
  <2>3. QED
    BY <1>2, <2>2
<1>9. CASE Crash(c)
  <2>1. pc[c] \in Reading \cup Writing /\ pc'[c] = "crashed"
    BY <1>1, <1>9 DEF Crash, Goto, Live
  <2>2. StepsLeft(c)' = 0
    BY <2>1, PhaseTable DEF StepsLeft, Ended
  <2>3. StepsLeft(c) \in 0..12 /\ StepsLeft(c) # 0
    BY <2>1, StepsLeftType DEF FileInv, TypeInv, Reading, Writing, Ended
  <2>4. QED
    BY <2>1, <2>2, <2>3
<1>10. QED
  BY <1>3, <1>4, <1>5, <1>6, <1>7, <1>8, <1>9 DEF Step

LEMMA FileStep == FileInv /\ [Next]_vars => FileInv'
<1> SUFFICES ASSUME FileInv, [Next]_vars
             PROVE  FileInv'
  OBVIOUS
<1>1. TypeInv'
  BY TypeStep DEF FileInv
<1>2. ASSUME NEW d \in Calls, pc'[d] \in {"idle", "check"}
      PROVE  file'[d] = "proposal"
  <2>1. ASSUME NEW c \in Calls, Start(c) \/ Step(c) \/ Crash(c)
        PROVE  file'[d] = "proposal"
    <3>1. CASE c = d
      BY <1>2, <2>1, <3>1, StepDescends
    <3>2. CASE c # d
      BY <1>2, <2>1, <3>2, OthersStand DEF FileInv, TypeInv
    <3>3. QED
      BY <3>1, <3>2
  <2>2. CASE (\E a \in Proposals : Edit(a)) \/ AllEnded \/ UNCHANGED vars
    BY <1>2, <2>2 DEF Edit, AllEnded, vars, FileInv
  <2>3. QED
    BY <2>1, <2>2 DEF Next
<1>3. QED
  BY <1>1, <1>2 DEF FileInv

(* In any overlap of commands, deaths and edits, each step of a command    *)
(* brings it closer to its end, and nobody else's step sets it back: none  *)
(* takes more than 12 steps.                                               *)
CallsDescend ==
  [][ \A c \in Calls :
        /\ Start(c) \/ Step(c) \/ Crash(c) => StepsLeft(c)' < StepsLeft(c)
        /\ ~(Start(c) \/ Step(c) \/ Crash(c)) => StepsLeft(c)' = StepsLeft(c) ]_vars

THEOREM CommandsAreBounded == Spec => CallsDescend
<1>1. Init => FileInv
  BY TypeInit DEF Init, FileInv
<1>2. ASSUME FileInv, Next, NEW d \in Calls, ~(Start(d) \/ Step(d) \/ Crash(d))
      PROVE  StepsLeft(d)' = StepsLeft(d)
  <2>1. ASSUME NEW c \in Calls, Start(c) \/ Step(c) \/ Crash(c)
        PROVE  pc'[d] = pc[d] /\ file'[d] = file[d]
    BY <1>2, <2>1, OthersStand DEF FileInv, TypeInv
  <2>2. CASE \E c \in Calls : Start(c) \/ Step(c) \/ Crash(c)
    BY <2>1, <2>2 DEF StepsLeft
  <2>3. CASE (\E a \in Proposals : Edit(a)) \/ AllEnded
    BY <2>3 DEF Edit, AllEnded, vars, StepsLeft
  <2>4. QED
    BY <1>2, <2>2, <2>3 DEF Next
<1>3. FileInv /\ [Next]_vars =>
        [ \A c \in Calls :
            /\ Start(c) \/ Step(c) \/ Crash(c) => StepsLeft(c)' < StepsLeft(c)
            /\ ~(Start(c) \/ Step(c) \/ Crash(c)) => StepsLeft(c)' = StepsLeft(c) ]_vars
  BY <1>2, StepDescends
<1>4. QED
  BY <1>1, <1>3, FileStep, PTL DEF Spec, CallsDescend

(* An apply whose proposal has been accepted and that has not died.        *)
Accepted(c) ==
  req[c].op = "apply" /\ pc[c] \in Applying \cup {"reply", "returned"}

(* Nothing but its own death keeps an accepted apply from success: not the *)
(* leftovers of dead commands, no render going on, no earlier binding      *)
(* (validation.py:208-236).                                                *)
ApplyKept ==
  [][ \A c \in Calls : Accepted(c) => Accepted(c)' \/ pc'[c] = "crashed" ]_vars

THEOREM AcceptedAppliesSucceed ==
  ASSUME ApplyAlone
  PROVE  Spec => ApplyKept
<1>1. ASSUME BoundInv, Next, NEW c \in Calls, Accepted(c)
      PROVE  Accepted(c)' \/ pc'[c] = "crashed"
  <2>1. /\ pc \in [Calls -> {"idle"} \cup Reading \cup Writing \cup Ended]
        /\ req[c].op = "apply" /\ pc[c] \in Applying \cup {"reply", "returned"}
    BY <1>1 DEF BoundInv, TypeInv, TypeOK, Accepted
  <2>2. CASE Stage(c) \/ Publish(c) \/ Hash(c) \/ Reply(c)
    BY <2>1, <2>2 DEF Stage, Publish, Hash, Reply, Goto, Accepted, Applying
  <2>3. ~PublishLost(c)
    <3>1. pc[c] = "publish" => tmps[file[c]] = Content(c)
      BY <1>1 DEF BoundInv, ApplyOf, Applying
    <3>2. Content(c) # NoFile
      BY DEF Content, Binding, Text, NoFile
    <3>3. QED
      BY <3>1, <3>2 DEF PublishLost
  <2>4. CASE Step(c)
    BY <2>1, <2>2, <2>3, <2>4 DEF Step, Check, ReadManifest, ReadAnnotations, Compare,
       Revalidate, OpenSol, FillSol, Recheck, OpenReport, FillReport, OpenCanonical,
       FillCanonical, Applying
  <2>5. CASE Start(c) \/ Crash(c)
    BY <2>1, <2>5 DEF Start, Crash, Goto, Applying
  <2>6. ASSUME NEW d \in Calls, d # c, Start(d) \/ Step(d) \/ Crash(d)
        PROVE  pc'[c] = pc[c] /\ req' = req
    BY <1>1, <2>6, OthersStand DEF BoundInv, TypeInv
  <2>7. CASE \E d \in Calls : d # c /\ (Start(d) \/ Step(d) \/ Crash(d))
    BY <1>1, <2>6, <2>7 DEF Accepted
  <2>8. CASE (\E a \in Proposals : Edit(a)) \/ AllEnded
    BY <1>1, <2>8 DEF Edit, AllEnded, vars, Accepted
  <2>9. QED
    BY <1>1, <2>4, <2>5, <2>7, <2>8 DEF Next
<1>2. BoundInv /\ [Next]_vars =>
        [ \A c \in Calls : Accepted(c) => Accepted(c)' \/ pc'[c] = "crashed" ]_vars
  BY <1>1
<1>3. BoundInv /\ [Next]_vars => BoundInv'
  BY BoundStep
<1>4. QED
  BY <1>2, <1>3, BoundInit, PTL DEF Spec, ApplyKept

-----------------------------------------------------------------------------
(* Once nobody is at work, what reported success is what is bound.         *)

Returned(c) == req[c].op = "apply" /\ pc[c] = "returned"
NoHarm == edits = 0 /\ \A c \in Calls : pc[c] # "crashed"

(* An apply that has done its work and whose proposal is the bound one.    *)
Standing(c) ==
  /\ req[c].op = "apply" /\ pc[c] \in {"reply", "returned"}
  /\ req[c].proposal \in Grounded /\ Bound(req[c].proposal)

StandingInv ==
  NoHarm /\ (\E c \in Calls : Returned(c)) =>
    (\E d \in Calls : pc[d] \in Applying) \/ (\E c \in Calls : Standing(c))

LEMMA StandingStep ==
  ASSUME BoundInv, BoundInv', StandingInv, [Next]_vars
  PROVE  StandingInv'
<1> SUFFICES ASSUME NoHarm', NEW r \in Calls, Returned(r)'
             PROVE  (\E d \in Calls : pc'[d] \in Applying) \/ (\E c \in Calls : Standing(c)')
  BY DEF StandingInv
<1>1. /\ pc \in [Calls -> {"idle"} \cup Reading \cup Writing \cup Ended]
      /\ edits \in Nat
  BY BoundsAssumption DEF BoundInv, TypeInv, TypeOK
<1>2. ASSUME NEW d \in Calls, Stage(d) \/ Publish(d) \/ Hash(d)
      PROVE  pc'[d] \in Applying \/ Standing(d)'
  <2>1. req[d].op = "apply" /\ req' = req
    BY <1>2 DEF BoundInv, TypeInv, OpInv, Applying, Stage, Publish, Hash
  <2>2. pc'[d] \in Applying \cup {"reply"}
    BY <1>1, <1>2 DEF Stage, Publish, Hash, Goto, Applying
  <2>3. pc'[d] = "reply" => req[d].proposal \in Grounded /\ Bound(req[d].proposal)'
    BY <2>1 DEF BoundInv, ApplyOf
  <2>4. QED
    BY <2>1, <2>2, <2>3 DEF Standing
<1>3. ASSUME req' = req, agent'["annotations"] = agent["annotations"],
             agent'["manifest"] = agent["manifest"], NEW c \in Calls, Standing(c),
             pc'[c] \in {"reply", "returned"}
      PROVE  Standing(c)'
  BY <1>3 DEF Standing, Bound
<1>4. ASSUME NEW d \in Calls, Reply(d)
      PROVE  (\E e \in Calls : pc'[e] \in Applying) \/ (\E c \in Calls : Standing(c)')
  <2>1. /\ UNCHANGED <<req, agent, edits>> /\ pc' = [pc EXCEPT ![d] = "returned"]
        /\ pc[d] = "reply"
    BY <1>4 DEF Reply, Goto
  <2>2. CASE r = d
    <3>1. Standing(d)
      BY <2>1, <2>2 DEF BoundInv, ApplyOf, Standing, Returned
    <3>2. QED
      BY <1>1, <1>3, <2>1, <3>1
  <2>3. CASE r # d
    <3>1. Returned(r) /\ NoHarm
      BY <1>1, <2>1, <2>3 DEF Returned, NoHarm
    <3>2. CASE \E e \in Calls : pc[e] \in Applying
      BY <1>1, <2>1, <3>2 DEF Applying
    <3>3. CASE \E c \in Calls : Standing(c)
      <4>1. PICK c \in Calls : Standing(c)
        BY <3>3
      <4>2. pc'[c] \in {"reply", "returned"}
        BY <1>1, <2>1, <4>1 DEF Standing
      <4>3. QED
        BY <1>3, <2>1, <4>1, <4>2
    <3>4. QED
      BY <3>1, <3>2, <3>3 DEF StandingInv
  <2>4. QED
    BY <2>2, <2>3
<1>5. ASSUME NEW d \in Calls,
             \/ Start(d) \/ Check(d) \/ ReadManifest(d) \/ ReadAnnotations(d) \/ Compare(d)
             \/ Revalidate(d) \/ OpenSol(d) \/ FillSol(d) \/ Recheck(d) \/ OpenReport(d)
             \/ FillReport(d) \/ OpenCanonical(d) \/ FillCanonical(d)
      PROVE  (\E e \in Calls : pc'[e] \in Applying) \/ (\E c \in Calls : Standing(c)')
  <2>1. /\ UNCHANGED <<req, edits>>
        /\ agent'["annotations"] = agent["annotations"]
        /\ agent'["manifest"] = agent["manifest"]
    BY <1>5 DEF Start, Check, ReadManifest, ReadAnnotations, Compare, Revalidate, OpenSol,
       FillSol, Recheck, OpenReport, FillReport, OpenCanonical, FillCanonical, Open, Fill,
       BoundInv, TypeInv, TypeOK, AgentFiles, JsonFiles
  <2>2. /\ \A e \in Calls : e # d => pc'[e] = pc[e]
        /\ pc[d] \notin Applying \cup {"reply", "returned", "crashed"} /\ pc'[d] # "returned"
    <3>1. CASE Check(d)
      <4>1. FirstStep["apply"] = "stage" /\ FirstStep["render"] = "open_canonical"
        BY DEF FirstStep
      <4>2. req[d].op \in {"apply", "agent_render", "render"}
        BY RequestType DEF BoundInv, TypeInv, TypeOK
      <4>3. QED
        BY <1>1, <3>1, <4>1, <4>2 DEF Check, Goto, Raise, Applying
    <3>2. CASE ~Check(d)
      BY <1>1, <1>5, <3>2 DEF Start, ReadManifest, ReadAnnotations, Compare, Revalidate,
         OpenSol, FillSol, Recheck, OpenReport, FillReport, OpenCanonical, FillCanonical,
         Open, Fill, Goto, Raise, Applying
    <3>3. QED
      BY <3>1, <3>2
  <2>3. Returned(r) /\ NoHarm
    BY <2>1, <2>2 DEF Returned, NoHarm
  <2>4. CASE \E e \in Calls : pc[e] \in Applying
    BY <2>2, <2>4
  <2>5. CASE \E c \in Calls : Standing(c)
    <3>1. PICK c \in Calls : Standing(c)
      BY <2>5
    <3>2. pc'[c] \in {"reply", "returned"}
      BY <2>2, <3>1 DEF Standing
    <3>3. QED
      BY <1>3, <2>1, <3>1, <3>2
  <2>6. QED
    BY <2>3, <2>4, <2>5 DEF StandingInv
<1>6. ASSUME NEW d \in Calls
      PROVE  ~PublishLost(d) /\ ~Crash(d)
  <2>1. ~PublishLost(d)
    <3>1. pc[d] = "publish" => tmps[file[d]] = Content(d)
      BY DEF BoundInv, ApplyOf, Applying
    <3>2. Content(d) # NoFile
      BY DEF Content, Binding, Text, NoFile
    <3>3. QED
      BY <3>1, <3>2 DEF PublishLost
  <2>2. ~Crash(d)
    BY <1>1 DEF Crash, Goto, NoHarm
  <2>3. QED
    BY <2>1, <2>2
<1>7. ASSUME NEW a \in Proposals
      PROVE  ~Edit(a)
  BY <1>1 DEF Edit, NoHarm
<1>8. CASE AllEnded \/ UNCHANGED vars
  BY <1>8 DEF AllEnded, vars, StandingInv, NoHarm, Returned, Standing, Bound
<1>9. QED
  BY <1>2, <1>4, <1>5, <1>6, <1>7, <1>8 DEF Next, Step

(* When no command is at work, none has died and no file was edited, the   *)
(* manifest binds the proposal of an apply that reported success, if any   *)
(* did: no later apply, refused or not, and no render leaves the layer     *)
(* between two proposals.  Without ApplyAlone this is lost (MCOverlay_lost).*)
QuietIsApplied ==
  /\ \A c \in Calls : pc[c] \in {"idle", "returned", "raised"}
  /\ \E c \in Calls : Returned(c)
  /\ edits = 0
  => \E c \in Calls : Returned(c) /\ req[c].proposal \in Grounded /\ Bound(req[c].proposal)

THEOREM QuietRunsAreBound ==
  ASSUME ApplyAlone
  PROVE  Spec => [](QuietIsApplied /\ QuietIsBound)
<1>1. Init => StandingInv
  BY DEF Init, StandingInv, Returned
<1>2. StandingInv => QuietIsApplied
  BY DEF StandingInv, QuietIsApplied, NoHarm, Returned, Standing, Applying
<1>3. QuietIsApplied => QuietIsBound
  BY DEF QuietIsApplied, QuietIsBound, Returned
<1>4. BoundInv /\ [Next]_vars => BoundInv'
  BY BoundStep
<1>5. BoundInv /\ BoundInv' /\ StandingInv /\ [Next]_vars => StandingInv'
  BY StandingStep
<1>6. QED
  BY <1>1, <1>2, <1>3, <1>4, <1>5, BoundInit, PTL DEF Spec

=============================================================================
