---------------------------- MODULE InstallerProofs ----------------------------
\* Theorems about Installer, for any number of invocations, homes and signals.
EXTENDS Installer, TLAPS

Moved == {"installed", "inside"}

\* What an invocation knows of its own copies at each of its commands.
Fresh(i) ==
    phase[i] \in {"check", "parents"} =>
        /\ listed[i] = {} /\ code[i] = 0
        /\ \A k \in {1, 2} : at[<<i, k>>] = "none"

Progress(i) ==
    phase[i] \in Guarded =>
        /\ code[i] = 0
        /\ \A k \in {1, 2} : k < index[i] => at[<<i, k>>] \in Moved
        /\ \A k \in {1, 2} : k > index[i] => at[<<i, k>>] = "none"
        /\ at[<<i, index[i]>>] \notin Moved

StagedIsListed(i) ==
    /\ phase[i] \in {"copy", "verify", "move"} => index[i] \in listed[i]
    /\ phase[i] \notin {"list", "killed"} =>
          \A k \in {1, 2} : at[<<i, k>>] = "staging" => k \in listed[i]

StagedIsWhole(i) ==
    /\ phase[i] \in {"verify", "move"} /\ at[<<i, index[i]>>] = "staging" =>
          files[<<i, index[i]>>] = Payload
    /\ phase[i] = "verify" /\ at[<<i, index[i]>>] # "staging" => files[<<i, index[i]>>] = {}

Outcome(i) ==
    /\ phase[i] = "done" \/ (phase[i] = "exit" /\ code[i] = 0) =>
          \A k \in {1, 2} : k <= Len(destinations[i]) => at[<<i, k>>] \in Moved
    /\ phase[i] \in {"done", "failed"} => \A k \in {1, 2} : at[<<i, k>>] # "staging"

ScriptInv(i) ==
    Fresh(i) /\ Progress(i) /\ StagedIsListed(i) /\ StagedIsWhole(i) /\ Outcome(i)

\* The copies that left their staging directory, and what the destinations hold.
PlaceInv ==
    /\ \A c \in Copies : at[c] # "none" => c[2] \in 1..Len(destinations[c[1]])
    /\ \A c \in Copies : at[c] \in Moved => files[c] = Payload
    /\ \A c \in Copies : at[c] = "installed" => dest[HomeOf(c)] = "payload"
    /\ \A c \in Copies : at[c] = "inside" => dest[HomeOf(c)] \in {"directory", "payload"}
    /\ \A h \in Homes :
          dest[h] = "payload" => \E c \in Copies : at[c] = "installed" /\ HomeOf(c) = h
    /\ \A c, d \in Copies :
          at[c] = "installed" /\ at[d] = "installed" /\ HomeOf(d) = HomeOf(c) => d = c

IInv == TypeOK /\ PlaceInv /\ \A i \in Installers : ScriptInv(i)

\* A step of one invocation leaves alone what the others know.
Others(i) ==
    /\ destinations' = destinations
    /\ \A j \in Installers \ {i} :
          /\ phase'[j] = phase[j] /\ index'[j] = index[j]
          /\ listed'[j] = listed[j] /\ code'[j] = code[j]
          /\ \A k \in {1, 2} : at'[<<j, k>>] = at[<<j, k>>] /\ files'[<<j, k>>] = files[<<j, k>>]

LEMMA CopyIsOwn ==
    ASSUME TypeOK, NEW i \in Installers
    PROVE  /\ index[i] \in {1, 2} /\ index[i] \in 1..Len(destinations[i])
           /\ Len(destinations[i]) \in {1, 2}
           /\ Copy(i) \in Copies /\ Copy(i) = <<i, index[i]>>
           /\ Here(i) \in Homes /\ Here(i) = HomeOf(Copy(i))
<1>1. destinations[i] \in Selections /\ index[i] \in {1, 2} /\ index[i] <= Len(destinations[i])
  BY DEF TypeOK
<1>2. /\ Len(destinations[i]) \in {1, 2}
      /\ \A k \in 1..Len(destinations[i]) : destinations[i][k] \in Homes
  <2>1. CASE \E h \in Homes : destinations[i] = <<h>>
    BY <2>1
  <2>2. CASE \E g, h \in Homes : destinations[i] = <<g, h>>
    BY <2>2
  <2> QED
    BY <1>1, <2>1, <2>2 DEF Selections
<1>3. index[i] \in 1..Len(destinations[i])
  BY <1>1, <1>2
<1> QED
  BY <1>1, <1>2, <1>3 DEF Copies, Copy, Here, HomeOf

LEMMA HomesOfCopies ==
    ASSUME TypeOK, NEW c \in Copies, c[2] \in 1..Len(destinations[c[1]])
    PROVE  HomeOf(c) \in Homes
<1>1. c[1] \in Installers /\ destinations[c[1]] \in Selections
  BY DEF TypeOK, Copies
<1>2. \A s \in Selections : \A k \in 1..Len(s) : s[k] \in Homes
  BY DEF Selections
<1> QED
  BY <1>1, <1>2 DEF HomeOf

\* A loop over the destinations goes on to the next or ends.
LEMMA LoopStep ==
    ASSUME TypeOK, NEW i \in Installers, NEW loop \in Phases, NEW after \in Phases,
           Advance(i, loop, after)
    PROVE  /\ phase' \in [Installers -> Phases] /\ index' \in [Installers -> {1, 2}]
           /\ \/ /\ index[i] = 1 /\ Len(destinations[i]) = 2
                 /\ phase'[i] = loop /\ index'[i] = 2
              \/ /\ index[i] = Len(destinations[i])
                 /\ phase'[i] = after /\ index'[i] = 1
           /\ \A j \in Installers \ {i} : phase'[j] = phase[j] /\ index'[j] = index[j]
<1>1. index[i] \in {1, 2} /\ Len(destinations[i]) \in {1, 2} /\ index[i] <= Len(destinations[i])
  BY CopyIsOwn DEF TypeOK
<1>2. CASE index[i] < Len(destinations[i])
  <2>1. index[i] = 1 /\ Len(destinations[i]) = 2
    <3>1. PICK n : n = Len(destinations[i])
      OBVIOUS
    <3>2. n \in {1, 2} /\ index[i] \in {1, 2} /\ index[i] < n
      BY <1>1, <1>2, <3>1
    <3>3. index[i] = 1 /\ n = 2
      BY <3>2
    <3> QED
      BY <3>1, <3>3
  <2>2. index' = [index EXCEPT ![i] = 2] /\ phase' = [phase EXCEPT ![i] = loop]
    BY <1>2, <2>1 DEF Advance
  <2> QED
    BY <2>1, <2>2 DEF TypeOK
<1>3. CASE ~(index[i] < Len(destinations[i]))
  <2>1. index[i] = Len(destinations[i])
    BY <1>1, <1>3
  <2>2. index' = [index EXCEPT ![i] = 1] /\ phase' = [phase EXCEPT ![i] = after]
    BY <1>3 DEF Advance
  <2> QED
    BY <2>1, <2>2 DEF TypeOK
<1> QED
  BY <1>2, <1>3

\* What the other invocations know is kept.
LEMMA OthersKept ==
    ASSUME TypeOK, NEW i \in Installers, Others(i), \A j \in Installers : ScriptInv(j), ScriptInv(i)'
    PROVE  \A j \in Installers : ScriptInv(j)'
<1> SUFFICES ASSUME NEW j \in Installers, j # i
             PROVE  ScriptInv(j)'
  OBVIOUS
<1>1. /\ ScriptInv(j) /\ destinations' = destinations
      /\ phase'[j] = phase[j] /\ index'[j] = index[j]
      /\ listed'[j] = listed[j] /\ code'[j] = code[j]
      /\ \A k \in {1, 2} : at'[<<j, k>>] = at[<<j, k>>] /\ files'[<<j, k>>] = files[<<j, k>>]
  BY DEF Others
<1>2. index[j] \in {1, 2}
  BY DEF TypeOK
<1>3. at'[<<j, index[j]>>] = at[<<j, index[j]>>] /\ files'[<<j, index[j]>>] = files[<<j, index[j]>>]
  BY <1>1, <1>2
<1>4. Fresh(j)'
  BY <1>1 DEF ScriptInv, Fresh
<1>5. Progress(j)'
  BY <1>1, <1>3 DEF ScriptInv, Progress
<1>6. StagedIsListed(j)'
  BY <1>1 DEF ScriptInv, StagedIsListed
<1>7. StagedIsWhole(j)'
  BY <1>1, <1>3 DEF ScriptInv, StagedIsWhole
<1>8. Outcome(j)'
  BY <1>1 DEF ScriptInv, Outcome
<1> QED
  BY <1>4, <1>5, <1>6, <1>7, <1>8 DEF ScriptInv

\* The steps that move no copy: the places of the copies are as before.
LEMMA PlacesKept ==
    ASSUME PlaceInv, destinations' = destinations, at' = at, files' = files, dest' = dest
    PROVE  PlaceInv'
BY DEF PlaceInv, HomeOf, Copies

--------------------------------------------------------------------------------

LEMMA InitHolds == Init => IInv
<1> SUFFICES ASSUME Init
             PROVE  IInv
  OBVIOUS
<1>1. TypeOK
  <2>1. \A s \in Selections : Len(s) \in {1, 2}
    BY DEF Selections
  <2>2. \A i \in Installers : index[i] = 1 /\ destinations[i] \in Selections
    BY DEF Init
  <2>3. ASSUME NEW i \in Installers
        PROVE  index[i] <= Len(destinations[i])
    <3>1. PICK n : n = Len(destinations[i])
      OBVIOUS
    <3>2. index[i] = 1 /\ n \in {1, 2}
      BY <2>1, <2>2, <3>1
    <3>3. index[i] <= n
      BY <3>2
    <3> QED
      BY <3>1, <3>3
  <2> QED
    BY <2>3 DEF Init, TypeOK, Phases, Occupants
<1>2. PlaceInv
  BY DEF Init, PlaceInv, Moved
<1>3. \A i \in Installers : ScriptInv(i)
  BY DEF Init, ScriptInv, Fresh, Progress, StagedIsListed, StagedIsWhole, Outcome, Guarded, Copies
<1> QED
  BY <1>1, <1>2, <1>3 DEF IInv

\* The look at the destinations and the making of the parents.
LEMMA CheckStep ==
    ASSUME IInv, NEW i \in Installers, CheckFree(i) \/ MakeParent(i) \/ Refuse(i) \/ ParentFails(i)
    PROVE  IInv'
<1>0. /\ destinations' = destinations /\ dest' = dest /\ at' = at /\ files' = files
      /\ listed' = listed /\ code' = code /\ signals' = signals
      /\ phase[i] \in {"check", "parents"}
  BY DEF CheckFree, MakeParent, Refuse, ParentFails, Goto, copies
<1>1. /\ phase' \in [Installers -> Phases] /\ phase'[i] \in {"check", "parents", "stage", "failed"}
      /\ index' \in [Installers -> {1, 2}] /\ index'[i] <= Len(destinations[i])
      /\ phase'[i] = "stage" => index'[i] = 1
      /\ \A j \in Installers \ {i} : phase'[j] = phase[j] /\ index'[j] = index[j]
  <2>1. /\ index[i] <= Len(destinations[i])
        /\ Len(destinations[i]) = 1 \/ Len(destinations[i]) = 2
    BY CopyIsOwn DEF IInv, TypeOK
  <2>2. ASSUME NEW loop \in {"check", "parents"}, NEW after \in {"parents", "stage"},
               Advance(i, loop, after)
        PROVE  /\ phase' \in [Installers -> Phases] /\ phase'[i] \in {loop, after}
               /\ index' \in [Installers -> {1, 2}] /\ index'[i] <= Len(destinations[i])
               /\ phase'[i] = "stage" => index'[i] = 1
               /\ \A j \in Installers \ {i} : phase'[j] = phase[j] /\ index'[j] = index[j]
    <3>1. loop \in Phases /\ after \in Phases
      BY DEF Phases, Guarded
    <3>2. /\ phase' \in [Installers -> Phases] /\ index' \in [Installers -> {1, 2}]
          /\ \/ Len(destinations[i]) = 2 /\ phase'[i] = loop /\ index'[i] = 2
             \/ phase'[i] = after /\ index'[i] = 1
          /\ \A j \in Installers \ {i} : phase'[j] = phase[j] /\ index'[j] = index[j]
      BY <2>2, <3>1, LoopStep DEF IInv
    <3>3. PICK n : n = Len(destinations[i])
      OBVIOUS
    <3>4. index'[i] <= n
      <4>1. n \in {1, 2} /\ (index'[i] = 1 \/ (n = 2 /\ index'[i] = 2))
        BY <2>1, <3>2, <3>3
      <4> QED
        BY <4>1
    <3>5. phase'[i] = "stage" => index'[i] = 1
      BY <2>2, <3>2
    <3> QED
      BY <3>2, <3>3, <3>4, <3>5
  <2>3. CASE Refuse(i) \/ ParentFails(i)
    BY <2>1, <2>3 DEF IInv, TypeOK, Phases, Ended, Refuse, ParentFails, Goto
  <2> QED
    BY <2>2, <2>3 DEF CheckFree, MakeParent
<1>2. TypeOK'
  <2>1. parents' \subseteq Homes
    BY CopyIsOwn DEF IInv, TypeOK, CheckFree, MakeParent, Refuse, ParentFails
  <2> QED
    BY <1>0, <1>1, <2>1 DEF IInv, TypeOK
<1>3. ScriptInv(i)'
  <2>1. listed[i] = {} /\ code[i] = 0 /\ \A k \in {1, 2} : at[<<i, k>>] = "none"
    BY <1>0 DEF IInv, ScriptInv, Fresh
  <2> QED
    BY <1>0, <1>1, <2>1
    DEF ScriptInv, Fresh, Progress, StagedIsListed, StagedIsWhole, Outcome, Guarded, Moved
<1>4. Others(i)
  BY <1>0, <1>1 DEF Others
<1> QED
  BY <1>0, <1>2, <1>3, <1>4, OthersKept, PlacesKept DEF IInv

\* A copy in its staging directory: what is known of its place.
LEMMA StagedPlace ==
    ASSUME IInv, NEW i \in Installers, phase[i] \in Guarded,
           NEW held \in SUBSET Payload,
           destinations' = destinations, dest' = dest,
           at' = [at EXCEPT ![Copy(i)] = "staging"],
           files' = [files EXCEPT ![Copy(i)] = held]
    PROVE  PlaceInv' /\ at' \in [Copies -> {"none", "staging", "installed", "inside", "removed"}]
           /\ files' \in [Copies -> SUBSET Payload]
           /\ at'[Copy(i)] = "staging" /\ files'[Copy(i)] = held
           /\ \A c \in Copies : c # Copy(i) => at'[c] = at[c] /\ files'[c] = files[c]
<1>1. Copy(i) \in Copies /\ Copy(i)[1] = i /\ Copy(i)[2] \in 1..Len(destinations[i])
  BY CopyIsOwn DEF IInv
<1>2. /\ at' \in [Copies -> {"none", "staging", "installed", "inside", "removed"}]
      /\ files' \in [Copies -> SUBSET Payload]
      /\ at'[Copy(i)] = "staging" /\ files'[Copy(i)] = held
      /\ \A c \in Copies : c # Copy(i) => at'[c] = at[c] /\ files'[c] = files[c]
  BY <1>1 DEF IInv, TypeOK
<1>3. at[Copy(i)] \notin Moved
  BY <1>1 DEF IInv, ScriptInv, Progress, Copy
<1>4. PlaceInv'
  <2> SUFFICES /\ \A c \in Copies : at'[c] # "none" => c[2] \in 1..Len(destinations[c[1]])
               /\ \A c \in Copies : at'[c] \in Moved => files'[c] = Payload
               /\ \A c \in Copies : at'[c] = "installed" => dest[HomeOf(c)] = "payload"
               /\ \A c \in Copies :
                     at'[c] = "inside" => dest[HomeOf(c)] \in {"directory", "payload"}
               /\ \A h \in Homes :
                     dest[h] = "payload" => \E c \in Copies : at'[c] = "installed" /\ HomeOf(c) = h
               /\ \A c, d \in Copies :
                     at'[c] = "installed" /\ at'[d] = "installed" /\ HomeOf(d) = HomeOf(c) => d = c
    BY DEF PlaceInv, HomeOf, Copies
  <2>1. \A c \in Copies : at'[c] \in Moved => c # Copy(i)
    BY <1>2 DEF Moved
  <2>2. \A c \in Copies : at[c] \in Moved => at'[c] = at[c]
    BY <1>2, <1>3
  <2> QED
    BY <1>1, <1>2, <2>1, <2>2 DEF IInv, PlaceInv, Moved
<1> QED
  BY <1>2, <1>4

\* The commands that put a payload together.
LEMMA StagingStep ==
    ASSUME IInv, NEW i \in Installers, MakeStaging(i) \/ CopyPayload(i) \/ CopyFails(i)
    PROVE  IInv'
<1>1. PICK held \in SUBSET Payload :
          /\ destinations' = destinations /\ dest' = dest /\ parents' = parents
          /\ index' = index /\ listed' = listed /\ signals' = signals
          /\ at' = [at EXCEPT ![Copy(i)] = "staging"]
          /\ files' = [files EXCEPT ![Copy(i)] = held]
          /\ \/ /\ phase[i] = "stage" /\ phase' = [phase EXCEPT ![i] = "list"] /\ code' = code
             \/ /\ phase[i] = "copy" /\ phase' = [phase EXCEPT ![i] = "verify"] /\ code' = code
                /\ held = Payload
             \/ /\ phase[i] = "copy" /\ phase' = [phase EXCEPT ![i] = "exit"]
                /\ code' = [code EXCEPT ![i] = 1]
  <2>1. CASE MakeStaging(i)
    <3>1. files[Copy(i)] \in SUBSET Payload /\ files' = [files EXCEPT ![Copy(i)] = files[Copy(i)]]
      BY <2>1, CopyIsOwn DEF IInv, TypeOK, MakeStaging
    <3> QED
      BY <2>1, <3>1 DEF MakeStaging, Goto
  <2>2. CASE CopyPayload(i)
    BY <2>2 DEF CopyPayload, Goto
  <2>3. CASE CopyFails(i)
    BY <2>3 DEF CopyFails, Leave
  <2> QED
    BY <2>1, <2>2, <2>3
<1>2. phase[i] \in Guarded
  BY <1>1 DEF Guarded
<1>3. /\ PlaceInv'
      /\ at' \in [Copies -> {"none", "staging", "installed", "inside", "removed"}]
      /\ files' \in [Copies -> SUBSET Payload]
      /\ at'[Copy(i)] = "staging" /\ files'[Copy(i)] = held
      /\ \A c \in Copies : c # Copy(i) => at'[c] = at[c] /\ files'[c] = files[c]
  BY <1>1, <1>2, StagedPlace
<1>4. /\ index[i] \in {1, 2} /\ Copy(i) = <<i, index[i]>>
      /\ \A k \in {1, 2} : k # index[i] => at'[<<i, k>>] = at[<<i, k>>]
  BY <1>3, CopyIsOwn DEF IInv, Copies
<1>5. /\ phase' \in [Installers -> Phases] /\ code' \in [Installers -> {0, 1}]
      /\ \A j \in Installers \ {i} : phase'[j] = phase[j] /\ code'[j] = code[j]
      /\ \/ phase[i] = "stage" /\ phase'[i] = "list" /\ code'[i] = code[i]
         \/ phase[i] = "copy" /\ phase'[i] = "verify" /\ code'[i] = code[i] /\ held = Payload
         \/ phase[i] = "copy" /\ phase'[i] = "exit" /\ code'[i] = 1
  BY <1>1 DEF IInv, TypeOK, Phases, Guarded
<1>6. TypeOK'
  BY <1>1, <1>3, <1>5 DEF IInv, TypeOK
<1>7. ScriptInv(i)'
  <2>0. Progress(i) /\ StagedIsListed(i)
    BY DEF IInv, ScriptInv
  <2>1. Fresh(i)' /\ Outcome(i)'
    BY <1>5 DEF Fresh, Outcome
  <2>2. Progress(i)'
    <3>1. \A k \in {1, 2} : k < index[i] \/ k > index[i] => at'[<<i, k>>] = at[<<i, k>>]
      BY <1>4
    <3>2. code[i] = 0 /\ (phase'[i] \in Guarded => code'[i] = 0)
      BY <1>2, <1>5, <2>0 DEF Progress, Guarded
    <3>3. at'[<<i, index[i]>>] \notin Moved
      BY <1>3, <1>4 DEF Moved
    <3> QED
      BY <1>1, <1>2, <2>0, <3>1, <3>2, <3>3 DEF Progress
  <2>3. StagedIsListed(i)'
    <3>1. \A k \in {1, 2} : at'[<<i, k>>] = "staging" => k = index[i] \/ at[<<i, k>>] = "staging"
      BY <1>4
    <3>2. phase[i] = "copy" => index[i] \in listed[i]
      BY <2>0 DEF StagedIsListed
    <3> QED
      BY <1>1, <1>5, <2>0, <3>1, <3>2 DEF StagedIsListed
  <2>4. StagedIsWhole(i)'
    BY <1>1, <1>3, <1>4, <1>5 DEF StagedIsWhole
  <2> QED
    BY <2>1, <2>2, <2>3, <2>4 DEF ScriptInv
<1>8. Others(i)
  <2>1. ASSUME NEW j \in Installers \ {i}, NEW k \in {1, 2}
        PROVE  at'[<<j, k>>] = at[<<j, k>>] /\ files'[<<j, k>>] = files[<<j, k>>]
    BY <1>3, <1>4 DEF Copies
  <2> QED
    BY <1>1, <1>5, <2>1 DEF Others
<1> QED
  BY <1>3, <1>6, <1>7, <1>8, OthersKept DEF IInv

\* The steps that only tell the script where it goes on.
LEMMA ControlStep ==
    ASSUME IInv, NEW i \in Installers,
           ListStaging(i) \/ Verify(i) \/ CommandFails(i) \/ Kill(i)
    PROVE  IInv'
<1>1. /\ destinations' = destinations /\ dest' = dest /\ parents' = parents
      /\ at' = at /\ files' = files /\ index' = index /\ signals' = signals
  BY DEF ListStaging, Verify, CommandFails, Kill, Goto, Leave, copies
<1>2. /\ phase' \in [Installers -> Phases] /\ code' \in [Installers -> {0, 1}]
      /\ listed' \in [Installers -> SUBSET {1, 2}]
      /\ \A j \in Installers \ {i} :
            phase'[j] = phase[j] /\ code'[j] = code[j] /\ listed'[j] = listed[j]
      /\ \/ /\ phase[i] = "list" /\ phase'[i] = "copy" /\ code'[i] = code[i]
            /\ listed'[i] = listed[i] \cup {index[i]}
         \/ /\ phase[i] = "verify" /\ phase'[i] = "move" /\ code'[i] = code[i]
            /\ listed'[i] = listed[i] /\ files[Copy(i)] # {}
         \/ /\ phase[i] \in {"stage", "verify", "move"} /\ phase'[i] = "exit" /\ code'[i] = 1
            /\ listed'[i] = listed[i]
         \/ phase'[i] = "killed"
  <2> USE DEF IInv, TypeOK, Phases, Guarded, Ended
  <2>1. CASE ListStaging(i)
    BY <2>1 DEF ListStaging
  <2>2. CASE Verify(i) /\ Skill \in files[Copy(i)]
    BY <2>2 DEF Verify, Goto
  <2>3. CASE Verify(i) /\ Skill \notin files[Copy(i)]
    BY <2>3 DEF Verify, Leave
  <2>4. CASE CommandFails(i)
    BY <2>4 DEF CommandFails, Leave
  <2>5. CASE Kill(i)
    BY <2>5 DEF Kill, Goto
  <2> QED
    BY <2>1, <2>2, <2>3, <2>4, <2>5
<1>3. TypeOK'
  BY <1>1, <1>2 DEF IInv, TypeOK
<1>4. ScriptInv(i)'
  <2>0. Progress(i) /\ StagedIsListed(i) /\ StagedIsWhole(i) /\ index[i] \in {1, 2}
    BY DEF IInv, ScriptInv, TypeOK
  <2>1. Fresh(i)' /\ Outcome(i)'
    BY <1>2 DEF Fresh, Outcome
  <2>2. Progress(i)'
    BY <1>1, <1>2, <2>0 DEF Progress, Guarded
  <2>3. StagedIsListed(i)'
    <3>1. phase[i] = "list" => \A k \in {1, 2} : at[<<i, k>>] = "staging" => k = index[i]
      <4>1. phase[i] = "list" => \A k \in {1, 2} : k = index[i] \/ at[<<i, k>>] # "staging"
        BY <2>0 DEF Progress, Guarded, Moved
      <4> QED
        BY <4>1
    <3> QED
      BY <1>1, <1>2, <2>0, <3>1 DEF StagedIsListed
  <2>4. StagedIsWhole(i)'
    BY <1>1, <1>2, <2>0 DEF StagedIsWhole, Copy
  <2> QED
    BY <2>1, <2>2, <2>3, <2>4 DEF ScriptInv
<1>5. Others(i)
  BY <1>1, <1>2 DEF Others
<1> QED
  BY <1>1, <1>3, <1>4, <1>5, OthersKept, PlacesKept DEF IInv

\* A payload is moved to its destination, or into what is there.
LEMMA MoveStep ==
    ASSUME IInv, NEW i \in Installers, Move(i)
    PROVE  IInv'
<1>0. PICK n : n = index[i]
  OBVIOUS
<1>1. /\ n \in {1, 2} /\ n \in 1..Len(destinations[i]) /\ Copy(i) = <<i, n>> /\ <<i, n>> \in Copies
      /\ Here(i) \in Homes /\ Here(i) = HomeOf(<<i, n>>)
  BY <1>0, CopyIsOwn DEF IInv
<1>2. /\ phase[i] = "move" /\ at[<<i, n>>] = "staging" /\ files[<<i, n>>] = Payload
      /\ code[i] = 0 /\ n \in listed[i]
  <2>1. phase[i] = "move" /\ at[<<i, n>>] = "staging"
    BY <1>1 DEF Move
  <2>2. Progress(i) /\ StagedIsListed(i) /\ StagedIsWhole(i)
    BY DEF IInv, ScriptInv
  <2> QED
    BY <1>0, <2>1, <2>2 DEF Progress, StagedIsListed, StagedIsWhole, Guarded
<1>3. PICK place \in Moved :
          /\ at' = [at EXCEPT ![<<i, n>>] = place]
          /\ place = "installed" => dest[Here(i)] = "absent" /\ dest' = [dest EXCEPT ![Here(i)] = "payload"]
          /\ place # "installed" => dest[Here(i)] \in {"directory", "payload"} /\ dest' = dest
  BY <1>1 DEF Move, Moved
<1>4. /\ destinations' = destinations /\ parents' = parents /\ files' = files
      /\ listed' = listed /\ signals' = signals
  BY DEF Move, Leave
<1>5. /\ phase' \in [Installers -> Phases] /\ index' \in [Installers -> {1, 2}]
      /\ code' \in [Installers -> {0, 1}]
      /\ \/ /\ n = 1 /\ Len(destinations[i]) = 2 /\ phase'[i] = "stage" /\ index'[i] = 2
            /\ code'[i] = 0
         \/ n = Len(destinations[i]) /\ phase'[i] = "exit" /\ index'[i] = 1 /\ code'[i] = 0
         \/ phase'[i] = "exit" /\ index'[i] = n /\ code'[i] = 1
      /\ \A j \in Installers \ {i} :
            phase'[j] = phase[j] /\ index'[j] = index[j] /\ code'[j] = code[j]
  <2>1. "stage" \in Phases /\ "exit" \in Phases
    BY DEF Phases, Guarded
  <2>2. CASE Advance(i, "stage", "exit") /\ code' = code
    <3>1. code' \in [Installers -> {0, 1}] /\ code'[i] = 0
      BY <1>2, <2>2 DEF IInv, TypeOK
    <3> QED
      BY <1>0, <2>1, <2>2, <3>1, LoopStep DEF IInv
  <2>3. CASE Leave(i)
    BY <1>0, <1>1, <2>1, <2>3 DEF Leave, IInv, TypeOK
  <2> QED
    BY <2>2, <2>3 DEF Move
<1>6. /\ at' \in [Copies -> {"none", "staging", "installed", "inside", "removed"}]
      /\ at'[<<i, n>>] = place
      /\ \A c \in Copies : c # <<i, n>> => at'[c] = at[c]
      /\ dest' \in [Homes -> Occupants]
      /\ \A h \in Homes : dest[h] # "absent" => dest'[h] = dest[h]
      /\ place = "installed" => dest'[Here(i)] = "payload"
  <2> USE <1>1, <1>3 DEF IInv, TypeOK, Moved, Occupants
  <2>1. CASE place = "installed"
    BY <2>1
  <2>2. CASE place # "installed"
    BY <2>2
  <2> QED
    BY <2>1, <2>2
<1>7. TypeOK'
  <2>1. ASSUME NEW j \in Installers
        PROVE  index'[j] <= Len(destinations[j])
    <3>1. PICK m : m = Len(destinations[j])
      OBVIOUS
    <3>2. index[j] <= m /\ m \in {1, 2}
      BY <3>1, CopyIsOwn DEF IInv, TypeOK
    <3>3. CASE j = i
      <4>1. (index'[i] = 2 /\ m = 2) \/ index'[i] = 1 \/ index'[i] = index[i]
        BY <1>0, <1>5, <3>1, <3>3
      <4>2. index'[i] <= m
        BY <3>2, <3>3, <4>1
      <4> QED
        BY <3>1, <3>3, <4>2
    <3>4. CASE j # i
      BY <1>5, <3>1, <3>2, <3>4
    <3> QED
      BY <3>3, <3>4
  <2> QED
    BY <1>4, <1>5, <1>6, <2>1 DEF IInv, TypeOK
<1>8. PlaceInv'
  <2>0. /\ \A c \in Copies : at[c] # "none" => c[2] \in 1..Len(destinations[c[1]])
        /\ \A c \in Copies : at[c] \in Moved => files[c] = Payload
        /\ \A c \in Copies : at[c] = "installed" => dest[HomeOf(c)] = "payload"
        /\ \A c \in Copies : at[c] = "inside" => dest[HomeOf(c)] \in {"directory", "payload"}
        /\ \A h \in Homes :
              dest[h] = "payload" => \E c \in Copies : at[c] = "installed" /\ HomeOf(c) = h
        /\ \A c, d \in Copies :
              at[c] = "installed" /\ at[d] = "installed" /\ HomeOf(d) = HomeOf(c) => d = c
    BY DEF IInv, PlaceInv
  <2> SUFFICES /\ \A c \in Copies : at'[c] # "none" => c[2] \in 1..Len(destinations[c[1]])
               /\ \A c \in Copies : at'[c] \in Moved => files[c] = Payload
               /\ \A c \in Copies : at'[c] = "installed" => dest'[HomeOf(c)] = "payload"
               /\ \A c \in Copies :
                     at'[c] = "inside" => dest'[HomeOf(c)] \in {"directory", "payload"}
               /\ \A h \in Homes :
                     dest'[h] = "payload" => \E c \in Copies : at'[c] = "installed" /\ HomeOf(c) = h
               /\ \A c, d \in Copies :
                     at'[c] = "installed" /\ at'[d] = "installed" /\ HomeOf(d) = HomeOf(c) => d = c
    BY <1>4 DEF PlaceInv, HomeOf, Copies
  <2>1. \A c \in Copies : at'[c] # "none" => c[2] \in 1..Len(destinations[c[1]])
    BY <1>1, <1>2, <1>6, <2>0
  <2>2. \A c \in Copies : at'[c] \in Moved => files[c] = Payload
    BY <1>2, <1>6, <2>0
  <2>3. ASSUME NEW c \in Copies, at'[c] = "installed"
        PROVE  dest'[HomeOf(c)] = "payload"
    <3>1. CASE c = <<i, n>>
      BY <1>1, <1>6, <2>3, <3>1
    <3>2. CASE c # <<i, n>>
      <4>1. at[c] = "installed" /\ dest[HomeOf(c)] = "payload" /\ c[2] \in 1..Len(destinations[c[1]])
        BY <1>6, <2>0, <2>3, <3>2
      <4>2. HomeOf(c) \in Homes
        BY <4>1, HomesOfCopies DEF IInv
      <4> QED
        BY <1>6, <4>1, <4>2
    <3> QED
      BY <3>1, <3>2
  <2>4. ASSUME NEW c \in Copies, NEW d \in Copies,
               at'[c] = "installed", at'[d] = "installed", HomeOf(d) = HomeOf(c)
        PROVE  d = c
    <3>1. ASSUME NEW e \in Copies, e # <<i, n>>, at'[e] = "installed", HomeOf(e) = Here(i)
          PROVE  at'[<<i, n>>] # "installed"
      BY <1>3, <1>6, <2>0, <3>1
    <3> QED
      BY <1>1, <1>6, <2>0, <2>4, <3>1
  <2>5. ASSUME NEW c \in Copies, at'[c] = "inside"
        PROVE  dest'[HomeOf(c)] \in {"directory", "payload"}
    <3>1. CASE c = <<i, n>>
      BY <1>1, <1>3, <1>6, <2>5, <3>1
    <3>2. CASE c # <<i, n>>
      <4>1. /\ dest[HomeOf(c)] \in {"directory", "payload"}
            /\ c[2] \in 1..Len(destinations[c[1]])
        BY <1>6, <2>0, <2>5, <3>2
      <4>2. HomeOf(c) \in Homes
        BY <4>1, HomesOfCopies DEF IInv
      <4> QED
        BY <1>6, <4>1, <4>2
    <3> QED
      BY <3>1, <3>2
  <2>6. ASSUME NEW h \in Homes, dest'[h] = "payload"
        PROVE  \E c \in Copies : at'[c] = "installed" /\ HomeOf(c) = h
    <3>1. CASE place = "installed" /\ h = Here(i)
      BY <1>1, <1>6, <3>1
    <3>2. CASE ~(place = "installed" /\ h = Here(i))
      <4>1. dest[h] = "payload"
        BY <1>1, <1>3, <2>6, <3>2 DEF IInv, TypeOK
      <4>2. PICK c \in Copies : at[c] = "installed" /\ HomeOf(c) = h
        BY <2>0, <4>1
      <4>3. at'[c] = "installed"
        BY <1>2, <1>6, <4>2
      <4> QED
        BY <4>2, <4>3
    <3> QED
      BY <3>1, <3>2
  <2> QED
    BY <2>1, <2>2, <2>3, <2>4, <2>5, <2>6
<1>9. ScriptInv(i)'
  <2>0. Progress(i) /\ StagedIsListed(i)
    BY DEF IInv, ScriptInv
  <2>1. /\ \A k \in {1, 2} : k # n => at'[<<i, k>>] = at[<<i, k>>]
        /\ \A k \in {1, 2} : k < n => at[<<i, k>>] \in Moved
        /\ \A k \in {1, 2} : k > n => at[<<i, k>>] = "none"
        /\ at'[<<i, n>>] \in Moved
    BY <1>0, <1>2, <1>3, <1>6, <2>0 DEF Progress, Guarded, Copies
  <2>2. Fresh(i)' /\ StagedIsWhole(i)'
    BY <1>5 DEF Fresh, StagedIsWhole
  <2>3. Progress(i)'
    <3>1. CASE n = 1 /\ phase'[i] = "stage" /\ index'[i] = 2
      <4>1. at'[<<i, 1>>] \in Moved /\ at'[<<i, 2>>] = "none"
        BY <2>1, <3>1
      <4> QED
        BY <1>2, <1>5, <3>1, <4>1 DEF Progress, Moved
    <3>2. CASE phase'[i] = "exit"
      BY <3>2 DEF Progress, Guarded
    <3> QED
      BY <1>5, <3>1, <3>2
  <2>4. StagedIsListed(i)'
    <3>1. \A k \in {1, 2} : at'[<<i, k>>] = "staging" => at[<<i, k>>] = "staging"
      BY <2>1 DEF Moved
    <3>2. \A k \in {1, 2} : at[<<i, k>>] = "staging" => k \in listed[i]
      BY <1>2, <2>0 DEF StagedIsListed
    <3> QED
      BY <1>4, <1>5, <3>1, <3>2 DEF StagedIsListed
  <2>5. Outcome(i)'
    <3>1. CASE n = Len(destinations[i]) /\ phase'[i] = "exit"
      <4>1. \A k \in {1, 2} : k <= n => at'[<<i, k>>] \in Moved
        <5>1. \A k \in {1, 2} : k <= n => k = n \/ k < n
          BY <1>1
        <5> QED
          BY <2>1, <5>1
      <4> QED
        BY <1>4, <3>1, <4>1 DEF Outcome
    <3>2. CASE phase'[i] = "stage" \/ (phase'[i] = "exit" /\ code'[i] = 1)
      BY <3>2 DEF Outcome
    <3> QED
      BY <1>5, <3>1, <3>2
  <2> QED
    BY <2>2, <2>3, <2>4, <2>5 DEF ScriptInv
<1>10. Others(i)
  <2>1. ASSUME NEW j \in Installers \ {i}, NEW k \in {1, 2}
        PROVE  at'[<<j, k>>] = at[<<j, k>>]
    BY <1>6 DEF Copies
  <2> QED
    BY <1>4, <1>5, <2>1 DEF Others
<1> QED
  BY <1>7, <1>8, <1>9, <1>10, OthersKept DEF IInv

\* The trap, which removes what is listed and still staged.
LEMMA CleanupStep ==
    ASSUME IInv, NEW i \in Installers, Exit(i) \/ Signal(i)
    PROVE  IInv'
<1>1. /\ destinations' = destinations /\ dest' = dest /\ parents' = parents
      /\ index' = index /\ listed' = listed /\ code' = code /\ Cleanup(i)
  BY DEF Exit, Signal, Goto
<1>2. \A c \in Copies :
          \/ at'[c] = at[c] /\ files'[c] = files[c]
          \/ at[c] = "staging" /\ at'[c] = "removed" /\ files'[c] = {} /\ c[1] = i
  BY <1>1 DEF Cleanup, Copies
<1>3. \A k \in {1, 2} : k \in listed[i] => at'[<<i, k>>] # "staging"
  <2>1. ASSUME NEW k \in {1, 2}, k \in listed[i]
        PROVE  at'[<<i, k>>] # "staging"
    <3>1. <<i, k>> \in Copies /\ <<i, k>> \in {<<i, m>> : m \in listed[i]}
      BY <2>1 DEF Copies
    <3>2. at'[<<i, k>>] = IF at[<<i, k>>] = "staging" THEN "removed" ELSE at[<<i, k>>]
      BY <1>1, <3>1 DEF Cleanup
    <3> QED
      BY <3>2
  <2> QED
    BY <2>1
<1>4. /\ at' \in [Copies -> {"none", "staging", "installed", "inside", "removed"}]
      /\ files' \in [Copies -> SUBSET Payload]
  BY <1>1 DEF Cleanup, IInv, TypeOK
<1>5. /\ phase' \in [Installers -> Phases] /\ signals' \in [Installers -> Nat]
      /\ \A j \in Installers \ {i} : phase'[j] = phase[j]
      /\ \/ phase'[i] = phase[i] /\ phase[i] \in Guarded
         \/ /\ phase[i] = "exit" /\ phase'[i] \in {"done", "failed"}
            /\ phase'[i] = "done" => code[i] = 0
  <2> USE DEF IInv, TypeOK, Phases, Ended
  <2>1. CASE Exit(i)
    BY <2>1 DEF Exit, Goto
  <2>2. CASE Signal(i)
    BY <2>2 DEF Signal
  <2> QED
    BY <2>1, <2>2
<1>6. TypeOK'
  BY <1>1, <1>4, <1>5 DEF IInv, TypeOK
<1>7. PlaceInv'
  <2>1. /\ \A c \in Copies : at'[c] \in Moved => at[c] = at'[c] /\ files'[c] = files[c]
        /\ \A c \in Copies : at[c] \in Moved => at'[c] = at[c]
    BY <1>2 DEF Moved
  <2>2. \A c \in Copies : at'[c] # "none" => at[c] # "none"
    BY <1>2
  <2> SUFFICES /\ \A c \in Copies : at'[c] # "none" => c[2] \in 1..Len(destinations[c[1]])
               /\ \A c \in Copies : at'[c] \in Moved => files'[c] = Payload
               /\ \A c \in Copies : at'[c] = "installed" => dest[HomeOf(c)] = "payload"
               /\ \A c \in Copies :
                     at'[c] = "inside" => dest[HomeOf(c)] \in {"directory", "payload"}
               /\ \A h \in Homes :
                     dest[h] = "payload" => \E c \in Copies : at'[c] = "installed" /\ HomeOf(c) = h
               /\ \A c, d \in Copies :
                     at'[c] = "installed" /\ at'[d] = "installed" /\ HomeOf(d) = HomeOf(c) => d = c
    BY <1>1 DEF PlaceInv, HomeOf, Copies
  <2> QED
    BY <2>1, <2>2 DEF IInv, PlaceInv, Moved
<1>8. ScriptInv(i)'
  <2>0. Progress(i) /\ StagedIsListed(i) /\ StagedIsWhole(i) /\ Outcome(i) /\ index[i] \in {1, 2}
    BY DEF IInv, ScriptInv, TypeOK
  <2>1. \A k \in {1, 2} :
            \/ at'[<<i, k>>] = at[<<i, k>>] /\ files'[<<i, k>>] = files[<<i, k>>]
            \/ at[<<i, k>>] = "staging" /\ at'[<<i, k>>] = "removed" /\ files'[<<i, k>>] = {}
    BY <1>2 DEF Copies
  <2>2. Fresh(i)'
    BY <1>5 DEF Fresh, Guarded
  <2>3. Progress(i)'
    <3>1. \A k \in {1, 2} : at'[<<i, k>>] \in Moved => at[<<i, k>>] \in Moved
      BY <2>1 DEF Moved
    <3>2. phase'[i] \in Guarded => phase[i] \in Guarded
      BY <1>5 DEF Guarded
    <3>3. at'[<<i, index[i]>>] \in Moved => at[<<i, index[i]>>] \in Moved
      BY <2>0, <3>1
    <3>4. \A k \in {1, 2} : at[<<i, k>>] \in Moved => at'[<<i, k>>] = at[<<i, k>>]
      BY <2>1 DEF Moved
    <3>5. \A k \in {1, 2} : at[<<i, k>>] = "none" => at'[<<i, k>>] = "none"
      BY <2>1
    <3> QED
      BY <1>1, <2>0, <3>2, <3>3, <3>4, <3>5 DEF Progress
  <2>4. StagedIsListed(i)'
    <3>1. \A k \in {1, 2} : at'[<<i, k>>] = "staging" => at[<<i, k>>] = "staging"
      BY <2>1
    <3> QED
      BY <1>1, <1>5, <2>0, <3>1 DEF StagedIsListed, Guarded
  <2>5. StagedIsWhole(i)'
    BY <1>1, <1>5, <2>0, <2>1 DEF StagedIsWhole
  <2>6. Outcome(i)'
    <3>1. \A k \in {1, 2} : at[<<i, k>>] \in Moved => at'[<<i, k>>] \in Moved
      BY <2>1 DEF Moved
    <3>2. phase'[i] \in {"done", "failed"} => \A k \in {1, 2} : at'[<<i, k>>] # "staging"
      <4>1. phase'[i] \in {"done", "failed"} => \A k \in {1, 2} : at[<<i, k>>] = "staging" => k \in listed[i]
        BY <1>5, <2>0 DEF StagedIsListed, Guarded
      <4> QED
        BY <1>3, <2>1, <4>1
    <3> QED
      BY <1>1, <1>5, <2>0, <3>1, <3>2 DEF Outcome, Guarded
  <2> QED
    BY <2>2, <2>3, <2>4, <2>5, <2>6 DEF ScriptInv
<1>9. Others(i)
  <2>1. ASSUME NEW j \in Installers \ {i}, NEW k \in {1, 2}
        PROVE  at'[<<j, k>>] = at[<<j, k>>] /\ files'[<<j, k>>] = files[<<j, k>>]
    BY <1>2 DEF Copies
  <2> QED
    BY <1>1, <1>5, <2>1 DEF Others
<1> QED
  BY <1>6, <1>7, <1>8, <1>9, OthersKept DEF IInv

\* Another program takes a destination that was free.
LEMMA CreateStep ==
    ASSUME IInv, NEW h \in Homes, Create(h)
    PROVE  IInv'
<1>1. /\ destinations' = destinations /\ phase' = phase /\ index' = index /\ listed' = listed
      /\ code' = code /\ signals' = signals /\ at' = at /\ files' = files
      /\ dest[h] = "absent" /\ parents' = parents \cup {h}
  BY DEF Create, script, copies
<1>2. /\ dest' \in [Homes -> Occupants]
      /\ \A g \in Homes : dest[g] # "absent" => dest'[g] = dest[g]
  BY DEF Create, IInv, TypeOK, Occupants
<1>3. TypeOK'
  BY <1>1, <1>2 DEF IInv, TypeOK
<1>4. PlaceInv'
  <2>1. ASSUME NEW c \in Copies, at[c] \in Moved
        PROVE  dest'[HomeOf(c)] = dest[HomeOf(c)]
    <3>1. HomeOf(c) \in Homes /\ dest[HomeOf(c)] # "absent"
      BY <2>1, HomesOfCopies DEF IInv, PlaceInv, Moved
    <3> QED
      BY <1>2, <3>1
  <2>2. \A g \in Homes : dest'[g] = "payload" => dest[g] = "payload"
    BY DEF Create, IInv, TypeOK
  <2> SUFFICES /\ \A c \in Copies : at[c] # "none" => c[2] \in 1..Len(destinations[c[1]])
               /\ \A c \in Copies : at[c] \in Moved => files[c] = Payload
               /\ \A c \in Copies : at[c] = "installed" => dest'[HomeOf(c)] = "payload"
               /\ \A c \in Copies :
                     at[c] = "inside" => dest'[HomeOf(c)] \in {"directory", "payload"}
               /\ \A g \in Homes :
                     dest'[g] = "payload" => \E c \in Copies : at[c] = "installed" /\ HomeOf(c) = g
               /\ \A c, d \in Copies :
                     at[c] = "installed" /\ at[d] = "installed" /\ HomeOf(d) = HomeOf(c) => d = c
    BY <1>1 DEF PlaceInv, HomeOf, Copies
  <2> QED
    BY <2>1, <2>2 DEF IInv, PlaceInv, Moved
<1>5. ASSUME NEW i \in Installers
      PROVE  ScriptInv(i)'
  <2>1. ScriptInv(i)
    BY DEF IInv
  <2> QED
    BY <1>1, <2>1 DEF ScriptInv, Fresh, Progress, StagedIsListed, StagedIsWhole, Outcome
<1> QED
  BY <1>3, <1>4, <1>5 DEF IInv

LEMMA NextHolds == IInv /\ [Next]_vars => IInv'
<1> SUFFICES ASSUME IInv, [Next]_vars
             PROVE  IInv'
  OBVIOUS
<1>1. CASE \E i \in Installers : Step(i)
  <2>1. PICK i \in Installers : Step(i)
    BY <1>1
  <2> QED
    BY <2>1, CheckStep, StagingStep, ControlStep, MoveStep, CleanupStep DEF Step
<1>2. CASE \E h \in Homes : Create(h)
  BY <1>2, CreateStep
<1>3. CASE UNCHANGED vars
  <2>1. /\ destinations' = destinations /\ phase' = phase /\ index' = index /\ listed' = listed
        /\ code' = code /\ signals' = signals /\ at' = at /\ files' = files
        /\ dest' = dest /\ parents' = parents
    BY <1>3 DEF vars, script, copies
  <2>2. TypeOK' /\ PlaceInv'
    BY <2>1, PlacesKept DEF IInv, TypeOK
  <2>3. ASSUME NEW i \in Installers
        PROVE  ScriptInv(i)'
    <3>1. ScriptInv(i)
      BY DEF IInv
    <3> QED
      BY <2>1, <3>1 DEF ScriptInv, Fresh, Progress, StagedIsListed, StagedIsWhole, Outcome
  <2> QED
    BY <2>2, <2>3 DEF IInv
<1> QED
  BY <1>1, <1>2, <1>3 DEF Next

LEMMA Inductive == Spec => []IInv
<1> QED
  BY InitHolds, NextHolds, PTL DEF Spec

--------------------------------------------------------------------------------

\* Type correctness of install.sh's state.
THEOREM TypeCorrect == Spec => []TypeOK
<1>1. IInv => TypeOK
  BY DEF IInv
<1> QED
  BY <1>1, Inductive, PTL

\* An exit status of 0 means a whole payload for every destination: at the
\* destination itself, and no second one with it, or, where another program put a
\* directory there after the check, inside that directory; for any number of
\* invocations, homes and signals.
THEOREM SuccessesAreAccounted == Spec => []SuccessAccounted
<1>1. IInv => SuccessAccounted
  <2> SUFFICES ASSUME IInv, NEW i \in Installers, phase[i] = "done",
                      NEW k \in 1..Len(destinations[i]), NEW h, h = destinations[i][k]
               PROVE  \/ /\ dest[h] = "payload"
                         /\ \E c \in Copies :
                               /\ at[c] = "installed" /\ HomeOf(c) = h /\ files[c] = Payload
                               /\ \A d \in Copies : at[d] = "installed" /\ HomeOf(d) = h => d = c
                      \/ /\ dest[h] = "directory"
                         /\ <<i, k>> \in Nested(h) /\ files[<<i, k>>] = Payload
    BY DEF SuccessAccounted
  <2>1. /\ at[<<i, k>>] \in Moved /\ <<i, k>> \in Copies /\ HomeOf(<<i, k>>) = h
        /\ h \in Homes
    <3>1. PICK n : n = Len(destinations[i])
      OBVIOUS
    <3>2. n \in {1, 2} /\ k \in 1..n
      BY <3>1, CopyIsOwn DEF IInv
    <3>3. k \in {1, 2} /\ k <= n
      BY <3>2
    <3>4. \A m \in {1, 2} : m <= n => at[<<i, m>>] \in Moved
      BY <3>1 DEF IInv, ScriptInv, Outcome
    <3>5. <<i, k>> \in Copies
      BY <3>3 DEF Copies
    <3> QED
      BY <3>3, <3>4, <3>5, HomesOfCopies DEF IInv, HomeOf
  <2>2. files[<<i, k>>] = Payload
    BY <2>1 DEF IInv, PlaceInv
  <2>3. CASE dest[h] = "payload"
    <3>1. PICK c \in Copies : at[c] = "installed" /\ HomeOf(c) = h
      BY <2>1, <2>3 DEF IInv, PlaceInv
    <3>2. files[c] = Payload
      BY <3>1 DEF IInv, PlaceInv, Moved
    <3>3. \A d \in Copies : at[d] = "installed" /\ HomeOf(d) = h => d = c
      BY <3>1 DEF IInv, PlaceInv
    <3> QED
      BY <2>3, <3>1, <3>2, <3>3
  <2>4. CASE dest[h] # "payload"
    <3>1. at[<<i, k>>] = "inside" /\ dest[h] = "directory"
      BY <2>1, <2>4 DEF IInv, PlaceInv, Moved
    <3> QED
      BY <2>1, <2>2, <3>1 DEF Nested
  <2> QED
    BY <2>3, <2>4
<1> QED
  BY <1>1, Inductive, PTL

\* A script that ends by itself leaves no staging directory.
THEOREM StagingIsCleared == Spec => []StagingCleared
<1>1. IInv => StagingCleared
  BY DEF IInv, ScriptInv, Outcome, StagingCleared
<1> QED
  BY <1>1, Inductive, PTL

Kept ==
    /\ \A h \in Homes :
          dest[h] # "absent" => dest'[h] = dest[h] /\ Nested(h) \subseteq Nested(h)'
    /\ \A c \in Copies :
          at[c] \in {"installed", "inside"} => at'[c] = at[c] /\ files'[c] = files[c]

LEMMA NextKeeps ==
    ASSUME IInv, Next
    PROVE  Kept
<1> DEFINE Stays ==
        /\ destinations' = destinations
        /\ \A h \in Homes : dest[h] # "absent" => dest'[h] = dest[h]
        /\ \A c \in Copies :
              at[c] \in {"installed", "inside"} => at'[c] = at[c] /\ files'[c] = files[c]
<1>1. ASSUME NEW i \in Installers, Step(i)
      PROVE  Stays
  <2>0. /\ Copy(i) \in Copies /\ Here(i) \in Homes
        /\ phase[i] \in Guarded => at[Copy(i)] \notin {"installed", "inside"}
    BY CopyIsOwn DEF IInv, ScriptInv, Progress, Moved, Copy
  <2>1. CASE CheckFree(i) \/ Refuse(i) \/ MakeParent(i) \/ ParentFails(i)
    BY <2>1 DEF CheckFree, Refuse, MakeParent, ParentFails, copies
  <2>2. CASE ListStaging(i) \/ Verify(i) \/ CommandFails(i) \/ Kill(i)
    BY <2>2 DEF ListStaging, Verify, CommandFails, Kill, copies
  <2>3. CASE MakeStaging(i) \/ CopyPayload(i) \/ CopyFails(i)
    BY <2>0, <2>3 DEF MakeStaging, CopyPayload, CopyFails, Guarded, IInv, TypeOK
  <2>4. CASE Move(i)
    BY <2>0, <2>4 DEF Move, Guarded, IInv, TypeOK
  <2>5. CASE Exit(i) \/ Signal(i)
    BY <2>5 DEF Exit, Signal, Cleanup
  <2> QED
    BY <1>1, <2>1, <2>2, <2>3, <2>4, <2>5 DEF Step
<1>2. ASSUME NEW h \in Homes, Create(h)
      PROVE  Stays
  BY <1>2 DEF Create, copies, IInv, TypeOK
<1>3. Stays
  BY <1>1, <1>2 DEF Next
<1>4. \A h \in Homes : Nested(h) \subseteq Nested(h)'
  BY <1>3 DEF Nested, HomeOf, Copies
<1> QED
  BY <1>3, <1>4 DEF Kept

\* No step replaces what is at a destination, takes anything out of it, or changes
\* a payload that was moved there.
THEOREM NothingIsOverwritten == Spec => NothingOverwritten
<1>1. IInv /\ [Next]_vars => [Kept]_vars
  BY NextKeeps
<1> QED
  BY <1>1, Inductive, PTL DEF Spec, NothingOverwritten, Kept

--------------------------------------------------------------------------------
\* What is left of termination without fairness.

PhasesLeft ==
    [p \in Phases |->
        IF p = "check" THEN <<15, 14>>
        ELSE IF p = "parents" THEN <<13, 12>>
        ELSE IF p = "stage" THEN <<11, 6>>
        ELSE IF p = "list" THEN <<10, 5>>
        ELSE IF p = "copy" THEN <<9, 4>>
        ELSE IF p = "verify" THEN <<8, 3>>
        ELSE IF p = "move" THEN <<7, 2>>
        ELSE IF p = "exit" THEN <<1, 1>>
        ELSE <<0, 0>>]

CommandsLeft(i) == PhasesLeft[phase[i]][index[i]]

LEMMA PhaseTable ==
    /\ PhasesLeft["check"] = <<15, 14>> /\ PhasesLeft["parents"] = <<13, 12>>
    /\ PhasesLeft["stage"] = <<11, 6>> /\ PhasesLeft["list"] = <<10, 5>>
    /\ PhasesLeft["copy"] = <<9, 4>> /\ PhasesLeft["verify"] = <<8, 3>>
    /\ PhasesLeft["move"] = <<7, 2>> /\ PhasesLeft["exit"] = <<1, 1>>
    /\ \A p \in Ended : PhasesLeft[p] = <<0, 0>>
BY DEF PhasesLeft, Phases, Guarded, Ended

LEMMA LeftType ==
    ASSUME TypeOK, NEW i \in Installers
    PROVE  CommandsLeft(i) \in 0..15 /\ (CommandsLeft(i) = 0 <=> phase[i] \in Ended)
<1>1. phase[i] \in Phases /\ index[i] \in {1, 2}
  BY DEF TypeOK
<1>2. CASE phase[i] \in Ended
  BY <1>1, <1>2, PhaseTable DEF CommandsLeft
<1>3. CASE phase[i] \notin Ended
  <2>1. /\ phase[i] \in {"check", "parents", "stage", "list", "copy", "verify", "move", "exit"}
        /\ index[i] = 1 \/ index[i] = 2
    BY <1>1, <1>3 DEF Phases, Guarded
  <2> QED
    BY <1>3, <2>1, PhaseTable DEF CommandsLeft
<1> QED
  BY <1>2, <1>3

\* A command other than a signal's trap brings the script nearer to its end.
LEMMA CommandDescends ==
    ASSUME TypeOK, NEW i \in Installers, Step(i)
    PROVE  /\ Signal(i) \/ CommandsLeft(i)' < CommandsLeft(i)
           /\ Signal(i) => CommandsLeft(i)' = CommandsLeft(i) /\ signals'[i] = signals[i] + 1
           /\ \A j \in Installers \ {i} : phase'[j] = phase[j] /\ index'[j] = index[j]
<1>1. /\ phase \in [Installers -> Phases] /\ index \in [Installers -> {1, 2}]
      /\ signals \in [Installers -> Nat]
  BY DEF TypeOK
<1>2. ASSUME NEW loop \in Phases, NEW after \in Phases, Advance(i, loop, after),
             <<phase[i], loop, after>> \in {<<"check", "check", "parents">>,
                <<"parents", "parents", "stage">>, <<"move", "stage", "exit">>}
      PROVE  /\ CommandsLeft(i)' < CommandsLeft(i)
             /\ \A j \in Installers \ {i} : phase'[j] = phase[j] /\ index'[j] = index[j]
  <2>1. /\ \/ index[i] = 1 /\ phase'[i] = loop /\ index'[i] = 2
           \/ phase'[i] = after /\ index'[i] = 1
        /\ \A j \in Installers \ {i} : phase'[j] = phase[j] /\ index'[j] = index[j]
    BY <1>2, LoopStep
  <2>2. /\ index[i] = 1 \/ index[i] = 2
        /\ \/ phase[i] = "check" /\ loop = "check" /\ after = "parents"
           \/ phase[i] = "parents" /\ loop = "parents" /\ after = "stage"
           \/ phase[i] = "move" /\ loop = "stage" /\ after = "exit"
    BY <1>1, <1>2
  <2> QED
    BY <2>1, <2>2, PhaseTable DEF CommandsLeft
<1>3. CASE CheckFree(i) \/ MakeParent(i)
           \/ (Move(i) /\ Advance(i, "stage", "exit") /\ signals' = signals)
  <2>1. {"check", "parents", "stage", "exit"} \subseteq Phases
    BY DEF Phases, Guarded
  <2>2. ~Signal(i)
    BY <1>1, <1>3 DEF CheckFree, MakeParent, Move, Signal
  <2> QED
    BY <1>2, <1>3, <2>1, <2>2 DEF CheckFree, MakeParent, Move
<1>4. ASSUME NEW next \in Phases, phase' = [phase EXCEPT ![i] = next], index' = index,
             PhasesLeft[next][index[i]] < PhasesLeft[phase[i]][index[i]]
      PROVE  /\ CommandsLeft(i)' < CommandsLeft(i)
             /\ \A j \in Installers \ {i} : phase'[j] = phase[j] /\ index'[j] = index[j]
  BY <1>1, <1>4 DEF CommandsLeft
<1>5. CASE \/ Refuse(i) \/ ParentFails(i) \/ MakeStaging(i) \/ ListStaging(i) \/ CopyPayload(i)
           \/ CopyFails(i) \/ Verify(i) \/ CommandFails(i) \/ Exit(i) \/ Kill(i)
           \/ (Move(i) /\ Leave(i))
  <2>1. PICK next \in Phases :
            /\ phase' = [phase EXCEPT ![i] = next] /\ index' = index
            /\ \/ phase[i] \notin Ended /\ next \in Ended
               \/ phase[i] = "stage" /\ next \in {"list", "exit"}
               \/ phase[i] = "list" /\ next = "copy"
               \/ phase[i] = "copy" /\ next \in {"verify", "exit"}
               \/ phase[i] = "verify" /\ next \in {"move", "exit"}
               \/ phase[i] = "move" /\ next = "exit"
    BY <1>5 DEF Refuse, ParentFails, MakeStaging, ListStaging, CopyPayload, CopyFails, Verify,
                CommandFails, Exit, Kill, Move, Goto, Leave, Phases, Guarded, Ended
  <2>2. index[i] = 1 \/ index[i] = 2
    BY <1>1
  <2>3. PhasesLeft[next][index[i]] < PhasesLeft[phase[i]][index[i]]
    <3>1. CASE phase[i] \notin Ended /\ next \in Ended
      <4>1. PhasesLeft[phase[i]][index[i]] \in 0..15 /\ PhasesLeft[phase[i]][index[i]] # 0
        BY <3>1, LeftType DEF CommandsLeft
      <4>2. PhasesLeft[next][index[i]] = 0
        BY <2>2, <3>1, PhaseTable
      <4> QED
        BY <4>1, <4>2
    <3>2. CASE ~(phase[i] \notin Ended /\ next \in Ended)
      BY <2>1, <2>2, <3>2, PhaseTable
    <3> QED
      BY <3>1, <3>2
  <2>4. ~Signal(i)
    <3>1. phase'[i] = next /\ next # phase[i]
      BY <1>1, <2>1 DEF Ended
    <3> QED
      BY <3>1 DEF Signal
  <2> QED
    BY <1>4, <2>1, <2>3, <2>4
<1>6. CASE Signal(i)
  BY <1>1, <1>6 DEF Signal, CommandsLeft
<1>7. Move(i) => (Advance(i, "stage", "exit") /\ signals' = signals) \/ Leave(i)
  BY DEF Move
<1> QED
  BY <1>3, <1>5, <1>6, <1>7 DEF Step

\* In any overlap of invocations, failures, signals and other programs, every
\* command of an invocation brings it nearer to its end and nobody else sets it
\* back: it ends after 15 commands at most, and a signal, whose trap only adds a
\* run of cleanup, does not make it start again (install.sh:97-122).
InvocationsDescend ==
    [][\A i \in Installers :
        /\ CommandsLeft(i) \in 0..15
        /\ Step(i) /\ ~Signal(i) => CommandsLeft(i)' < CommandsLeft(i)
        /\ Signal(i) \/ ~Step(i) => CommandsLeft(i)' = CommandsLeft(i)]_vars

THEOREM InvocationsAreBounded == Spec => InvocationsDescend
<1>1. ASSUME IInv, Next, NEW i \in Installers
      PROVE  /\ CommandsLeft(i) \in 0..15
             /\ Step(i) /\ ~Signal(i) => CommandsLeft(i)' < CommandsLeft(i)
             /\ Signal(i) \/ ~Step(i) => CommandsLeft(i)' = CommandsLeft(i)
  <2>1. TypeOK
    BY <1>1 DEF IInv
  <2>2. ASSUME ~Step(i)
        PROVE  CommandsLeft(i)' = CommandsLeft(i)
    <3>1. CASE \E j \in Installers : Step(j)
      <4>1. PICK j \in Installers : Step(j)
        BY <3>1
      <4>2. phase'[i] = phase[i] /\ index'[i] = index[i]
        BY <2>1, <2>2, <4>1, CommandDescends
      <4> QED
        BY <4>2 DEF CommandsLeft
    <3>2. CASE \E h \in Homes : Create(h)
      BY <3>2 DEF Create, script, CommandsLeft
    <3> QED
      BY <1>1, <3>1, <3>2 DEF Next
  <2>3. Signal(i) => Step(i)
    BY DEF Step
  <2> QED
    BY <2>1, <2>2, <2>3, CommandDescends, LeftType
<1>2. IInv /\ [Next]_vars =>
        [\A i \in Installers :
            /\ CommandsLeft(i) \in 0..15
            /\ Step(i) /\ ~Signal(i) => CommandsLeft(i)' < CommandsLeft(i)
            /\ Signal(i) \/ ~Step(i) => CommandsLeft(i)' = CommandsLeft(i)]_vars
  BY <1>1
<1> QED
  BY <1>2, Inductive, PTL DEF Spec, InvocationsDescend

\* What is true of "a bad target path cannot leave a partial install"
\* (install.sh:97): an invocation that ends while it looks at the destinations or
\* makes their parents, even if it is killed there, has staged and installed
\* nothing at any of them.  What comes later is NoPartialInstall, which fails.
BadPathsLeaveNothing ==
    [][\A i \in Installers :
        phase[i] \in {"check", "parents"} /\ phase'[i] \in Ended =>
            \A k \in {1, 2} : at'[<<i, k>>] = "none"]_vars

THEOREM BadPathsAreHarmless == Spec => BadPathsLeaveNothing
<1>1. ASSUME IInv, Next, NEW i \in Installers,
             phase[i] \in {"check", "parents"}, phase'[i] \in Ended
      PROVE  \A k \in {1, 2} : at'[<<i, k>>] = "none"
  <2>1. \A k \in {1, 2} : at[<<i, k>>] = "none"
    BY <1>1 DEF IInv, ScriptInv, Fresh
  <2>2. phase'[i] # phase[i]
    BY <1>1 DEF Ended
  <2>3. ASSUME NEW j \in Installers, Step(j)
        PROVE  at' = at
    <3>1. j = i
      BY <1>1, <2>2, <2>3, CommandDescends DEF IInv
    <3> QED
      BY <1>1, <2>3, <3>1 DEF Step, CheckFree, Refuse, MakeParent, ParentFails, MakeStaging,
         ListStaging, CopyPayload, CopyFails, Verify, Move, CommandFails, Exit, Signal, Kill,
         copies, Guarded
  <2>4. ASSUME NEW h \in Homes, Create(h)
        PROVE  at' = at
    BY <2>4 DEF Create, copies
  <2> QED
    BY <1>1, <2>1, <2>3, <2>4 DEF Next
<1>2. IInv /\ [Next]_vars =>
        [\A i \in Installers :
            phase[i] \in {"check", "parents"} /\ phase'[i] \in Ended =>
                \A k \in {1, 2} : at'[<<i, k>>] = "none"]_vars
  BY <1>1
<1> QED
  BY <1>2, Inductive, PTL DEF Spec, BadPathsLeaveNothing

\* An invocation that has not yet looked at a destination that is there, or has
\* ended without a copy anywhere.
Refused(i) ==
    \/ /\ phase[i] = "check"
       /\ \E k \in {1, 2} : /\ index[i] <= k /\ k <= Len(destinations[i])
                            /\ dest[destinations[i][k]] # "absent"
    \/ phase[i] \in {"failed", "killed"} /\ \A k \in {1, 2} : at[<<i, k>>] = "none"

\* What is true of "an existing destination is refused" (README.md:62): if a
\* selected destination is there before it is looked at, nothing that the
\* invocation or anybody else does lets it stage or install at any of them.  One
\* that appears later is ExistingIsRefused, which fails.
ExistingStaysRefused == [][\A i \in Installers : Refused(i) => Refused(i)']_vars

THEOREM ExistingAreRefused == Spec => ExistingStaysRefused
<1>1. ASSUME IInv, Next, NEW i \in Installers, Refused(i)
      PROVE  Refused(i)'
  <2>1. /\ destinations' = destinations
        /\ \A h \in Homes : dest[h] # "absent" => dest'[h] # "absent"
    <3>1. destinations' = destinations
      BY <1>1 DEF Next, Step, Create, CheckFree, Refuse, MakeParent, ParentFails, MakeStaging,
         ListStaging, CopyPayload, CopyFails, Verify, Move, CommandFails, Exit, Signal, Kill
    <3> QED
      BY <1>1, <3>1, NextKeeps DEF Kept
  <2>2. \A k \in {1, 2} : k <= Len(destinations[i]) => destinations[i][k] \in Homes
    <3>1. destinations[i] \in Selections
      BY <1>1 DEF IInv, TypeOK
    <3>2. CASE \E h \in Homes : destinations[i] = <<h>>
      BY <3>2
    <3>3. CASE \E g, h \in Homes : destinations[i] = <<g, h>>
      BY <3>3
    <3> QED
      BY <3>1, <3>2, <3>3 DEF Selections
  <2>3. /\ phase[i] \in {"check", "failed", "killed"}
        /\ \A k \in {1, 2} : at[<<i, k>>] = "none"
    BY <1>1 DEF Refused, IInv, ScriptInv, Fresh
  <2>4. CASE \E h \in Homes : Create(h)
    <3>1. /\ phase' = phase /\ index' = index /\ at' = at
      BY <2>4 DEF Create, script, copies
    <3> QED
      BY <1>1, <2>1, <2>2, <3>1 DEF Refused
  <2>5. ASSUME NEW j \in Installers, Step(j), j # i
        PROVE  Refused(i)'
    <3>1. phase'[i] = phase[i] /\ index'[i] = index[i]
      BY <1>1, <2>5, CommandDescends DEF IInv
    <3>2. ASSUME NEW k \in {1, 2}
          PROVE  at'[<<i, k>>] = at[<<i, k>>]
      <4>1. /\ <<i, k>> \in Copies /\ <<i, k>> # Copy(j)
            /\ at = [c \in Copies |-> at[c]]
        BY <1>1, <2>5 DEF Copies, Copy, IInv, TypeOK
      <4>2. \A m \in listed[j] : <<j, m>> # <<i, k>>
        BY <2>5
      <4> QED
        BY <2>5, <4>1, <4>2 DEF Step, CheckFree, Refuse, MakeParent, ParentFails, MakeStaging,
           ListStaging, CopyPayload, CopyFails, Verify, Move, CommandFails, Exit, Signal, Kill,
           Cleanup, copies
    <3> QED
      BY <1>1, <2>1, <2>2, <3>1, <3>2 DEF Refused
  <2>6. CASE Step(i)
    <3>1. phase[i] = "check" /\ (CheckFree(i) \/ Refuse(i) \/ Kill(i))
      BY <2>3, <2>6 DEF Step, MakeParent, ParentFails, MakeStaging, ListStaging, CopyPayload,
         CopyFails, Verify, Move, CommandFails, Exit, Signal, Kill, Guarded, Ended, Refuse,
         CheckFree
    <3>2. at' = at
      BY <3>1 DEF CheckFree, Refuse, Kill, copies
    <3>3. CASE Refuse(i) \/ Kill(i)
      <4>1. phase'[i] \in {"failed", "killed"}
        BY <1>1, <3>3 DEF Refuse, Kill, Goto, IInv, TypeOK
      <4> QED
        BY <2>3, <3>2, <4>1 DEF Refused
    <3>4. CASE CheckFree(i)
      <4>1. PICK k \in {1, 2} : /\ index[i] <= k /\ k <= Len(destinations[i])
                                /\ dest[destinations[i][k]] # "absent"
        BY <1>1, <3>1 DEF Refused
      <4>2. k # index[i]
        BY <3>4, <4>1 DEF CheckFree, Here
      <4>3. index[i] = 1 /\ k = 2 /\ Len(destinations[i]) = 2
        <5>1. PICK n : n = Len(destinations[i])
          OBVIOUS
        <5>2. n \in {1, 2} /\ index[i] \in {1, 2} /\ index[i] <= k /\ k <= n
          BY <1>1, <4>1, <5>1, CopyIsOwn DEF IInv
        <5>3. index[i] = 1 /\ k = 2 /\ n = 2
          BY <4>2, <5>2
        <5> QED
          BY <5>1, <5>3
      <4>4. phase'[i] = "check" /\ index'[i] = 2
        BY <1>1, <3>4, <4>3 DEF CheckFree, Advance, IInv, TypeOK
      <4>5. dest'[destinations'[i][2]] # "absent" /\ Len(destinations'[i]) = 2
        BY <2>1, <2>2, <4>1, <4>3
      <4> QED
        BY <4>4, <4>5 DEF Refused
    <3> QED
      BY <3>1, <3>3, <3>4
  <2> QED
    BY <1>1, <2>4, <2>5, <2>6 DEF Next
<1>2. IInv /\ [Next]_vars => [\A i \in Installers : Refused(i) => Refused(i)']_vars
  BY <1>1
<1> QED
  BY <1>2, Inductive, PTL DEF Spec, ExistingStaysRefused
================================================================================
