------------------------------- MODULE Installer -------------------------------
\* install.sh: the Agent Skill is copied into the skills directories of the
\* selected homes.  Every selected destination is looked at before anything is
\* created, the parents are made before any payload, and each payload is put
\* together in a staging directory beside its destination and moved into place.
\* Several invocations may run at once, other programs create destinations in
\* between, every command may fail (`set -e` then ends the script through its
\* EXIT trap), a HUP, INT or TERM runs the trap and the script goes on, and a
\* KILL ends it where it stands.
EXTENDS Naturals, Sequences, FiniteSets

CONSTANTS Installers,   \* the invocations of the script
          Homes,        \* the values of CODEX_HOME and CLAUDE_HOME, which may agree
          Payload,      \* the files of the Skill
          Skill,        \* SKILL.md, the file that is looked for
          MaxSignals    \* bound: the signals delivered to one invocation

ASSUME PayloadAssumption == Skill \in Payload

VARIABLES
    destinations,   \* DESTINATIONS of each invocation, a home for each destination
    dest,           \* what is at the destination of each home
    parents,        \* the homes whose skills directory exists
    phase, index,   \* the next command of each invocation, and the destination it is about
    listed,         \* STAGING_DIRS: the destinations whose staging directory is listed
    code,           \* the exit status, once the script is leaving
    at, files,      \* where the copy of each invocation for each destination is, what it holds
    signals

script == <<phase, index, listed, code, signals>>
copies == <<at, files>>
vars == <<destinations, dest, parents, script, copies>>

\* A link to a directory is treated as one; so is a dangling link as a file.
Occupants == {"absent", "directory", "file", "payload"}

Guarded == {"stage", "list", "copy", "verify", "move"}   \* the commands after the trap is set

Ended == {"done", "failed", "killed"}

Phases == {"check", "parents", "exit"} \cup Guarded \cup Ended

\* `--target all`, `codex` and `claude`.
Selections == {<<codex, claude>> : codex, claude \in Homes} \cup {<<home>> : home \in Homes}

Copies == Installers \X {1, 2}

Here(i) == destinations[i][index[i]]

Copy(i) == <<i, index[i]>>

Init ==
    /\ destinations \in [Installers -> Selections]
    /\ dest = [h \in Homes |-> "absent"]
    /\ parents = {}
    /\ phase = [i \in Installers |-> "check"]
    /\ index = [i \in Installers |-> 1]
    /\ listed = [i \in Installers |-> {}]
    /\ code = [i \in Installers |-> 0]
    /\ signals = [i \in Installers |-> 0]
    /\ at = [c \in Copies |-> "none"]
    /\ files = [c \in Copies |-> {}]

\* Mutant: the loops run once more than there are destinations.
AdvanceTooFar(i, loop, after) ==
    IF index[i] <= Len(destinations[i])
    THEN /\ index' = [index EXCEPT ![i] = @ + 1]
         /\ phase' = [phase EXCEPT ![i] = loop]
    ELSE /\ index' = [index EXCEPT ![i] = 1]
         /\ phase' = [phase EXCEPT ![i] = after]

\* The next destination of a loop over all of them, or what follows the loop.
Advance(i, loop, after) ==
    IF index[i] < Len(destinations[i])
    THEN /\ index' = [index EXCEPT ![i] = @ + 1]
         /\ phase' = [phase EXCEPT ![i] = loop]
    ELSE /\ index' = [index EXCEPT ![i] = 1]
         /\ phase' = [phase EXCEPT ![i] = after]

Goto(i, next) ==
    /\ phase' = [phase EXCEPT ![i] = next]
    /\ UNCHANGED <<index, listed, code, signals>>

\* A command failed under `set -e`.
Leave(i) ==
    /\ phase' = [phase EXCEPT ![i] = "exit"]
    /\ code' = [code EXCEPT ![i] = 1]
    /\ UNCHANGED <<index, listed, signals>>

\* Mutant: what is listed is what the payload is moved to, not the staging directory.
CleanupDestinations(i) ==
    LET cleared == {<<i, k>> : k \in listed[i]} IN
    /\ at' = [c \in Copies |-> IF c \in cleared THEN "removed" ELSE at[c]]
    /\ files' = [c \in Copies |-> IF c \in cleared THEN {} ELSE files[c]]

\* rm -rf of every listed staging directory; what was moved away is not there any more.
Cleanup(i) ==
    LET cleared == {<<i, k>> : k \in listed[i]} IN
    /\ at' = [c \in Copies |-> IF c \in cleared /\ at[c] = "staging" THEN "removed" ELSE at[c]]
    /\ files' = [c \in Copies |-> IF c \in cleared /\ at[c] = "staging" THEN {} ELSE files[c]]

--------------------------------------------------------------------------------

CheckFree(i) ==
    /\ phase[i] = "check"
    /\ dest[Here(i)] = "absent"
    /\ Advance(i, "check", "parents")
    /\ UNCHANGED <<destinations, dest, parents, listed, code, signals, copies>>

\* exit 1, and no trap is set yet.
Refuse(i) ==
    /\ phase[i] = "check"
    /\ dest[Here(i)] # "absent"
    /\ Goto(i, "failed")
    /\ UNCHANGED <<destinations, dest, parents, copies>>

MakeParent(i) ==
    /\ phase[i] = "parents"
    /\ parents' = parents \cup {Here(i)}
    /\ Advance(i, "parents", "stage")
    /\ UNCHANGED <<destinations, dest, listed, code, signals, copies>>

\* mkdir fails, and no trap is set yet.
ParentFails(i) ==
    /\ phase[i] = "parents"
    /\ Goto(i, "failed")
    /\ UNCHANGED <<destinations, dest, parents, copies>>

MakeStaging(i) ==
    /\ phase[i] = "stage"
    /\ at' = [at EXCEPT ![Copy(i)] = "staging"]
    /\ Goto(i, "list")
    /\ UNCHANGED <<destinations, dest, parents, files>>

ListStaging(i) ==
    /\ phase[i] = "list"
    /\ listed' = [listed EXCEPT ![i] = @ \cup {index[i]}]
    /\ phase' = [phase EXCEPT ![i] = "copy"]
    /\ UNCHANGED <<destinations, dest, parents, index, code, signals, copies>>

\* cp -pR makes the staging directory again when the trap has removed it.
CopyPayload(i) ==
    /\ phase[i] = "copy"
    /\ at' = [at EXCEPT ![Copy(i)] = "staging"]
    /\ files' = [files EXCEPT ![Copy(i)] = Payload]
    /\ Goto(i, "verify")
    /\ UNCHANGED <<destinations, dest, parents>>

\* Mutant: a cp that fails does not end the script.
CopyGoesOn(i) ==
    /\ phase[i] = "copy"
    /\ \E part \in SUBSET Payload : files' = [files EXCEPT ![Copy(i)] = part]
    /\ at' = [at EXCEPT ![Copy(i)] = "staging"]
    /\ Goto(i, "verify")
    /\ UNCHANGED <<destinations, dest, parents>>

CopyFails(i) ==
    /\ phase[i] = "copy"
    /\ \E part \in SUBSET Payload : files' = [files EXCEPT ![Copy(i)] = part]
    /\ at' = [at EXCEPT ![Copy(i)] = "staging"]
    /\ Leave(i)
    /\ UNCHANGED <<destinations, dest, parents>>

Verify(i) ==
    /\ phase[i] = "verify"
    /\ IF Skill \in files[Copy(i)] THEN Goto(i, "move") ELSE Leave(i)
    /\ UNCHANGED <<destinations, dest, parents, copies>>

\* mv onto a free name renames; mv onto a directory moves into it and succeeds.
\* The echo that follows may fail, with the payload moved.
Move(i) ==
    /\ phase[i] = "move"
    /\ at[Copy(i)] = "staging"
    /\ \/ /\ dest[Here(i)] = "absent"
          /\ dest' = [dest EXCEPT ![Here(i)] = "payload"]
          /\ at' = [at EXCEPT ![Copy(i)] = "installed"]
       \/ /\ dest[Here(i)] \in {"directory", "payload"}
          /\ at' = [at EXCEPT ![Copy(i)] = "inside"]
          /\ dest' = dest
    /\ \/ Advance(i, "stage", "exit") /\ UNCHANGED <<listed, code, signals>>
       \/ Leave(i)
    /\ UNCHANGED <<destinations, parents, files>>

\* mktemp or mv fails: always when mv finds no source, or a file at the destination.
CommandFails(i) ==
    /\ phase[i] \in {"stage", "move"}
    /\ Leave(i)
    /\ UNCHANGED <<destinations, dest, parents, copies>>

\* Mutant: the trap is set for HUP, INT and TERM only.
ExitAtOnce(i) ==
    /\ phase[i] = "exit"
    /\ Goto(i, IF code[i] = 0 THEN "done" ELSE "failed")
    /\ UNCHANGED <<destinations, dest, parents, copies>>

\* The EXIT trap.
Exit(i) ==
    /\ phase[i] = "exit"
    /\ Cleanup(i)
    /\ Goto(i, IF code[i] = 0 THEN "done" ELSE "failed")
    /\ UNCHANGED <<destinations, dest, parents>>

\* The trap for HUP, INT and TERM cleans up between two commands; the script goes on.
Signal(i) ==
    /\ phase[i] \in Guarded
    /\ signals[i] < MaxSignals
    /\ signals' = [signals EXCEPT ![i] = @ + 1]
    /\ Cleanup(i)
    /\ UNCHANGED <<destinations, dest, parents, phase, index, listed, code>>

\* SIGKILL at any time, or any of the signals before the trap is set.
Kill(i) ==
    /\ phase[i] \notin Ended
    /\ Goto(i, "killed")
    /\ UNCHANGED <<destinations, dest, parents, copies>>

\* Another program creates what is at a destination.
Create(h) ==
    /\ dest[h] = "absent"
    /\ \E occupant \in {"directory", "file"} : dest' = [dest EXCEPT ![h] = occupant]
    /\ parents' = parents \cup {h}
    /\ UNCHANGED <<destinations, script, copies>>

Step(i) ==
    \/ CheckFree(i) \/ Refuse(i) \/ MakeParent(i) \/ ParentFails(i)
    \/ MakeStaging(i) \/ ListStaging(i) \/ CopyPayload(i) \/ CopyFails(i) \/ Verify(i)
    \/ Move(i) \/ CommandFails(i) \/ Exit(i) \/ Signal(i) \/ Kill(i)

Next == (\E i \in Installers : Step(i)) \/ (\E h \in Homes : Create(h))

Spec == Init /\ [][Next]_vars

--------------------------------------------------------------------------------

TypeOK ==
    /\ destinations \in [Installers -> Selections]
    /\ dest \in [Homes -> Occupants]
    /\ parents \subseteq Homes
    /\ phase \in [Installers -> Phases]
    /\ index \in [Installers -> {1, 2}]
    /\ \A i \in Installers : index[i] <= Len(destinations[i])
    /\ listed \in [Installers -> SUBSET {1, 2}]
    /\ code \in [Installers -> {0, 1}]
    /\ signals \in [Installers -> Nat]
    /\ at \in [Copies -> {"none", "staging", "installed", "inside", "removed"}]
    /\ files \in [Copies -> SUBSET Payload]

HomeOf(c) == destinations[c[1]][c[2]]

\* What mv has put into the directory at a destination.
Nested(h) == {c \in Copies : at[c] = "inside" /\ HomeOf(c) = h}

\* What is at a destination is never replaced or taken away, whoever created it
\* and whenever, and no file of a payload that was moved changes: two
\* invocations that both found a home free cannot both have its destination, and
\* neither the trap nor a failed copy touches what was moved into place.  A
\* directory at a destination, an installed payload too, only gains: mv may add
\* a payload to it (install.sh:122).  This is how far the usage text, "without
\* overwriting an existing target" (install.sh:21), is true.
NothingOverwritten ==
    [][/\ \A h \in Homes :
              dest[h] # "absent" => dest'[h] = dest[h] /\ Nested(h) \subseteq Nested(h)'
       /\ \A c \in Copies :
              at[c] \in {"installed", "inside"} => at'[c] = at[c] /\ files'[c] = files[c]]_vars

\* An invocation that ends with status 0 leaves at each of its destinations one
\* whole payload, its own or that of another invocation, however many signals it
\* went on after; only where another program put a directory there after the
\* check is its payload, whole as well, inside that directory instead.
SuccessAccounted ==
    \A i \in Installers :
        phase[i] = "done" =>
            \A k \in 1..Len(destinations[i]) :
                LET h == destinations[i][k] IN
                \/ /\ dest[h] = "payload"
                   /\ \E c \in Copies :
                         /\ at[c] = "installed" /\ HomeOf(c) = h /\ files[c] = Payload
                         /\ \A d \in Copies : at[d] = "installed" /\ HomeOf(d) = h => d = c
                \/ /\ dest[h] = "directory"
                   /\ <<i, k>> \in Nested(h) /\ files[<<i, k>>] = Payload

\* An invocation that ends by itself leaves no staging directory, whichever of
\* its commands failed and whenever a signal ran the trap before (a killed one
\* leaves what it had).
StagingCleared ==
    \A i \in Installers :
        phase[i] \in {"done", "failed"} => \A k \in {1, 2} : at[<<i, k>>] # "staging"

\* What README.md:71-76 has a reader verify after an installation, and
\* tests/test_install.py:42-49 after status 0: the Skill is at every destination
\* itself.  It does not hold: mv also succeeds on a directory that appeared there
\* after the check, and the Skill is one level down.
SuccessMeansInstalled ==
    \A i \in Installers :
        phase[i] = "done" =>
            \A k \in 1..Len(destinations[i]) : dest[destinations[i][k]] = "payload"

\* What the script's comment says of a bad target path (install.sh:97): an
\* invocation that fails has installed nothing.  It does not hold: mktemp in an
\* existing parent, cp, mv and echo may still fail for the second destination.
NoPartialInstall ==
    \A i \in Installers :
        phase[i] = "failed" => \A k \in {1, 2} : at[<<i, k>>] \notin {"installed", "inside"}

\* What README.md:62 says: an existing destination is refused.  It does not
\* hold: one that appears after the check, foreign or installed by another
\* invocation, or the first of two destinations that are the same directory,
\* gets a payload moved into it.
ExistingIsRefused == \A h \in Homes : Nested(h) = {}

================================================================================
