------------------------------ MODULE RunStore ------------------------------
(***************************************************************************)
(* What one run directory promises to the people who call `decompile` on   *)
(* it, whatever the program does underneath: the directory is claimed at   *)
(* most once, ends either sealed with one result or spoiled for good, and  *)
(* every successful call gets the sealed result.                           *)
(*                                                                         *)
(* Pipeline implements this module (property RunStoreSpec there).          *)
(***************************************************************************)
CONSTANTS Callers,      \* calls of `decompile` on the directory
          Results,      \* analysis results
          NoResult      \* the value of a call that has returned nothing

VARIABLES slot,         \* the directory: empty, claimed, sealed or spoiled
          answer        \* answer[c]: what call c returned to its caller

storeVars == <<slot, answer>>

Empty == [state |-> "empty"]
Claimed == [state |-> "claimed"]
Spoiled == [state |-> "spoiled"]
Sealed(r) == [state |-> "sealed", result |-> r]

StoreTypeOK ==
  /\ slot \in {Empty, Claimed, Spoiled} \cup {Sealed(r) : r \in Results}
  /\ answer \in [Callers -> Results \cup {NoResult}]

StoreInit ==
  /\ slot = Empty
  /\ answer = [c \in Callers |-> NoResult]

(* A call starts a fresh run.                                              *)
Claim ==
  /\ slot = Empty
  /\ slot' = Claimed
  /\ UNCHANGED answer

(* The claiming call finishes: its result is sealed and handed over in one *)
(* step, the publication of the complete manifest.                         *)
Seal(c, r) ==
  /\ slot = Claimed
  /\ answer[c] = NoResult
  /\ slot' = Sealed(r)
  /\ answer' = [answer EXCEPT ![c] = r]

(* The claiming call fails or dies.                                        *)
Spoil ==
  /\ slot = Claimed
  /\ slot' = Spoiled
  /\ UNCHANGED answer

(* A later call resumes the sealed run.                                    *)
Serve(c) ==
  /\ slot.state = "sealed"
  /\ answer[c] = NoResult
  /\ answer' = [answer EXCEPT ![c] = slot.result]
  /\ UNCHANGED slot

StoreNext ==
  \/ Claim
  \/ Spoil
  \/ \E c \in Callers : Serve(c) \/ \E r \in Results : Seal(c, r)

StoreSpec == StoreInit /\ [][StoreNext]_storeVars

-----------------------------------------------------------------------------
(* No two calls on one directory ever return different results, and what a *)
(* call returned is what the directory holds.                              *)
OneResult ==
  \A c \in Callers :
    answer[c] # NoResult =>
      /\ slot.state = "sealed"
      /\ answer[c] = slot.result

=============================================================================
