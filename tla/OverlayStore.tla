---------------------------- MODULE OverlayStore ----------------------------
(***************************************************************************)
(* What the agent layer of one complete run promises: at any time at most  *)
(* one proposal is bound to the run; while none is, nobody is told that    *)
(* one was applied or rendered.  Binding replaces what was bound, and may  *)
(* pass through a state in which nothing is.                               *)
(*                                                                         *)
(* Overlay implements this module (property OverlayStoreSpec there).       *)
(***************************************************************************)
CONSTANTS Callers,      \* calls of `agent apply` and `agent render`
          Proposals,    \* proposals that may be bound to the run
          NoAnswer      \* the value of a call that has not succeeded

VARIABLES bound,        \* the set of proposals bound to the run: at most one
          told          \* told[c]: the proposal call c reported success for

overlayVars == <<bound, told>>

OverlayInit ==
  /\ bound = {}
  /\ told = [c \in Callers |-> NoAnswer]

Bind(a) ==
  /\ bound' = {a}
  /\ UNCHANGED told

Unbind ==
  /\ bound' = {}
  /\ UNCHANGED told

(* A call succeeds: it has applied, or rendered, the bound proposal.       *)
Tell(c) ==
  /\ told[c] = NoAnswer
  /\ \E a \in bound : told' = [told EXCEPT ![c] = a]
  /\ UNCHANGED bound

OverlayNext ==
  \/ Unbind
  \/ \E a \in Proposals : Bind(a)
  \/ \E c \in Callers : Tell(c)

StoreSpec == OverlayInit /\ [][OverlayNext]_overlayVars

=============================================================================
