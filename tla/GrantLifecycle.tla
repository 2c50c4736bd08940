--------------------------- MODULE GrantLifecycle ---------------------------
(***************************************************************************)
(* What a publication grant promises, without any of the machinery that    *)
(* keeps the promise: each request digest has one durable record that      *)
(* moves through the lifecycle of tools/publication-broker/internal/grant, *)
(* and somebody may be told that the record has reached a terminal state.  *)
(* What they are told is the truth when they are told it, and a terminal   *)
(* record never moves again, so it stays the truth.                        *)
(*                                                                         *)
(* The store writes all its records with one rename, so one step may move  *)
(* several records.                                                        *)
(***************************************************************************)
CONSTANTS
  Digest,     \* request digests; a grant is bound to exactly one of them
  Record      \* durable records; every one has a field "state"

VARIABLES
  durable,    \* durable[d]: the record of d a restarted process would load
  told        \* told[d]: the terminal states anybody was told d has reached

vars == <<durable, told>>

Terminal == {"PUBLISHED", "BLOCKED", "REVOKED", "EXPIRED"}

(* The states a record may be written over with.  "NONE" is a digest that *)
(* no grant has been created for.                                         *)
Successor ==
  [s \in {"NONE", "AUTHORIZED", "IN_PROGRESS"} \cup Terminal |->
     CASE s = "NONE"        -> {"AUTHORIZED"}
       [] s = "AUTHORIZED"  -> {"IN_PROGRESS", "BLOCKED", "REVOKED", "EXPIRED"}
       [] s = "IN_PROGRESS" -> {"IN_PROGRESS", "PUBLISHED", "BLOCKED", "REVOKED"}
       [] OTHER             -> {}]

Init ==
  /\ durable \in [Digest -> {g \in Record : g.state = "NONE"}]
  /\ told = [d \in Digest |-> {}]

Moves(d) ==
  \/ durable'[d] = durable[d]
  \/ durable'[d].state \in Successor[durable[d].state]

(* Anything told in a step is what the record says at the end of it.      *)
Tells(d) ==
  \/ told'[d] = told[d]
  \/ /\ durable'[d].state \in Terminal
     /\ told'[d] = told[d] \cup {durable'[d].state}

Next ==
  /\ durable' \in [Digest -> Record]
  /\ told' \in [Digest -> SUBSET Terminal]
  /\ \A d \in Digest : Moves(d) /\ Tells(d)

Spec == Init /\ [][Next]_vars
=============================================================================
