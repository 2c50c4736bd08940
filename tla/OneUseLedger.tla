---------------------------- MODULE OneUseLedger ----------------------------
(***************************************************************************)
(* What an authorization ledger promises: a decision is used once, by an   *)
(* envelope of the epoch in force, and where a human is needed by the one  *)
(* grant that was given for that envelope.  An envelope has the fields     *)
(* auth, the decision it stands for, and epoch.                            *)
(***************************************************************************)
EXTENDS Naturals

CONSTANTS Envelopes, Needed(_)   \* whether a decision needs a human

VARIABLES
  epoch,       \* the stop epoch
  granted,     \* envelopes with a grant
  closed,      \* envelopes whose grant was used or revoked
  consumed     \* decisions that were used

ledgerVars == <<epoch, granted, closed, consumed>>

Init == epoch = 0 /\ granted = {} /\ closed = {} /\ consumed = {}

Bump == epoch' \in Nat /\ epoch' > epoch /\ UNCHANGED <<granted, closed, consumed>>

Issue(v) ==
  /\ v.epoch = epoch /\ v \notin granted \cup closed
  /\ granted' = granted \cup {v}
  /\ UNCHANGED <<epoch, closed, consumed>>

Revoke(v) ==
  /\ v \in granted
  /\ granted' = granted \ {v} /\ closed' = closed \cup {v}
  /\ UNCHANGED <<epoch, consumed>>

Allowed(v) ==
  /\ v.epoch = epoch /\ v.auth \notin consumed
  /\ Needed(v.auth) => v \in granted

Consume(v) ==
  /\ Allowed(v)
  /\ consumed' = consumed \cup {v.auth}
  /\ IF Needed(v.auth) THEN granted' = granted \ {v} /\ closed' = closed \cup {v}
     ELSE UNCHANGED <<granted, closed>>
  /\ UNCHANGED epoch

Next ==
  \/ Bump
  \/ \E v \in Envelopes : Issue(v) \/ Revoke(v) \/ Consume(v)

Spec == Init /\ [][Next]_ledgerVars
=============================================================================
