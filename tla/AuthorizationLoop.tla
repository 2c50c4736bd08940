-------------------------- MODULE AuthorizationLoop --------------------------
(***************************************************************************)
(* From a council's decision to an executed action: the binder of          *)
(* scripts/dev/authorization-binder.mjs, the loop of                       *)
(* authorization-loop.mjs with its executor and verifier, and several such *)
(* loops over one ledger.                                                  *)
(*                                                                         *)
(* The ledger is the one-use ledger its own specification implements; it   *)
(* derives the envelope again from the records it was constructed with.    *)
(* A loop can be overtaken where it awaits: the ledger and the stop check. *)
(* Reasons of a denial are not told apart.                                 *)
(***************************************************************************)
EXTENDS CouncilProof, Sequences

CONSTANTS
  Loop,
  Task,          \* task records [id, blocked]; one the ledger has for each id
  Other,         \* task records it does not have
  Action,        \* actions a caller asks for
  HardMax,       \* HARD_MAX_ITERATIONS
  Requested,     \* the maxIterations callers pass
  MaxFixtures,   \* bound on the fixtures of a loop
  MaxEpoch       \* bound on the stop epoch

ASSUME LoopAssumption ==
  /\ \A t, u \in Task : t.id = u.id => t = u
  /\ \A r \in Request : \E t \in Task : t.id = r.task
  /\ HardMax \in Nat \ {0} /\ Requested \subseteq Nat \ {0}
  /\ MaxFixtures \in Nat /\ MaxEpoch \in Nat
  /\ None \notin [auth : Request, epoch : Nat]

VARIABLES
  epoch, granted, closed, consumed,   \* the ledger
  loops,                              \* the locals of each loop
  receipts                            \* of all loops

theLedger == <<epoch, granted, closed, consumed>>
loopVars == <<councilVars, theLedger, loops, receipts>>

FakeActions == {"FAKE_WRITE_ARTIFACT", "FAKE_COMPUTE", "FAKE_NOOP"}

-----------------------------------------------------------------------------
(* The binder. *)

ValidRecord(d) ==
  CASE d.risk = "R0" -> d.state = "COUNCIL_NOT_REQUIRED" /\ d.candidate = None
    [] d.risk = "R4" -> d.state = "DENIED" /\ d.candidate = None
    [] OTHER -> /\ d.state = IF d.disposition = "NO_QUORUM" THEN "NO_QUORUM" ELSE "DECIDED"
                /\ d.candidate # None /\ d.proposer # None

(* Seeded fault: the proof is not asked for. *)
EnvelopedUnproven(d, t, x, p) ==
  /\ ValidRecord(d) /\ d.disposition \notin {"DENIED", "NO_QUORUM"}
  /\ d.task = t.id /\ ~t.blocked /\ d.context = x

(* evaluateAuthorization gives an envelope. *)
Enveloped(d, t, x, p) ==
  /\ ValidRecord(d) /\ d.disposition \notin {"DENIED", "NO_QUORUM"}
  /\ d.risk \in {"R1", "R2", "R3"} => Eligible(p, d)
  /\ d.task = t.id /\ ~t.blocked /\ d.context = x

(* The authorization id is a hash of the request's id and the record.  A    *)
(* request has one session here and its record does not change, so the     *)
(* request stands for both.  The scope and the policy are constant.        *)
Envelope(r, e) == [auth |-> r, epoch |-> e]

NeedsHuman(r) == r.risk = "R3"
Ledger == INSTANCE OneUseLedger WITH Envelopes <- {}, Needed <- NeedsHuman

-----------------------------------------------------------------------------
(* The ledger's own derivation. *)

Decided == {r \in Request : sessions[r] # None /\ sessions[r].record # None}
OwnProof(r) == BuildProof(r, sessions[r].config, VotesOf(r, sessions[r]), sessions[r].record)
LedgerTask(r) == CHOOSE t \in Task : t.id = r.task
Derivable(r) == Enveloped(sessions[r].record, LedgerTask(r), context, OwnProof(r))

SetContext(x) ==
  x # context /\ context' = x /\ UNCHANGED <<sessions, theLedger, loops, receipts>>
BumpStopEpoch ==
  epoch < MaxEpoch /\ epoch' = epoch + 1 /\ Ledger!Bump /\ UNCHANGED <<councilVars, loops, receipts>>
IssueGrant(r) ==
  /\ NeedsHuman(r) /\ Ledger!Issue(Envelope(r, epoch)) /\ Derivable(r)
  /\ UNCHANGED <<councilVars, loops, receipts>>
RevokeGrant(v) == Ledger!Revoke(v) /\ UNCHANGED <<councilVars, loops, receipts>>

-----------------------------------------------------------------------------
(* The loop.  The caller builds a fixture from one decision, its proof and  *)
(* a task record, under the context and the epoch it observes.             *)

Fixtures ==
  UNION {[request : {r}, task : {LedgerTask(r)} \cup Other,
          context : {context}, epoch : {epoch}, action : Action] : r \in Decided}

Idle == [pc |-> "idle", fixtures |-> <<>>, max |-> 0, i |-> 1, used |-> {},
         envelope |-> None, outcome |-> None]

At(l, pc) == loops[l].pc = pc
Fixture(l) == loops[l].fixtures[loops[l].i]
To(l, pc) == loops' = [loops EXCEPT ![l].pc = pc]
Finish(l, outcome) ==   \* its locals are gone; the last envelope stays on its record
  loops' = [loops EXCEPT ![l] = [Idle EXCEPT !.pc = "ended", !.outcome = outcome,
                                             !.envelope = loops[l].envelope]]

Run(l, fs, n) ==
  /\ At(l, "idle")
  /\ loops' = [loops EXCEPT ![l] = [Idle EXCEPT !.pc = "evaluate", !.fixtures = fs,
                                       !.max = IF n < HardMax THEN n ELSE HardMax]]
  /\ UNCHANGED <<councilVars, theLedger, receipts>>

Evaluate(l) ==
  /\ At(l, "evaluate")
  /\ IF loops[l].i > Len(loops[l].fixtures) THEN Finish(l, "COMPLETED")
     ELSE LET f == Fixture(l)
              v == Envelope(f.request, f.epoch)
          IN IF /\ Enveloped(sessions[f.request].record, f.task, f.context, OwnProof(f.request))
                /\ v.auth \notin loops[l].used
             THEN loops' = [loops EXCEPT ![l].pc = "gate", ![l].envelope = v,
                                         ![l].used = @ \cup {v.auth}]
             ELSE Finish(l, "AUTHORIZATION_DENIED")
  /\ UNCHANGED <<councilVars, theLedger, receipts>>

(* Seeded fault: the loop goes on although the ledger denies. *)
GateIgnored(l) ==
  /\ At(l, "gate")
  /\ \/ Ledger!Consume(loops[l].envelope) /\ To(l, "stop")
     \/ ~Ledger!Allowed(loops[l].envelope) /\ To(l, "stop") /\ UNCHANGED theLedger
  /\ UNCHANGED <<councilVars, receipts>>

(* Seeded fault: the ledger takes the derivation of the loop for its own. *)
GateUnderived(l) ==
  LET v == loops[l].envelope
  IN
  /\ At(l, "gate")
  /\ \/ Ledger!Consume(v) /\ To(l, "stop")
     \/ ~Ledger!Allowed(v) /\ Finish(l, "AUTHORIZATION_DENIED") /\ UNCHANGED theLedger
     \/ Finish(l, "INTERNAL_ERROR") /\ UNCHANGED theLedger
  /\ UNCHANGED <<councilVars, receipts>>

(* ledgerCheck; it may throw instead. *)
Gate(l) ==
  LET v == loops[l].envelope
  IN
  /\ At(l, "gate")
  /\ \/ Derivable(v.auth) /\ Ledger!Consume(v) /\ To(l, "stop")
     \/ ~(Derivable(v.auth) /\ Ledger!Allowed(v)) /\ Finish(l, "AUTHORIZATION_DENIED") /\ UNCHANGED theLedger
     \/ Finish(l, "INTERNAL_ERROR") /\ UNCHANGED theLedger
  /\ UNCHANGED <<councilVars, receipts>>

(* Seeded fault: a loop that is stopped leaves as if it were done.         *)
StopQuietly(l) ==
  /\ At(l, "stop")
  /\ \/ epoch = loops[l].envelope.epoch /\ To(l, "dispatch")
     \/ epoch # loops[l].envelope.epoch /\ Finish(l, "COMPLETED")
     \/ Finish(l, "INTERNAL_ERROR")
  /\ UNCHANGED <<councilVars, theLedger, receipts>>

(* isStopStillValid, a function of the caller: the epoch of the envelope   *)
(* is still in force.  It may throw.                                       *)
StopCheck(l) ==
  /\ At(l, "stop")
  /\ \/ epoch = loops[l].envelope.epoch /\ To(l, "dispatch")
     \/ epoch # loops[l].envelope.epoch /\ Finish(l, "STOPPED")
     \/ Finish(l, "INTERNAL_ERROR")
  /\ UNCHANGED <<councilVars, theLedger, receipts>>

Receipt(l) ==
  [loop |-> l, iteration |-> loops[l].i, auth |-> loops[l].envelope.auth,
   epoch |-> loops[l].envelope.epoch, action |-> Fixture(l).action]

(* executeFakeAction throws for another action; the verifier compares the  *)
(* receipt with what was asked for in the same step.                       *)
Verified(l, x) ==
  /\ x.auth = loops[l].envelope.auth /\ x.loop = l /\ x.iteration = loops[l].i
  /\ x.action = Fixture(l).action /\ x.action \in FakeActions

Dispatch(l) ==
  /\ At(l, "dispatch")
  /\ IF Fixture(l).action \notin FakeActions
     THEN Finish(l, "INTERNAL_ERROR") /\ UNCHANGED receipts
     ELSE /\ receipts' = receipts \cup {Receipt(l)}
          /\ IF ~Verified(l, Receipt(l)) THEN Finish(l, "VERIFICATION_FAILED")
             ELSE IF loops[l].i = Len(loops[l].fixtures) THEN Finish(l, "COMPLETED")
             ELSE IF loops[l].i = loops[l].max THEN Finish(l, "MAX_ITERATIONS_REACHED")
             ELSE loops' = [loops EXCEPT ![l].pc = "evaluate", ![l].i = @ + 1]
  /\ UNCHANGED <<councilVars, theLedger>>

LoopStep(l) == Evaluate(l) \/ Gate(l) \/ StopCheck(l) \/ Dispatch(l)

LoopInit ==
  /\ CouncilInit
  /\ Ledger!Init
  /\ loops = [l \in Loop |-> Idle]
  /\ receipts = {}

LoopNext ==
  \/ \E r \in Request : CouncilStep(r) /\ UNCHANGED <<theLedger, loops, receipts>>
  \/ \E r \in Decided : IssueGrant(r)
  \/ \E v \in granted : RevokeGrant(v)
  \/ \E x \in Context : SetContext(x)
  \/ BumpStopEpoch
  \/ \E l \in Loop :
       \/ LoopStep(l)
       \/ \E n \in 0 .. MaxFixtures : \E fs \in [1 .. n -> Fixtures], m \in Requested : Run(l, fs, m)

LoopSpec == LoopInit /\ [][LoopNext]_loopVars

-----------------------------------------------------------------------------
(* Properties. *)

(* The count of the kernel and the count of the verifier agree: a record   *)
(* made under the trusted configuration is proved by the votes of its own  *)
(* session and by those of no other, and one made under another            *)
(* configuration by none.                                                  *)
RecordsProveThemselves ==
  (\A l \in Loop : At(l, "idle")) =>   \* records do not change while they run
    \A r, q \in Decided : r.risk \in {"R1", "R2", "R3"} =>
      (Eligible(OwnProof(q), sessions[r].record) <=>
         q = r /\ r.epoch \in DOMAIN Trusted /\ sessions[r].config = Trusted[r.epoch])

(* What is executed was carried: by those who had to, voting for the       *)
(* proposal its proposer was committed to, under the trusted               *)
(* configuration, for a task that is not blocked, and with the grant of a  *)
(* human where the class asks for one.                                     *)
ExecutedWasCarried ==
  \A x \in receipts :
    LET r == x.auth  s == sessions[r] IN
    /\ ~LedgerTask(r).blocked /\ r.risk # "R4"
    /\ r.risk # "R0" =>
         /\ s.config = Trusted[r.epoch] /\ Carried(r, s.config, s.votes)
         /\ s.candidate.content = s.commitment
    /\ r.risk = "R3" => Envelope(r, x.epoch) \in closed

(* However many loops run, a decision is executed once.                    *)
ExecutedOnce ==
  \A x, y \in receipts : x.auth = y.auth => x = y

(* A decision is used in the context it was made in, by a loop that was    *)
(* given that context and the epoch in force: whatever changed after the   *)
(* decision, or between the loop's evaluation and the ledger's, denies the *)
(* use.  (The context is that which the ledger reads under its locks.)     *)
UsedWhileCurrent ==
  [][\A d \in consumed' \ consumed :
       /\ d.context = context
       /\ \E l \in Loop :
            /\ At(l, "gate") /\ loops[l].envelope = Envelope(d, epoch)
            /\ Fixture(l).request = d /\ Fixture(l).context = context
            /\ Fixture(l).epoch = epoch]_loopVars

(* A use of the ledger that executed nothing is on the account of one loop *)
(* that says it did not complete, or has not ended yet.                    *)
UnusedIsReported ==
  \A d \in consumed :
    \/ \E x \in receipts : x.auth = d
    \/ \E l \in Loop :
         /\ loops[l].envelope # None /\ loops[l].envelope.auth = d
         /\ \/ At(l, "stop") \/ At(l, "dispatch")
            \/ At(l, "ended") /\ loops[l].outcome \in {"STOPPED", "INTERNAL_ERROR"}

=============================================================================
