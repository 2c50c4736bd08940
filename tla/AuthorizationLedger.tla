------------------------- MODULE AuthorizationLedger -------------------------
(***************************************************************************)
(* The authorization ledger of scripts/dev/                                *)
(* authorization-ledger-simulator.mjs: authorizations of council decisions *)
(* are consumed at most once, under the project context and the global     *)
(* stop epoch they were bound to, some of them only with a human's grant.  *)
(*                                                                         *)
(* One thread runs all calls; a call can be overtaken wherever it awaits:  *)
(* the mutex of its authorization, the readers-writer lock of the epoch,   *)
(* and a hook in the middle of checkAndConsume.  Giving back both locks is *)
(* part of the step that ends a call.  Decision records, task records and  *)
(* quorum proofs do not change once the simulation is constructed, so what *)
(* is derived from them is constant.                                       *)
(***************************************************************************)
EXTENDS Naturals, Sequences, FiniteSets

CONSTANTS
  Caller,      \* calls on one authorization that may be in progress together
  Bumper,      \* calls of bumpStopEpoch that may be
  NoOne,
  Auth,        \* canonicalAuthorizationIds; one for each decision record
  Context,     \* project contexts
  Origin,      \* the context each decision was made in
  Human,       \* decisions that need a human's grant
  Refused,     \* decisions rederiveEnvelope blocks whatever the context
  Unproven,    \* decisions that need a quorum proof and have no eligible one
  Submission,  \* the envelopes that are submitted
  NoSub,
  MaxEpoch     \* bound on the stop epoch

Epoch == 0 .. MaxEpoch
Proc == Caller \cup Bumper

(* The envelope the ledger derives for a decision depends on what is       *)
(* constant and on the epoch.  Its hash stands for all of it.              *)
Envelope == [auth : Auth, epoch : Epoch]

ASSUME LedgerAssumption ==
  /\ Caller \cap Bumper = {} /\ NoOne \notin Caller \cup Bumper
  /\ NoSub \notin Submission
  /\ Origin \in [Auth -> Context]
  /\ Human \subseteq Auth /\ Refused \subseteq Auth /\ Unproven \subseteq Auth
  /\ Submission \subseteq [ref : Auth, hash : Envelope]
  /\ MaxEpoch \in Nat

VARIABLES
  epoch,      \* #currentStopEpoch
  context,    \* #currentContext
  grants,     \* #grantsByHash
  consumed,   \* #ledger
  mutex,      \* per authorization, who holds its PromiseMutex and who waits
  queue,      \* who waits for the epoch lock, in order
  readers,    \* who holds it for reading
  writer,     \* who holds it for writing
  pc,         \* where each call is
  call,       \* its arguments and locals
  allowed,    \* history: what each authorization was consumed for
  fenced      \* history: the highest epoch a bump has put in force

dataVars == <<epoch, context, grants, consumed, allowed, fenced>>
lockVars == <<mutex, queue, readers, writer>>
ledgerVars == <<dataVars, lockVars, pc, call>>

GrantState == {"NONE", "AUTHORIZED", "CONSUMED", "REVOKED"}
Op == {"none", "consume", "issue", "revoke", "bump"}
Call == [op    : Op,
         sub   : Submission \cup {NoSub},
         epoch : Epoch]        \* the epoch it is to put in force, or has read
NoCall == [op |-> "none", sub |-> NoSub, epoch |-> 0]

(* The epoch an envelope was bound to and the highest one then in force.   *)
Consumption == [env : Envelope, fence : Epoch]

LedgerTypeOK ==
  /\ epoch \in Epoch
  /\ context \in Context
  /\ grants \in [Envelope -> GrantState]
  /\ consumed \subseteq Auth
  /\ mutex \in [Auth -> Seq(Caller)]
  /\ queue \in Seq(Proc)
  /\ readers \subseteq Caller
  /\ writer \in Bumper \cup {NoOne}
  /\ pc \in [Proc -> {"idle", "mutex", "epoch", "hook"}]
  /\ call \in [Proc -> Call]
  /\ allowed \in [Auth -> Seq(Consumption)]
  /\ fenced \in Epoch

LedgerInit ==
  /\ epoch = 0
  /\ context \in Context
  /\ grants = [e \in Envelope |-> "NONE"]
  /\ consumed = {}
  /\ mutex = [a \in Auth |-> <<>>]
  /\ queue = <<>>
  /\ readers = {}
  /\ writer = NoOne
  /\ pc = [c \in Proc |-> "idle"]
  /\ call = [c \in Proc |-> NoCall]
  /\ allowed = [a \in Auth |-> <<>>]
  /\ fenced = 0

-----------------------------------------------------------------------------
(* The two locks.                                                          *)

Writes(c) == c \in Bumper

(* How many of those at the front of q get the lock when r hold it for     *)
(* reading and w for writing: one writer, or the readers up to the first   *)
(* writer.                                                                 *)
Leading(q) == {n \in 0 .. Len(q) : \A i \in 1 .. n : ~Writes(q[i])}

(* Seeded fault: a writer does not wait for the readers.                   *)
EnteringBesideReaders(q, r, w) ==
  IF w # NoOne \/ q = <<>> THEN 0
  ELSE IF Writes(q[1]) THEN 1
  ELSE CHOOSE n \in Leading(q) : \A m \in Leading(q) : m <= n

Entering(q, r, w) ==
  IF w # NoOne \/ q = <<>> THEN 0
  ELSE IF Writes(q[1]) THEN (IF r = {} THEN 1 ELSE 0)
  ELSE CHOOSE n \in Leading(q) : \A m \in Leading(q) : m <= n

Drain(q, r, w) ==
  LET n == Entering(q, r, w)
      in == {q[i] : i \in 1 .. n}
  IN
  /\ queue' = SubSeq(q, n + 1, Len(q))
  /\ readers' = r \cup {c \in in : ~Writes(c)}
  /\ writer' = IF \E c \in in : Writes(c) THEN q[1] ELSE w

(* Holding both locks of a call that is not a bump.                        *)
Holds(c, op) == c \in readers /\ pc[c] = "epoch" /\ call[c].op = op
Ref(c) == call[c].sub.ref

(* The end of a call, whatever it answers.                                 *)
Ends(c) ==
  /\ pc' = [pc EXCEPT ![c] = "idle"]
  /\ call' = [call EXCEPT ![c] = NoCall]
  /\ Drain(queue, readers \ {c}, IF writer = c THEN NoOne ELSE writer)
  /\ mutex' = IF Writes(c) THEN mutex
              ELSE [mutex EXCEPT ![Ref(c)] = Tail(@)]

-----------------------------------------------------------------------------
(* Up to the locks.                                                        *)

(* issueGrant, revokeGrant and checkAndConsume choose the mutex by the     *)
(* decision record the submission points to.                               *)
Submit(c, op, s) ==
  /\ pc[c] = "idle"
  /\ pc' = [pc EXCEPT ![c] = "mutex"]
  /\ call' = [call EXCEPT ![c] = [NoCall EXCEPT !.op = op, !.sub = s]]
  /\ mutex' = [mutex EXCEPT ![s.ref] = Append(@, c)]
  /\ UNCHANGED <<dataVars, queue, readers, writer>>

Lock(c) ==
  /\ pc[c] = "mutex" /\ Head(mutex[Ref(c)]) = c
  /\ pc' = [pc EXCEPT ![c] = "epoch"]
  /\ UNCHANGED call
  /\ Drain(Append(queue, c), readers, writer)
  /\ UNCHANGED <<dataVars, mutex>>

(* A bump that does not increase the epoch is refused when it is called.   *)
RequestBump(c, e) ==
  /\ pc[c] = "idle" /\ e > epoch
  /\ pc' = [pc EXCEPT ![c] = "epoch"]
  /\ call' = [call EXCEPT ![c] = [NoCall EXCEPT !.op = "bump", !.epoch = e]]
  /\ Drain(Append(queue, c), readers, writer)
  /\ UNCHANGED <<dataVars, mutex>>

-----------------------------------------------------------------------------
(* Under the locks.                                                        *)

Bump(c) ==
  /\ writer = c
  /\ epoch' = call[c].epoch
  /\ fenced' = IF epoch' > fenced THEN epoch' ELSE fenced
  /\ Ends(c)
  /\ UNCHANGED <<context, grants, consumed, allowed>>

Derived(a) == [auth |-> a, epoch |-> epoch]
Derivable(a) == a \notin Refused /\ context = Origin[a]

(* Seeded fault: a grant is issued again.                                  *)
IssueAgain(c) ==
  LET e == Derived(Ref(c))
      valid == Derivable(Ref(c)) /\ call[c].sub.hash = e /\ Ref(c) \notin Unproven
  IN
  /\ Holds(c, "issue")
  /\ grants' = IF valid THEN [grants EXCEPT ![e] = "AUTHORIZED"] ELSE grants
  /\ Ends(c)
  /\ UNCHANGED <<epoch, context, consumed, allowed, fenced>>

Issue(c) ==
  LET e == Derived(Ref(c))
      valid == /\ Derivable(Ref(c)) /\ call[c].sub.hash = e
               /\ grants[e] = "NONE" /\ Ref(c) \notin Unproven
  IN
  /\ Holds(c, "issue")
  /\ grants' = IF valid THEN [grants EXCEPT ![e] = "AUTHORIZED"] ELSE grants
  /\ Ends(c)
  /\ UNCHANGED <<epoch, context, consumed, allowed, fenced>>

(* The grant is the one of the submitted hash, whatever the reference.     *)
Revoke(c) ==
  LET e == call[c].sub.hash
  IN
  /\ Holds(c, "revoke")
  /\ grants' = IF grants[e] = "AUTHORIZED" THEN [grants EXCEPT ![e] = "REVOKED"] ELSE grants
  /\ Ends(c)
  /\ UNCHANGED <<epoch, context, consumed, allowed, fenced>>

(* The first half of checkAndConsume: the epoch is read and the envelope   *)
(* derived from it, to be used after the hook.                             *)
Derive(c) ==
  /\ Holds(c, "consume")
  /\ IF Derivable(Ref(c))
     THEN /\ pc' = [pc EXCEPT ![c] = "hook"]
          /\ call' = [call EXCEPT ![c].epoch = epoch]
          /\ UNCHANGED lockVars
     ELSE Ends(c)
  /\ UNCHANGED dataVars

Approved(e) == e.auth \in Human => grants[e] = "AUTHORIZED"

(* Seeded faults: the replay check, the derivation are left out.           *)
ConsumableAgain(c, e) ==
  call[c].sub.hash = e /\ Approved(e) /\ e.auth \notin Unproven
ConsumableAsSubmitted(c, e) ==
  e.auth \notin consumed /\ Approved(e) /\ e.auth \notin Unproven

Consumable(c, e) ==
  /\ call[c].sub.hash = e
  /\ e.auth \notin consumed
  /\ Approved(e)
  /\ e.auth \notin Unproven

(* Seeded fault: the grant is left as it is.                               *)
GrantLeft(e) == grants

GrantUsed(e) ==
  IF e.auth \in Human THEN [grants EXCEPT ![e] = "CONSUMED"] ELSE grants

(* The second half.  A grant may have expired, by the clock it is given.   *)
Consume(c) ==
  LET e == [auth |-> Ref(c), epoch |-> call[c].epoch]
  IN
  /\ pc[c] = "hook"
  /\ \/ /\ Consumable(c, e)
        /\ grants' = GrantUsed(e)
        /\ consumed' = consumed \cup {e.auth}
        /\ allowed' = [allowed EXCEPT ![e.auth] =
                          Append(@, [env |-> call[c].sub.hash, fence |-> fenced])]
     \/ /\ ~Consumable(c, e) \/ e.auth \in Human
        /\ UNCHANGED <<grants, consumed, allowed>>
  /\ Ends(c)
  /\ UNCHANGED <<epoch, context, fenced>>

(* Takes no lock, and may overtake a call that is at the hook.             *)
SetContext(x) ==
  /\ context' = x /\ x # context
  /\ UNCHANGED <<epoch, grants, consumed, allowed, fenced, lockVars, pc, call>>

-----------------------------------------------------------------------------
CallStep(c) ==
  Lock(c) \/ Issue(c) \/ Revoke(c) \/ Derive(c) \/ Consume(c)

LedgerNext ==
  \/ \E c \in Caller :
       \/ CallStep(c)
       \/ \E op \in {"consume", "issue", "revoke"}, s \in Submission : Submit(c, op, s)
  \/ \E b \in Bumper :
       \/ Bump(b)
       \/ \E e \in Epoch : RequestBump(b, e)
  \/ \E x \in Context : SetContext(x)

LedgerSpec == LedgerInit /\ [][LedgerNext]_ledgerVars

-----------------------------------------------------------------------------
(* Properties.                                                             *)

(* From its first half to its second checkAndConsume holds the epoch lock  *)
(* and the epoch it read is the one in force, however many bumps wait.     *)
ReadersSeeTheEpoch ==
  \A c \in Caller : pc[c] = "hook" =>
    c \in readers /\ writer = NoOne /\ call[c].epoch = epoch

(* ALLOW_ONCE is answered at most once for a decision, and is on record.   *)
ConsumedOnce ==
  \A a \in Auth : Len(allowed[a]) = IF a \in consumed THEN 1 ELSE 0

(* No envelope is consumed once a bump has put a later epoch in force.     *)
FencedNeverAllowed ==
  \A a \in Auth : \A i \in 1 .. Len(allowed[a]) :
    allowed[a][i].env.auth = a /\ allowed[a][i].env.epoch >= allowed[a][i].fence

(* A decision that needs a human is consumed exactly by the grant for the  *)
(* very envelope it is allowed for, and a consumed grant allowed it.       *)
GrantsMatchLedger ==
  \A e \in Envelope :
    grants[e] = "CONSUMED" <=>
      /\ e.auth \in Human
      /\ \E i \in 1 .. Len(allowed[e.auth]) : allowed[e.auth][i].env = e

(* A grant is issued once for an envelope, and then consumed or revoked,   *)
(* not both and not again.                                                 *)
GrantsMoveForward ==
  [][\A e \in Envelope :
       \/ grants'[e] = grants[e]
       \/ grants[e] = "NONE" /\ grants'[e] = "AUTHORIZED"
       \/ grants[e] = "AUTHORIZED" /\ grants'[e] \in {"CONSUMED", "REVOKED"}]_ledgerVars

(* However calls interleave, the ledger is a one-use ledger: every change   *)
(* of its data is one atomic issue, revocation, consumption or bump of the  *)
(* abstract ledger, made when that one allows it.                           *)
HumanNeeded(a) == a \in Human
OneUse == INSTANCE OneUseLedger WITH
  Envelopes <- Envelope, Needed <- HumanNeeded,
  granted <- {e \in Envelope : grants[e] = "AUTHORIZED"},
  closed <- {e \in Envelope : grants[e] \in {"CONSUMED", "REVOKED"}}
OneUseSpec == OneUse!Spec

(* A bump that is carried out increases the epoch.                         *)
BumpsIncrease == [][epoch' # epoch => epoch' > epoch]_ledgerVars
=============================================================================
