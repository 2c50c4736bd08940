-------------------------- MODULE PublicationBroker --------------------------
(***************************************************************************)
(* The publication broker of tools/publication-broker: requests served     *)
(* concurrently by internal/server, the grant store they share, and the    *)
(* git remote and pull requests they act on.                               *)
(*                                                                         *)
(* A request is a process.  It gives up control wherever the code calls    *)
(* the store, the remote or the GitHub API; between two such calls it      *)
(* touches nothing that is shared.  Every grant here publishes to the one  *)
(* remote branch, which other people move too; grants on different         *)
(* branches meet only in the store.  Failures that leave the grant as it   *)
(* is and may be retried are all answered "TRANSIENT".                     *)
(***************************************************************************)
EXTENDS GrantStore, Naturals

CONSTANTS
  Target,         \* receipt.commit_sha of the request with each digest
  Predecessor,    \* envelope.expected_pre_publish_head
  OnBase,         \* digests whose expected_pre_publish_head is base_commit
  WantsPr,        \* digests with envelope.pr_expected
  MaxOutside      \* bound on what others do to the branch and the requests

BlockReason ==
  {"GRANT_REQUEST_FIELD_MISMATCH", "PACKAGE_REJECTED", "REMOTE_HEAD_CHANGED",
   "AMBIGUOUS_PR", "PR_BASE_MISMATCH", "PR_STATE_MISMATCH"}

ASSUME BrokerAssumption ==
  /\ BlockReason \subseteq Reason
  /\ Target \in [Digest -> Commit]
  /\ Predecessor \in [Digest -> Commit]
  /\ \A d \in Digest : Target[d] # Predecessor[d]   \* VerifyCommit: its parent
  /\ OnBase \subseteq Digest
  /\ WantsPr \subseteq Digest
  /\ MaxOutside \in Nat

VARIABLES
  pc,         \* where each request is
  job,        \* its local variables
  revoking,   \* grants an admin's revoke call is waiting to revoke
  answered,   \* history: the final answers given per digest
  head,       \* the commit the remote branch points to
  prs,        \* the pull requests whose head is that branch
  late,       \* pushes that were sent and not yet carried out
  landed,     \* history: the commits the branch has pointed to
  moves,      \* history: for each push that moved the branch, where from
  opened,     \* history: the pull requests each grant created
  shown,      \* history: the pull request that each grant's creation or
              \* update was last answered with, if it was the authorized one
  outside     \* how often others have interfered

localVars == <<pc, job, revoking, answered>>
remoteVars == <<head, prs, late, landed, moves, opened, shown, outside>>
brokerVars == <<storeVars, localVars, remoteVars>>

Head == Commit \cup {NoCommit}

(* Where a request holds its gate.                                         *)
PhaseA == {"observe", "check", "push", "pushed", "pushFailed", "record", "publishA"}
PhaseB == {"find", "create", "update", "publishB"}
InPhase == PhaseA \cup PhaseB \cup {"block"}

(* What a request holds: Push's expectedHead, the head it saw last, what   *)
(* it is about to block for, its pull request, what it is about to answer. *)
NewJob(d) == [digest |-> d, expect |-> NoCommit, obs |-> NoCommit,
              why |-> NoReason, pr |-> NoPr, code |-> ""]

(* Open on the authorized base ("open") or on another ("retargeted"), or   *)
(* closed on the authorized base ("closed") or on another ("astray").      *)
PrState == {"unused", "open", "retargeted", "closed", "astray"}

(* Answers that claim the grant is finished, and answers the code calls    *)
(* unreachable.                                                            *)
FinalCode == {"PUBLISHED", "GRANT_PREVIOUSLY_BLOCKED", "GRANT_EXPIRED"} \cup BlockReason
DefensiveCode == {"GRANT_ERROR", "GRANT_PUBLISH_OUTCOME_MISMATCH", "INTERNAL_PHASE_GATE_ERROR"}

BrokerInit ==
  /\ StoreInit
  /\ pc = [c \in Caller |-> "idle"]
  /\ job \in [Caller -> {NewJob(d) : d \in Digest}]
  /\ revoking = {}
  /\ answered = [d \in Digest |-> {}]
  /\ head \in Head
  /\ prs = [n \in PrNumber |-> "unused"]
  /\ late = {}
  /\ landed = {head} \ {NoCommit}
  /\ moves = {}
  /\ opened = [d \in Digest |-> {}]
  /\ shown = [d \in Digest |-> NoPr]
  /\ outside = 0

-----------------------------------------------------------------------------
(* Moving a request.                                                       *)

At(c, p) == pc[c] = p
Goto(c, p) == pc' = [pc EXCEPT ![c] = p]
Keep == UNCHANGED <<job, revoking, answered>>
Goes(c, p) == Goto(c, p) /\ Keep

(* Still inside a phase: the answer is given once the gate is back.        *)
Returns(c, code) ==
  /\ Goto(c, "return")
  /\ job' = [job EXCEPT ![c] = [NewJob(@.digest) EXCEPT !.code = code]]
  /\ UNCHANGED <<revoking, answered>>

(* Outside of any phase.                                                   *)
Answers(c, code) ==
  LET d == job'[c].digest
  IN
  /\ Goto(c, "idle")
  /\ answered' = [answered EXCEPT ![d] = @ \cup ({code} \cap (FinalCode \cup DefensiveCode))]
  /\ UNCHANGED revoking

Finishes(c, code) ==
  /\ job' = [job EXCEPT ![c] = NewJob(@.digest)]
  /\ Answers(c, code)

Blocks(c, p, why, obs) ==
  /\ Goto(c, p)
  /\ job' = [job EXCEPT ![c].why = why, ![c].obs = obs]
  /\ UNCHANGED <<revoking, answered>>

(* Errors of the store, as the codes a client is given.                    *)
MapGrantError(r) ==
  CASE r = "ErrNotFound" -> "NO_GRANT"
    [] r = "ErrRevoked" -> "GRANT_REVOKED"
    [] r = "ErrExpired" -> "GRANT_EXPIRED"
    [] r = "ErrBlocked" -> "GRANT_PREVIOUSLY_BLOCKED"
    [] r \in {"ErrExpirePersistFailed", "ErrBlockPersistFailed",
              "ErrPublishPersistFailed", "ErrBeginPersistFailed"} -> "TRANSIENT"
    [] OTHER -> "GRANT_ERROR"

PublishPersistFailureReason(r) ==
  CASE r = "ErrPublishedOutcomeMismatch" -> "GRANT_PUBLISH_OUTCOME_MISMATCH"
    [] r = "ErrNotFound" -> "NO_GRANT"
    [] r = "ErrWrongState" -> "GRANT_ERROR"
    [] OTHER -> "TRANSIENT"

BlockOutcomeReason(r) ==
  CASE r = "ErrRevoked" -> "GRANT_REVOKED"
    [] r = "ErrExpired" -> "GRANT_EXPIRED"
    [] r = "ErrBlockedReasonMismatch" -> "GRANT_BLOCK_REASON_MISMATCH"
    [] r = "ErrInvalidPhaseLease" -> "INTERNAL_PHASE_GATE_ERROR"
    [] r = "ErrNotFound" -> "NO_GRANT"
    [] OTHER -> "TRANSIENT"

-----------------------------------------------------------------------------
(* Before the first phase.                                                 *)

Submit(c, d) == \E r \in Reply :
  /\ At(c, "idle")
  /\ BeginOrResume(d, r)
  /\ job' = [job EXCEPT ![c] = IF r \in {"IN_PROGRESS", "PUBLISHED"} /\ ~mem[d].matches
                               THEN [NewJob(d) EXCEPT !.why = "GRANT_REQUEST_FIELD_MISMATCH"]
                               ELSE NewJob(d)]
  /\ IF r \in {"IN_PROGRESS", "PUBLISHED"} /\ ~mem[d].matches
     THEN Goto(c, "rejecting") /\ UNCHANGED <<revoking, answered>>
     ELSE IF r = "IN_PROGRESS"
     THEN Goto(c, "checking") /\ UNCHANGED <<revoking, answered>>
     ELSE Answers(c, IF r = "PUBLISHED" THEN r ELSE MapGrantError(r))
  /\ UNCHANGED remoteVars

(* Importing the bundle, verifying the commit, the branch name and the     *)
(* repository identity.                                                    *)
Verify(c) ==
  /\ At(c, "checking")
  /\ \/ Goes(c, "admitA")
     \/ Blocks(c, "rejecting", "PACKAGE_REJECTED", NoCommit)
  /\ UNCHANGED <<storeVars, remoteVars>>

(* Seeded fault: every failed block is reported as the block.              *)
RejectAlways(c) == \E r \in Reply :
  /\ At(c, "rejecting")
  /\ MarkBlocked(job[c].digest, job[c].why, r)
  /\ Finishes(c, job[c].why)
  /\ UNCHANGED remoteVars

(* blockGrantResult without a lease.                                       *)
Reject(c) == \E r \in Reply :
  /\ At(c, "rejecting")
  /\ MarkBlocked(job[c].digest, job[c].why, r)
  /\ CASE r = "BLOCKED" -> Finishes(c, job[c].why)
       [] r = "ErrCannotBlockPublished" -> Goes(c, "converging")
       [] OTHER -> Finishes(c, BlockOutcomeReason(r))
  /\ UNCHANGED remoteVars

Converge(c) == \E r \in Reply :
  /\ At(c, "converging")
  /\ AdmitPublicationPhase(c, job[c].digest, r)
  /\ IF r \in {"IN_PROGRESS", "PUBLISHED"}
     THEN Returns(c, "PUBLISHED")
     ELSE Finishes(c, BlockOutcomeReason(r))
  /\ UNCHANGED remoteVars

(* Giving the gate back, then answering.                                   *)
Return(c) ==
  /\ At(c, "return")
  /\ Release(c, job[c].digest)
  /\ Finishes(c, job[c].code)
  /\ UNCHANGED remoteVars

-----------------------------------------------------------------------------
(* Phase A: the branch.                                                    *)

Admit(c, from, to) == \E r \in Reply :
  /\ At(c, from)
  /\ AdmitPublicationPhase(c, job[c].digest, r)
  /\ CASE r = "IN_PROGRESS" -> Goes(c, to)
       [] r = "PUBLISHED" -> Returns(c, "PUBLISHED")
       [] OTHER -> Finishes(c, MapGrantError(r))
  /\ UNCHANGED remoteVars

AdmitA(c) == Admit(c, "admitA", "observe")

(* Seeded fault: whatever head is seen is taken for the predecessor.       *)
ObserveTrustingly(c) ==
  /\ At(c, "observe")
  /\ IF head = Target[job[c].digest]
     THEN Goes(c, "record")
     ELSE /\ Goto(c, "check")
          /\ job' = [job EXCEPT ![c].expect = head]
          /\ UNCHANGED <<revoking, answered>>
  /\ UNCHANGED <<storeVars, remoteVars>>

(* The decision table: what the head just seen authorizes.                 *)
Observe(c) ==
  LET d == job[c].digest
      next == [job EXCEPT ![c].expect = head]
      create == head = NoCommit /\ d \in OnBase
  IN
  /\ At(c, "observe")
  /\ \/ Returns(c, "TRANSIENT")
     \/ head = Target[d] /\ Goes(c, "record")
     \/ /\ head = Predecessor[d] \/ create
        /\ Goto(c, "check") /\ job' = next /\ UNCHANGED <<revoking, answered>>
     \/ /\ head \notin {Target[d], Predecessor[d]} /\ ~create
        /\ Blocks(c, "block", "REMOTE_HEAD_CHANGED", head)
  /\ UNCHANGED <<storeVars, remoteVars>>

(* Minting the write token, and the check Push makes before it pushes.     *)
PushPreCheck(c) ==
  /\ At(c, "check")
  /\ \/ Returns(c, "TRANSIENT")
     \/ head = job[c].expect /\ Goes(c, "push")
     \/ head # job[c].expect /\ Blocks(c, "block", "REMOTE_HEAD_CHANGED", head)
  /\ UNCHANGED <<storeVars, remoteVars>>

(* The remote compares and swaps; a branch that is there already is left.  *)
Swap(d, expect) ==
  IF head = expect
  THEN /\ head' = Target[d]
       /\ landed' = landed \cup {Target[d]}
       /\ moves' = moves \cup {<<d, head>>}
  ELSE UNCHANGED <<head, landed, moves>>

(* The push is carried out and git may still report an error; it is        *)
(* rejected; it never reached the remote; or it reaches it later.          *)
GitPush(c) ==
  LET d == job[c].digest
      expect == job[c].expect
  IN
  /\ At(c, "push")
  /\ \/ /\ head \in {expect, Target[d]}
        /\ Swap(d, expect)
        /\ Goes(c, "pushed") \/ Goes(c, "pushFailed")
        /\ UNCHANGED late
     \/ /\ Goes(c, "pushFailed")
        /\ late' \in {late, late \cup {<<d, expect>>}}
        /\ UNCHANGED <<head, landed, moves>>
  /\ UNCHANGED <<storeVars, prs, opened, shown, outside>>

(* What Push makes of the head it reads after git reported success.        *)
PushPostCheck(c) ==
  /\ At(c, "pushed")
  /\ \/ Returns(c, "TRANSIENT")
     \/ head = Target[job[c].digest] /\ Goes(c, "record")
  /\ UNCHANGED <<storeVars, remoteVars>>

(* What Push makes of the head it reads after git reported an error.       *)
PushReobserve(c) ==
  LET d == job[c].digest
  IN
  /\ At(c, "pushFailed")
  /\ \/ Returns(c, "TRANSIENT")
     \/ head = Target[d] /\ Goes(c, "record")
     \/ /\ head \notin {Target[d], job[c].expect}
        /\ Blocks(c, "block", "REMOTE_HEAD_CHANGED", head)
  /\ UNCHANGED <<storeVars, remoteVars>>

(* The result is only logged.                                              *)
Record(c) ==
  LET d == job[c].digest
  IN
  /\ At(c, "record")
  /\ \E r \in Reply : RecordRemoteHead(d, Target[d], r)
  /\ Goes(c, IF d \in WantsPr THEN "handover" ELSE "publishA")
  /\ UNCHANGED remoteVars

Publish(c, from, n) == \E r \in Reply :
  LET d == job[c].digest
  IN
  /\ At(c, from)
  /\ MarkPublished(d, Target[d], n, r)
  /\ Returns(c, IF r = "PUBLISHED" THEN r ELSE PublishPersistFailureReason(r))
  /\ UNCHANGED remoteVars

PublishA(c) == Publish(c, "publishA", NoPr)

-----------------------------------------------------------------------------
(* Phase B: the pull request.                                              *)

(* Seeded fault: phase A keeps its gate.                                   *)
HandoverHeld(c) ==
  /\ At(c, "handover")
  /\ Goes(c, "admitB")
  /\ UNCHANGED <<storeVars, remoteVars>>

Handover(c) ==
  /\ At(c, "handover")
  /\ Release(c, job[c].digest)
  /\ Goes(c, "admitB")
  /\ UNCHANGED remoteVars

(* Seeded fault: the gate is taken again and the live state not read.      *)
AdmitBBlindly(c) ==
  /\ At(c, "admitB")
  /\ GateFree(job[c].digest)
  /\ gate' = [gate EXCEPT ![job[c].digest] = c]
  /\ Goes(c, "find")
  /\ UNCHANGED <<store, lapsed, acked, remoteVars>>

AdmitB(c) == Admit(c, "admitB", "find")

TakePr(c, p, n) ==
  /\ Goto(c, p)
  /\ job' = [job EXCEPT ![c].pr = n]
  /\ UNCHANGED <<revoking, answered>>

OpenPrs == {n \in PrNumber : prs[n] \in {"open", "retargeted"}}

(* Seeded fault: a failure to list is taken for an empty list.             *)
FindPrHopefully(c) ==
  /\ At(c, "find")
  /\ Goes(c, "create")
  /\ UNCHANGED <<storeVars, remoteVars>>

(* Minting the token and listing the open pull requests of the branch.     *)
FindPr(c) ==
  /\ At(c, "find")
  /\ \/ Returns(c, "TRANSIENT")
     \/ OpenPrs = {} /\ Goes(c, "create")
     \/ \E m, n \in OpenPrs : m # n /\ Blocks(c, "block", "AMBIGUOUS_PR", NoCommit)
     \/ \E n \in OpenPrs :
          /\ OpenPrs = {n}
          /\ \/ prs[n] = "retargeted" /\ Blocks(c, "block", "PR_BASE_MISMATCH", NoCommit)
             \/ /\ prs[n] = "open"
                /\ TakePr(c, "update", n)
  /\ UNCHANGED <<storeVars, remoteVars>>

(* GitHub answers with the pull request n, which is in the state s.        *)
Shows(c, n, s) ==
  LET d == job[c].digest
      fits == s \notin {"retargeted", "astray"} /\ head = Target[d]
  IN  shown' = [shown EXCEPT ![d] = IF fits THEN n ELSE NoPr]

(* Seeded fault: the pull request is taken as the request left it.         *)
CheckPrNot(c, n, s) == TakePr(c, "publishB", n)

(* The pull request the API returned must have the authorized base and the *)
(* published head; whether it is still open is not looked at.              *)
CheckPr(c, n, s) ==
  IF s \in {"open", "closed"} /\ head = Target[job[c].digest]
  THEN TakePr(c, "publishB", n)
  ELSE Blocks(c, "block", "PR_STATE_MISMATCH", NoCommit)

(* GitHub opens it, whether or not its answer arrives, or does not.        *)
CreatePr(c) ==
  /\ At(c, "create")
  /\ \/ \E n \in PrNumber :
          /\ prs[n] = "unused" /\ head # NoCommit
          /\ prs' = [prs EXCEPT ![n] = "open"]
          /\ opened' = [opened EXCEPT ![job[c].digest] = @ \cup {n}]
          /\ \/ CheckPr(c, n, "open") /\ Shows(c, n, "open")
             \/ Returns(c, "TRANSIENT") /\ UNCHANGED shown
     \/ Returns(c, "TRANSIENT") /\ UNCHANGED <<prs, opened, shown>>
  /\ UNCHANGED <<storeVars, head, late, landed, moves, outside>>

(* Title and body of a pull request that was closed since can be changed   *)
(* too.                                                                    *)
UpdatePr(c) ==
  LET n == job[c].pr
  IN
  /\ At(c, "update")
  /\ \/ Returns(c, "TRANSIENT") /\ UNCHANGED shown
     \/ CheckPr(c, n, prs[n]) /\ Shows(c, n, prs[n])
  /\ UNCHANGED <<storeVars, head, prs, late, landed, moves, opened, outside>>

PublishB(c) == Publish(c, "publishB", job[c].pr)

(* Seeded fault: a block from inside a phase takes the gate once more.     *)
BlockInPhaseReentrant(c) == \E r \in Reply :
  /\ At(c, "block")
  /\ MarkBlocked(job[c].digest, job[c].why, r)
  /\ Returns(c, IF r = "BLOCKED" THEN job[c].why ELSE BlockOutcomeReason(r))
  /\ UNCHANGED remoteVars

(* blockGrantResult with the lease of either phase.                        *)
BlockInPhase(c) == \E r \in Reply :
  /\ At(c, "block")
  /\ MarkBlockedInPhase(c, job[c].digest, job[c].why, r)
  /\ Returns(c, IF r = "BLOCKED" THEN job[c].why ELSE BlockOutcomeReason(r))
  /\ UNCHANGED remoteVars

-----------------------------------------------------------------------------
(* The admin, the process, the clock and everybody else.                   *)

AdminCreate(d) == \E b \in BOOLEAN, r \in Reply :
  /\ Create(d, b, r)
  /\ UNCHANGED <<localVars, remoteVars>>

RequestRevoke(d) ==
  /\ revoking' = revoking \cup {d}
  /\ UNCHANGED <<storeVars, pc, job, answered, remoteVars>>

AnswerRevoke(d) == \E r \in Reply :
  /\ d \in revoking
  /\ Revoke(d, r)
  /\ revoking' = revoking \ {d}
  /\ UNCHANGED <<pc, job, answered, remoteVars>>

(* The git process of a push that was under way may outlive the broker.    *)
Crash ==
  LET orphans == {<<job[c].digest, job[c].expect>> : c \in {x \in Caller : pc[x] = "push"}}
  IN
  /\ Restart
  /\ pc' = [c \in Caller |-> "idle"]
  /\ job' = [c \in Caller |-> NewJob(job[c].digest)]
  /\ revoking' = {}
  /\ late' \in {late \cup o : o \in SUBSET orphans}
  /\ UNCHANGED <<answered, head, prs, landed, moves, opened, shown, outside>>

Expire(d) ==
  /\ Lapse(d)
  /\ UNCHANGED <<localVars, remoteVars>>

LatePush(l) ==
  /\ Swap(l[1], l[2])
  /\ late' = late \ {l}
  /\ UNCHANGED <<storeVars, localVars, prs, opened, shown, outside>>

(* Somebody else pushes to, rewinds, deletes or creates the branch.        *)
MoveBranch(h) ==
  /\ outside < MaxOutside /\ h # head
  /\ head' = h
  /\ landed' = landed \cup ({h} \ {NoCommit})
  /\ outside' = outside + 1
  /\ UNCHANGED <<storeVars, localVars, prs, late, moves, opened, shown>>

(* Somebody else opens, closes or retargets a pull request.                *)
ChangePr(n, s) ==
  /\ outside < MaxOutside
  /\ \/ prs[n] = "unused" /\ s \in {"open", "retargeted"} /\ head # NoCommit
     \/ prs[n] = "open" /\ s \in {"retargeted", "closed"}
     \/ prs[n] = "retargeted" /\ s \in {"open", "astray"}
  /\ prs' = [prs EXCEPT ![n] = s]
  /\ outside' = outside + 1
  /\ UNCHANGED <<storeVars, localVars, head, late, landed, moves, opened, shown>>

-----------------------------------------------------------------------------
RequestStep(c) ==
  \/ Verify(c) \/ Reject(c) \/ Converge(c) \/ Return(c)
  \/ AdmitA(c) \/ Observe(c) \/ PushPreCheck(c) \/ GitPush(c)
  \/ PushPostCheck(c) \/ PushReobserve(c) \/ Record(c) \/ PublishA(c)
  \/ Handover(c) \/ AdmitB(c) \/ FindPr(c) \/ CreatePr(c) \/ UpdatePr(c)
  \/ PublishB(c) \/ BlockInPhase(c)

Environment ==
  \/ Crash
  \/ \E d \in Digest : AdminCreate(d) \/ RequestRevoke(d) \/ Expire(d)
  \/ \E c \in Caller, d \in Digest : Submit(c, d)
  \/ \E l \in late : LatePush(l)
  \/ \E h \in Head : MoveBranch(h)
  \/ \E n \in PrNumber, s \in PrState : ChangePr(n, s)

BrokerNext ==
  \/ \E c \in Caller : RequestStep(c)
  \/ \E d \in Digest : AnswerRevoke(d)
  \/ Environment

BrokerSpec == BrokerInit /\ [][BrokerNext]_brokerVars

(* Every remote call returns, with an error or without.  A request or a    *)
(* revoke that waits for a gate gets it if the gate is free again and      *)
(* again: sync.Mutex hands over to a waiter that has waited for long.      *)
(* Nothing obliges anybody to submit, to revoke or to repeat.              *)
Fairness ==
  /\ \A c \in Caller : SF_brokerVars(RequestStep(c))
  /\ \A d \in Digest : SF_brokerVars(AnswerRevoke(d))

LiveBrokerSpec == BrokerSpec /\ Fairness

-----------------------------------------------------------------------------
(* Properties.                                                             *)

(* From its admission to the end of its phase a request holds the gate of  *)
(* a grant that is in progress and that nobody was told is finished.  So   *)
(* once a revoke has been acknowledged no token is minted, no push made    *)
(* and no pull request created or changed for the grant.                   *)
AdmittedPhaseIsLive ==
  \A c \in Caller : pc[c] \in InPhase =>
    /\ gate[job[c].digest] = c
    /\ mem[job[c].digest].state = "IN_PROGRESS"
    /\ acked[job[c].digest] = {}

(* Every move of the branch the broker makes starts at the predecessor the *)
(* human authorized, or creates a branch whose predecessor is its base;    *)
(* whoever else moves the branch meanwhile, and however late a push lands. *)
MovesAreAuthorized ==
  \A m \in moves :
    \/ m[2] = Predecessor[m[1]]
    \/ m[2] = NoCommit /\ m[1] \in OnBase

(* A grant is PUBLISHED, in memory or on disk, only when its commit has    *)
(* been on the branch, the request matched the grant, and the pull request *)
(* it names, if one was asked for, is the one GitHub last answered with,   *)
(* and that answer put it on the authorized base with the authorized       *)
(* commit as its head: however others close or retarget it or move the     *)
(* branch between listing, update and record, and however often a lost     *)
(* answer or a failed save is retried.                                     *)
PublishedIsTrue ==
  \A d \in Digest : \A g \in {mem[d], disk[d]} : g.state = "PUBLISHED" =>
    /\ g.matches
    /\ g.head = Target[d]
    /\ Target[d] \in landed
    /\ IF d \in WantsPr
       THEN g.pr \in PrNumber /\ prs[g.pr] # "unused" /\ g.pr = shown[d]
       ELSE g.pr = NoPr

(* A final answer a client was ever given is what the store file says.     *)
AnswersAreTrue ==
  \A d \in Digest : \A a \in answered[d] :
    /\ a = "PUBLISHED" => disk[d].state = "PUBLISHED"
    /\ a = "GRANT_EXPIRED" => disk[d].state = "EXPIRED"
    /\ a = "GRANT_PREVIOUSLY_BLOCKED" => disk[d].state = "BLOCKED"
    /\ a \in BlockReason => disk[d].state = "BLOCKED" /\ disk[d].reason = a

(* The codes whose branches the code comments call unreachable are.        *)
DefensiveCodesNeverAnswered ==
  \A d \in Digest : answered[d] \cap DefensiveCode = {}

(* Two pull requests the broker opened for a grant are never open at once: *)
(* a retry after a lost answer, and a concurrent identical request, find   *)
(* the first.                                                              *)
OneOpenPrPerGrant ==
  \A d \in Digest : \A m, n \in opened[d] \cap OpenPrs : m = n

(* A push race blocks a grant only over a branch that is not where the     *)
(* grant was to put it: a commit that is published is never reported as a  *)
(* race.                                                                   *)
PublishedIsNotARace ==
  \A c \in Caller :
    pc[c] = "block" /\ job[c].why = "REMOTE_HEAD_CHANGED"
      => job[c].obs # Target[job[c].digest]

(* Every request is answered, or ended by a crash: no phase and no block   *)
(* waits for a gate its own request holds.                                 *)
RequestsEnd == \A c \in Caller : pc[c] # "idle" ~> pc[c] = "idle"

(* Every revoke is answered, though it waits for a gate that requests keep *)
(* taking.                                                                 *)
RevokesEnd == \A d \in Digest : d \in revoking ~> d \notin revoking
=============================================================================
