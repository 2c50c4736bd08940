----------------------------- MODULE GrantStore -----------------------------
(***************************************************************************)
(* The publication grant store of tools/publication-broker/internal/grant. *)
(*                                                                         *)
(* Every method body runs under Store.mu, and the methods that also take a *)
(* grant's phase gate and give it back before they return (Revoke,         *)
(* MarkBlocked) do nothing else between the two, so each call is one       *)
(* action.  A gate that outlives the call (AdmitPublicationPhase) is a     *)
(* variable.  An action has the call's arguments and its reply r: the name *)
(* of the sentinel error the code returns, or on success the grant state   *)
(* the caller is shown.  Whether the write of the store file succeeds is a *)
(* choice of the environment.                                              *)
(*                                                                         *)
(* A GrantID is drawn at random for each digest and maps to it one to one, *)
(* so grants are named by their digest here.                               *)
(***************************************************************************)
CONSTANTS
  Digest,      \* request digests
  Caller,      \* goroutines that may be admitted to a publication phase
  Reason,      \* reasons a grant can be blocked for
  Commit,      \* commits a remote branch can point to
  PrNumber,    \* pull request numbers
  NoOne,       \* nobody holds the gate
  NoReason, NoCommit, NoPr   \* the zero values of the three fields above

ASSUME StoreAssumption ==
  /\ NoOne \notin Caller
  /\ NoReason \notin Reason
  /\ NoCommit \notin Commit
  /\ NoPr \notin PrNumber

VARIABLES
  mem,        \* Store.byDigest: the record of each digest in this process
  disk,       \* the store file: what Open would load
  pending,    \* Store.pending: terminal facts not yet known to be on disk
  gate,       \* Store.gates: who holds the phase gate of each grant
  lapsed,     \* grants whose ExpiresAt the clock has passed
  acked       \* history: the terminal states callers were told of, per digest

store == <<mem, disk, pending>>
storeVars == <<mem, disk, pending, gate, lapsed, acked>>

Terminal == {"PUBLISHED", "BLOCKED", "REVOKED", "EXPIRED"}
Unfinished == {"AUTHORIZED", "IN_PROGRESS"}
GrantState == {"NONE"} \cup Unfinished \cup Terminal

(* matches: the repository, branch and base the human authorized are the   *)
(* ones in the request with this digest.                                   *)
Grant == [state   : GrantState,
          matches : BOOLEAN,
          reason  : Reason \cup {NoReason},
          head    : Commit \cup {NoCommit},
          pr      : PrNumber \cup {NoPr}]

NoGrant == [state |-> "NONE", matches |-> FALSE, reason |-> NoReason,
            head |-> NoCommit, pr |-> NoPr]
NewGrant(b) == [NoGrant EXCEPT !.state = "AUTHORIZED", !.matches = b]

StoreTypeOK ==
  /\ mem \in [Digest -> Grant]
  /\ disk \in [Digest -> Grant]
  /\ pending \subseteq Digest
  /\ gate \in [Digest -> Caller \cup {NoOne}]
  /\ lapsed \subseteq Digest
  /\ acked \in [Digest -> SUBSET Terminal]

StoreInit ==
  /\ mem = [d \in Digest |-> NoGrant]
  /\ disk = mem
  /\ pending = {}
  /\ gate = [d \in Digest |-> NoOne]
  /\ lapsed = {}
  /\ acked = [d \in Digest |-> {}]

-----------------------------------------------------------------------------
(* Seeded fault: the write succeeds and its facts stay pending.            *)
SavedStillPending(m) == mem' = m /\ disk' = m /\ UNCHANGED pending

(* Writing the store file.  It always holds every grant, so a write that   *)
(* succeeds acknowledges every pending fact, whoever asked for it.         *)
Saved(m) == mem' = m /\ disk' = m /\ pending' = {}

(* Seeded fault: the fact is kept in memory and not marked pending.        *)
UnsavedUnmarked(m, p) == mem' = m /\ UNCHANGED <<disk, pending>>

(* The write failed and the new state is kept in memory, fail-closed.      *)
Unsaved(m, p) == mem' = m /\ pending' = p /\ UNCHANGED disk

(* Nothing was written, or the write failed and the change was undone.     *)
NotChanged == UNCHANGED store

SetTo(d, g) == [mem EXCEPT ![d] = g]

(* The reply r, and the terminal state of d it tells the caller of if any. *)
(* ErrRevoked tells nobody that REVOKED is durable.                        *)
Tells(r) ==
  CASE r \in {"PUBLISHED", "ErrCannotRevokePublished", "ErrCannotBlockPublished"}
         -> {"PUBLISHED"}
    [] r \in {"BLOCKED", "ErrBlocked", "ErrCannotRevokeBlocked"} -> {"BLOCKED"}
    [] r \in {"EXPIRED", "ErrExpired", "ErrCannotRevokeExpired"} -> {"EXPIRED"}
    [] r = "REVOKED" -> {"REVOKED"}
    [] OTHER -> {}

Replies(d, r) == acked' = [acked EXCEPT ![d] = @ \cup Tells(r)]

(* Seeded fault: the result of the repair is ignored.                      *)
RepairedBlindly(d, r, plain, failed) ==
  /\ r = plain
  /\ NotChanged \/ (d \in pending /\ Saved(mem))

(* The repair of a pending terminal fact that every surface which can see  *)
(* one makes before it answers: clean or repaired is the plain answer,     *)
(* still failing is the "not yet durable" one.                             *)
Repaired(d, r, plain, failed) ==
  \/ d \notin pending /\ r = plain /\ NotChanged
  \/ d \in pending /\ r = plain /\ Saved(mem)
  \/ d \in pending /\ r = failed /\ NotChanged

(* Seeded fault: nobody waits.                                             *)
GateIgnored(d) == TRUE

(* A call that needs the gate waits until nobody holds it.                 *)
GateFree(d) == gate[d] = NoOne

-----------------------------------------------------------------------------
(* AdminHandle.                                                            *)

Create(d, b, r) ==
  /\ \/ mem[d].state # "NONE" /\ r = "ErrAlreadyExists" /\ NotChanged
     \/ mem[d].state = "NONE" /\ r = "AUTHORIZED" /\ Saved(SetTo(d, NewGrant(b)))
     \/ mem[d].state = "NONE" /\ r = "ErrCreatePersistFailed" /\ NotChanged
  /\ Replies(d, r)
  /\ UNCHANGED <<gate, lapsed>>

(* Seeded fault: a revoke may override a block.                            *)
RevocableOrBlocked == Unfinished \cup {"REVOKED", "BLOCKED"}

Revocable == Unfinished \cup {"REVOKED"}

(* Every call on a REVOKED grant writes again, so that a retry is answered *)
(* with success only when the write has succeeded.                         *)
Revoke(d, r) ==
  LET revoked == SetTo(d, [mem[d] EXCEPT !.state = "REVOKED"])
  IN
  /\ GateFree(d)
  /\ \/ mem[d].state = "NONE" /\ r = "ErrNotFound" /\ NotChanged
     \/ mem[d].state \in Revocable /\ r = "REVOKED" /\ Saved(revoked)
     \/ /\ mem[d].state \in Revocable
        /\ r = "ErrRevokePersistFailed"
        /\ Unsaved(revoked, pending)
     \/ /\ mem[d].state = "PUBLISHED"
        /\ Repaired(d, r, "ErrCannotRevokePublished", "ErrPublishPersistFailed")
     \/ /\ mem[d].state = "BLOCKED"
        /\ Repaired(d, r, "ErrCannotRevokeBlocked", "ErrBlockPersistFailed")
     \/ mem[d].state = "EXPIRED" /\ r = "ErrCannotRevokeExpired" /\ NotChanged
  /\ Replies(d, r)
  /\ UNCHANGED <<gate, lapsed>>

-----------------------------------------------------------------------------
(* ClientHandle.                                                           *)

(* Seeded fault: a failed write is not rolled back.                        *)
BeginForward(d, s, r, told, failed) ==
  LET begun == SetTo(d, [mem[d] EXCEPT !.state = s])
  IN (r = told /\ Saved(begun)) \/ (r = failed /\ Unsaved(begun, pending))

(* No effect has happened yet, so a failed write is rolled back.           *)
BeginFrom(d, s, r, told, failed) ==
  \/ r = told /\ Saved(SetTo(d, [mem[d] EXCEPT !.state = s]))
  \/ r = failed /\ NotChanged

BeginOrResume(d, r) ==
  /\ \/ mem[d].state = "NONE" /\ r = "ErrNotFound" /\ NotChanged
     \/ mem[d].state = "REVOKED" /\ r = "ErrRevoked" /\ NotChanged
     \/ mem[d].state = "EXPIRED" /\ r = "ErrExpired" /\ NotChanged
     \/ mem[d].state = "BLOCKED" /\ Repaired(d, r, "ErrBlocked", "ErrBlockPersistFailed")
     \/ /\ mem[d].state = "PUBLISHED"
        /\ Repaired(d, r, "PUBLISHED", "ErrPublishPersistFailed")
     \/ mem[d].state = "IN_PROGRESS" /\ r = "IN_PROGRESS" /\ NotChanged
     \/ /\ mem[d].state = "AUTHORIZED" /\ d \in lapsed
        /\ BeginFrom(d, "EXPIRED", r, "ErrExpired", "ErrExpirePersistFailed")
     \/ /\ mem[d].state = "AUTHORIZED" /\ d \notin lapsed
        /\ BeginFrom(d, "IN_PROGRESS", r, "IN_PROGRESS", "ErrBeginPersistFailed")
  /\ Replies(d, r)
  /\ UNCHANGED <<gate, lapsed>>

(* The caller keeps the gate exactly when it is shown a snapshot.          *)
AdmitPublicationPhase(c, d, r) ==
  /\ GateFree(d)
  /\ \/ mem[d].state = "NONE" /\ r = "ErrNotFound" /\ NotChanged
     \/ mem[d].state = "AUTHORIZED" /\ r = "ErrWrongState" /\ NotChanged
     \/ mem[d].state = "IN_PROGRESS" /\ r = "IN_PROGRESS" /\ NotChanged
     \/ mem[d].state = "REVOKED" /\ r = "ErrRevoked" /\ NotChanged
     \/ mem[d].state = "EXPIRED" /\ r = "ErrExpired" /\ NotChanged
     \/ mem[d].state = "BLOCKED" /\ Repaired(d, r, "ErrBlocked", "ErrBlockPersistFailed")
     \/ /\ mem[d].state = "PUBLISHED"
        /\ Repaired(d, r, "PUBLISHED", "ErrPublishPersistFailed")
  /\ gate' = IF r \in {"IN_PROGRESS", "PUBLISHED"} THEN [gate EXCEPT ![d] = c] ELSE gate
  /\ Replies(d, r)
  /\ UNCHANGED lapsed

(* Giving back a lease that is no longer held does nothing.                *)
Release(c, d) ==
  /\ gate' = IF gate[d] = c THEN [gate EXCEPT ![d] = NoOne] ELSE gate
  /\ UNCHANGED <<store, lapsed, acked>>

(* The remote effect has happened: a failed write keeps PUBLISHED in       *)
(* memory and marks it pending.  The code takes no gate here; its callers  *)
(* hold it.                                                                *)
MarkPublished(d, h, n, r) ==
  LET published ==
        SetTo(d, [mem[d] EXCEPT !.state = "PUBLISHED", !.head = h,
                                !.pr = IF n = NoPr THEN @ ELSE n])
  IN
  /\ \/ mem[d].state = "NONE" /\ r = "ErrNotFound" /\ NotChanged
     \/ /\ mem[d].state = "PUBLISHED"
        /\ mem[d].head # h \/ mem[d].pr # n
        /\ r = "ErrPublishedOutcomeMismatch"
        /\ NotChanged
     \/ /\ mem[d].state = "PUBLISHED" /\ mem[d].head = h /\ mem[d].pr = n
        /\ Repaired(d, r, "PUBLISHED", "ErrPublishPersistFailed")
     \/ /\ mem[d].state \notin {"NONE", "PUBLISHED", "IN_PROGRESS"}
        /\ r = "ErrWrongState"
        /\ NotChanged
     \/ mem[d].state = "IN_PROGRESS" /\ r = "PUBLISHED" /\ Saved(published)
     \/ /\ mem[d].state = "IN_PROGRESS"
        /\ r = "ErrPublishPersistFailed"
        /\ Unsaved(published, pending \cup {d})
  /\ Replies(d, r)
  /\ UNCHANGED <<gate, lapsed>>

MarkBlockedCore(d, why, r) ==
  LET blocked == SetTo(d, [mem[d] EXCEPT !.state = "BLOCKED", !.reason = why])
  IN
  /\ \/ mem[d].state = "NONE" /\ r = "ErrNotFound" /\ NotChanged
     \/ mem[d].state = "REVOKED" /\ r = "ErrRevoked" /\ NotChanged
     \/ mem[d].state = "EXPIRED" /\ r = "ErrExpired" /\ NotChanged
     \/ /\ mem[d].state = "PUBLISHED"
        /\ Repaired(d, r, "ErrCannotBlockPublished", "ErrPublishPersistFailed")
     \/ /\ mem[d].state = "BLOCKED" /\ mem[d].reason # why
        /\ r = "ErrBlockedReasonMismatch"
        /\ NotChanged
     \/ /\ mem[d].state = "BLOCKED" /\ mem[d].reason = why
        /\ Repaired(d, r, "BLOCKED", "ErrBlockPersistFailed")
     \/ mem[d].state \in Unfinished /\ r = "BLOCKED" /\ Saved(blocked)
     \/ /\ mem[d].state \in Unfinished
        /\ r = "ErrBlockPersistFailed"
        /\ Unsaved(blocked, pending \cup {d})
  /\ Replies(d, r)
  /\ UNCHANGED <<gate, lapsed>>

(* From outside a phase: the gate is taken for the call.                   *)
MarkBlocked(d, why, r) == GateFree(d) /\ MarkBlockedCore(d, why, r)

(* From inside a phase: the lease must be the caller's and still held.     *)
MarkBlockedInPhase(c, d, why, r) ==
  \/ gate[d] = c /\ MarkBlockedCore(d, why, r)
  \/ gate[d] # c /\ r = "ErrInvalidPhaseLease" /\ UNCHANGED storeVars

(* A cache of what was seen on the remote; a failed write is rolled back.  *)
RecordRemoteHead(d, h, r) ==
  /\ \/ mem[d].state = "NONE" /\ r = "ErrNotFound" /\ NotChanged
     \/ mem[d].state \notin {"NONE", "IN_PROGRESS"} /\ r = "ErrWrongState" /\ NotChanged
     \/ /\ mem[d].state = "IN_PROGRESS"
        /\ r = "ok"
        /\ Saved(SetTo(d, [mem[d] EXCEPT !.head = h]))
     \/ mem[d].state = "IN_PROGRESS" /\ r = "ErrRecordPersistFailed" /\ NotChanged
  /\ UNCHANGED <<gate, lapsed, acked>>

-----------------------------------------------------------------------------
(* The process and its clock.                                              *)

(* Seeded fault: the gates of grants the file already holds are missing.   *)
RestartWithoutGates ==
  /\ mem' = disk
  /\ pending' = {}
  /\ gate' = [d \in {x \in Digest : disk[x].state = "NONE"} |-> NoOne]
  /\ UNCHANGED <<disk, lapsed, acked>>

(* The broker stops and is started again: Open loads the store file, with  *)
(* fresh gates and nothing pending.                                        *)
Restart ==
  /\ mem' = disk
  /\ pending' = {}
  /\ gate' = [d \in Digest |-> NoOne]
  /\ UNCHANGED <<disk, lapsed, acked>>

Lapse(d) ==
  /\ mem[d].state # "NONE"
  /\ lapsed' = lapsed \cup {d}
  /\ UNCHANGED <<store, gate, acked>>

-----------------------------------------------------------------------------
(* Any callers, in any order.  Only AdmitPublicationPhase and              *)
(* MarkBlockedInPhase know who calls.                                      *)

Reply ==
  {"ok", "AUTHORIZED", "IN_PROGRESS", "PUBLISHED", "BLOCKED", "REVOKED",
   "ErrNotFound", "ErrAlreadyExists", "ErrRevoked", "ErrExpired", "ErrBlocked",
   "ErrWrongState", "ErrCannotRevokePublished", "ErrCannotRevokeBlocked",
   "ErrCannotRevokeExpired", "ErrCannotBlockPublished", "ErrInvalidPhaseLease",
   "ErrPublishedOutcomeMismatch", "ErrBlockedReasonMismatch",
   "ErrCreatePersistFailed", "ErrRevokePersistFailed", "ErrBeginPersistFailed",
   "ErrExpirePersistFailed", "ErrPublishPersistFailed", "ErrBlockPersistFailed",
   "ErrRecordPersistFailed"}

AdminCall(d) == \E r \in Reply :
  \/ \E b \in BOOLEAN : Create(d, b, r)
  \/ Revoke(d, r)

ClientCall(d) == \E r \in Reply :
  \/ BeginOrResume(d, r)
  \/ \E h \in Commit, n \in PrNumber \cup {NoPr} : MarkPublished(d, h, n, r)
  \/ \E why \in Reason : MarkBlocked(d, why, r)
  \/ \E h \in Commit : RecordRemoteHead(d, h, r)

PhaseCall(c, d) ==
  \/ Release(c, d)
  \/ \E r \in Reply :
       \/ AdmitPublicationPhase(c, d, r)
       \/ \E why \in Reason : MarkBlockedInPhase(c, d, why, r)

StoreNext ==
  \/ Restart
  \/ \E d \in Digest :
       \/ Lapse(d)
       \/ AdminCall(d)
       \/ ClientCall(d)
       \/ \E c \in Caller : PhaseCall(c, d)

StoreSpec == StoreInit /\ [][StoreNext]_storeVars

-----------------------------------------------------------------------------
(* Properties.                                                             *)

(* A fact marked pending is the outcome of a publication that is in memory *)
(* and not in the store file, where the grant is still what the outcome    *)
(* was decided from: nothing is pending that has been written, and no      *)
(* write of another grant's record can publish one that never began        *)
(* (Store.pending).                                                        *)
PendingIsUnsaved ==
  \A d \in pending :
    \/ mem[d].state = "PUBLISHED" /\ disk[d].state = "IN_PROGRESS"
    \/ mem[d].state = "BLOCKED" /\ disk[d].state \in Unfinished

(* Memory runs ahead of the store file only for a pending fact and for a   *)
(* REVOKED whose write failed; every transition that precedes a remote     *)
(* effect was rolled back when its write failed.                           *)
MemoryIsSavedOrPending ==
  \A d \in Digest :
    \/ mem[d] = disk[d]
    \/ d \in pending
    \/ mem[d].state = "REVOKED" /\ disk[d].state \in Unfinished

(* Whoever was told, by any method, that a grant is published, blocked,    *)
(* revoked or expired was told what the store file says, now and after any *)
(* later failed write or restart.                                          *)
AckedIsDurable ==
  \A d \in Digest : \A s \in acked[d] : disk[d].state = s /\ mem[d] = disk[d]

(* While a phase is admitted the grant can be finished by that phase but   *)
(* not revoked, expired or put back to its start by anybody.               *)
HeldGateIsLive ==
  \A d \in Digest :
    gate[d] # NoOne => mem[d].state \in {"IN_PROGRESS", "PUBLISHED", "BLOCKED"}

(* A terminal grant is never overwritten (a reason, a published head or a  *)
(* pull request number included) except by a restart, which can only lose  *)
(* an outcome nobody was told is final.                                    *)
TerminalIsFinal ==
  [][\A d \in Digest :
       mem[d].state \in Terminal /\ mem'[d] # mem[d]
         => mem'[d] = disk[d] /\ acked[d] = {}]_storeVars

(* The store implements the lifecycle: its file is the durable record and  *)
(* its replies are what callers are told.                                  *)
Lifecycle == INSTANCE GrantLifecycle
               WITH Record <- Grant, durable <- disk, told <- acked
LifecycleSpec == Lifecycle!Spec
=============================================================================
