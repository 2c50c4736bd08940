------------------------- MODULE GrantStoreProofs -------------------------
(***************************************************************************)
(* Proofs about the grant store, for every set of digests, callers,        *)
(* reasons, commits and pull request numbers.                              *)
(*                                                                         *)
(* A method does one of three things to the store: nothing, a write that   *)
(* succeeds, or a failed write whose new record is kept in memory.  The    *)
(* first section shows what each of the three needs to preserve the        *)
(* invariant, the second that every method meets it, the third draws the   *)
(* temporal conclusions.                                                   *)
(***************************************************************************)
EXTENDS GrantStore, TLAPS

(* None of the five is inductive alone: that a reply is durable needs to   *)
(* know what memory may hold that the file does not, which needs to know   *)
(* what is pending.                                                        *)
IInv ==
  /\ StoreTypeOK
  /\ PendingIsUnsaved
  /\ MemoryIsSavedOrPending
  /\ AckedIsDurable
  /\ HeldGateIsLive

(* The states in which a grant may be while somebody holds its gate.       *)
Live == {"IN_PROGRESS", "PUBLISHED", "BLOCKED"}

(* The call changes no gate but that of d, which is free afterwards or     *)
(* belongs to a grant in a live state s.                                   *)
GateMoves(d, s) ==
  /\ gate' \in [Digest -> Caller \cup {NoOne}]
  /\ \A x \in Digest \ {d} : gate'[x] = gate[x]
  /\ gate'[d] # NoOne => s \in Live

LEMMA TellsTerminal ==
  ASSUME NEW r
  PROVE  Tells(r) \in SUBSET Terminal
  BY DEF Tells, Terminal

(* A grant that is not REVOKED and not pending is the same in memory and   *)
(* in the file; one that is not terminal has been told to nobody.          *)
LEMMA SavedGrant ==
  ASSUME IInv, NEW d \in Digest
  PROVE  /\ mem[d] \in Grant
         /\ mem[d].state # "REVOKED" /\ d \notin pending => mem[d] = disk[d]
         /\ d \in pending => mem[d].state \in {"PUBLISHED", "BLOCKED"}
         /\ mem[d].state \notin Terminal => acked[d] = {}
         /\ d \in pending => acked[d] = {}
         /\ \A s \in acked[d] : s = mem[d].state /\ mem[d] = disk[d]
<1>1. mem[d] \in Grant
  BY DEF IInv, StoreTypeOK
<1>2. mem[d].state # "REVOKED" /\ d \notin pending => mem[d] = disk[d]
  BY DEF IInv, MemoryIsSavedOrPending
<1>3. d \in pending => mem[d].state \in {"PUBLISHED", "BLOCKED"} /\ disk[d].state \in Unfinished
  BY DEF IInv, PendingIsUnsaved, Unfinished
<1>4. \A s \in acked[d] : s = mem[d].state /\ mem[d] = disk[d]
  BY DEF IInv, AckedIsDurable
<1>5. \A s \in acked[d] : s \in Terminal
  BY DEF IInv, StoreTypeOK
<1>6. Unfinished \cap Terminal = {}
  BY DEF Unfinished, Terminal
<1> QED
  BY <1>1, <1>2, <1>3, <1>4, <1>5, <1>6

LEMMA GateStays ==
  ASSUME IInv, NEW d \in Digest, NEW s, UNCHANGED gate,
         gate[d] = NoOne \/ s \in Live \/ s = mem[d].state
  PROVE  GateMoves(d, s)
  BY DEF IInv, StoreTypeOK, HeldGateIsLive, GateMoves, Live

-----------------------------------------------------------------------------
(* The three effects.                                                      *)

(* Nothing is written: the reply may tell the state of a saved grant.      *)
LEMMA UnchangedStep ==
  ASSUME IInv, NEW d \in Digest, NEW r,
         NotChanged, Replies(d, r), UNCHANGED lapsed, GateMoves(d, mem[d].state),
         \A s \in Tells(r) : s = mem[d].state /\ mem[d] = disk[d]
  PROVE  IInv'
<1>1. StoreTypeOK'
  BY TellsTerminal DEF IInv, StoreTypeOK, GateMoves, NotChanged, store, Replies
<1>2. (PendingIsUnsaved /\ MemoryIsSavedOrPending)'
  BY DEF IInv, PendingIsUnsaved, MemoryIsSavedOrPending, NotChanged, store
<1>3. AckedIsDurable'
  BY DEF IInv, StoreTypeOK, AckedIsDurable, NotChanged, store, Replies
<1>4. HeldGateIsLive'
  BY DEF IInv, HeldGateIsLive, GateMoves, Live, NotChanged, store
<1> QED
  BY <1>1, <1>2, <1>3, <1>4 DEF IInv

(* A write succeeds: everything in memory becomes durable, so only the     *)
(* grant that changes has to be looked at.                                 *)
LEMMA SavedStep ==
  ASSUME IInv, NEW d \in Digest, NEW g \in Grant, NEW r,
         Saved(SetTo(d, g)), Replies(d, r), UNCHANGED lapsed, GateMoves(d, g.state),
         g = mem[d] \/ acked[d] = {},
         \A s \in Tells(r) : s = g.state
  PROVE  IInv'
<1> USE DEF Saved, SetTo
<1>1. StoreTypeOK'
  BY TellsTerminal DEF IInv, StoreTypeOK, GateMoves, Replies
<1>2. (PendingIsUnsaved /\ MemoryIsSavedOrPending)'
  BY DEF PendingIsUnsaved, MemoryIsSavedOrPending
<1>3. AckedIsDurable'
  <2> SUFFICES ASSUME NEW x \in Digest, NEW s \in acked'[x]
               PROVE  mem'[x].state = s
    BY DEF AckedIsDurable
  <2>1. CASE x # d
    BY <2>1 DEF IInv, StoreTypeOK, AckedIsDurable, Replies
  <2>2. CASE x = d
    BY <2>2 DEF IInv, StoreTypeOK, AckedIsDurable, Replies
  <2> QED
    BY <2>1, <2>2
<1>4. HeldGateIsLive'
  BY DEF IInv, StoreTypeOK, HeldGateIsLive, GateMoves, Live
<1> QED
  BY <1>1, <1>2, <1>3, <1>4 DEF IInv

(* A write fails and the new record stays in memory: nobody may be told,   *)
(* and the record must be pending unless it is REVOKED.                    *)
LEMMA UnsavedStep ==
  ASSUME IInv, NEW d \in Digest, NEW g \in Grant, NEW p, NEW r,
         Unsaved(SetTo(d, g), p), Replies(d, r), UNCHANGED lapsed, GateMoves(d, g.state),
         Tells(r) = {},
         \/ /\ mem[d].state \in Unfinished
            /\ \/ p = pending /\ g.state = "REVOKED"
               \/ p = pending \cup {d} /\ g.state = "BLOCKED"
               \/ /\ p = pending \cup {d} /\ g.state = "PUBLISHED"
                  /\ mem[d].state = "IN_PROGRESS"
         \/ p = pending /\ g = mem[d]
  PROVE  IInv'
<1> USE DEF Unsaved, SetTo
<1>1. StoreTypeOK'
  BY TellsTerminal DEF IInv, StoreTypeOK, GateMoves, Replies
<1>2. mem[d].state \in Unfinished => mem[d] = disk[d] /\ acked[d] = {} /\ d \notin pending
  BY SavedGrant DEF Unfinished, Terminal
<1>3. PendingIsUnsaved'
  BY <1>2 DEF IInv, StoreTypeOK, PendingIsUnsaved
<1>4. MemoryIsSavedOrPending'
  BY <1>2 DEF IInv, StoreTypeOK, MemoryIsSavedOrPending
<1>5. AckedIsDurable'
  BY <1>2 DEF IInv, StoreTypeOK, AckedIsDurable, Replies
<1>6. HeldGateIsLive'
  BY DEF IInv, StoreTypeOK, HeldGateIsLive, GateMoves, Live
<1> QED
  BY <1>1, <1>3, <1>4, <1>5, <1>6 DEF IInv

(* The repair of a pending fact, for every way a surface spells its plain  *)
(* answer and its "not yet durable" one.                                   *)
LEMMA RepairedStep ==
  ASSUME IInv, NEW d \in Digest, NEW r, NEW plain, NEW failed,
         Repaired(d, r, plain, failed), Replies(d, r), UNCHANGED lapsed,
         GateMoves(d, mem[d].state),
         mem[d].state \in {"PUBLISHED", "BLOCKED"},
         Tells(plain) \subseteq {mem[d].state},
         Tells(failed) = {}
  PROVE  IInv'
<1>1. CASE d \notin pending /\ r = plain /\ NotChanged
  <2>1. mem[d] = disk[d]
    BY <1>1, SavedGrant
  <2> QED
    BY <1>1, <2>1, UnchangedStep
<1>2. CASE d \in pending /\ r = plain /\ Saved(mem)
  <2>1. SetTo(d, mem[d]) = mem /\ mem[d] \in Grant
    BY DEF SetTo, IInv, StoreTypeOK
  <2>2. acked[d] = {}
    BY <1>2, SavedGrant
  <2> QED
    BY <1>2, <2>1, <2>2, SavedStep
<1>3. CASE d \in pending /\ r = failed /\ NotChanged
  BY <1>3, UnchangedStep
<1> QED
  BY <1>1, <1>2, <1>3 DEF Repaired

-----------------------------------------------------------------------------
(* Every method has one of the three effects.                              *)

LEMMA InitIInv ==
  ASSUME StoreInit
  PROVE  IInv
  BY StoreAssumption
  DEF StoreInit, IInv, StoreTypeOK, PendingIsUnsaved, MemoryIsSavedOrPending,
      AckedIsDurable, HeldGateIsLive, NoGrant, Grant, GrantState

LEMMA CreateIInv ==
  ASSUME IInv, NEW d \in Digest, NEW b \in BOOLEAN, NEW r, Create(d, b, r)
  PROVE  IInv'
<1> USE DEF Create
<1>1. CASE r \in {"ErrAlreadyExists", "ErrCreatePersistFailed"} /\ NotChanged
  BY <1>1, UnchangedStep, GateStays DEF Tells
<1>2. CASE mem[d].state = "NONE" /\ r = "AUTHORIZED" /\ Saved(SetTo(d, NewGrant(b)))
  <2>1. NewGrant(b) \in Grant
    BY DEF NewGrant, NoGrant, Grant, GrantState, Unfinished
  <2>2. acked[d] = {} /\ gate[d] = NoOne
    BY <1>2, SavedGrant DEF IInv, HeldGateIsLive, Terminal
  <2> QED
    BY <1>2, <2>1, <2>2, SavedStep, GateStays DEF Tells
<1> QED
  BY <1>1, <1>2

LEMMA RevokeIInv ==
  ASSUME IInv, NEW d \in Digest, NEW r, Revoke(d, r)
  PROVE  IInv'
<1> DEFINE g == [mem[d] EXCEPT !.state = "REVOKED"]
<1>1. g \in Grant /\ g.state = "REVOKED" /\ (mem[d].state = "REVOKED" => g = mem[d])
  BY SavedGrant DEF Grant, GrantState, Terminal
<1>2. gate[d] = NoOne /\ Replies(d, r) /\ UNCHANGED gate /\ UNCHANGED lapsed
  BY DEF Revoke, GateFree
<1>3. CASE mem[d].state = "NONE" /\ r = "ErrNotFound" /\ NotChanged
  BY <1>2, <1>3, UnchangedStep, GateStays DEF Tells
<1>4. CASE mem[d].state \in Revocable /\ r = "REVOKED" /\ Saved(SetTo(d, g))
  <2>1. g = mem[d] \/ acked[d] = {}
    BY <1>1, <1>4, SavedGrant DEF Revocable, Unfinished, Terminal
  <2> QED
    BY <1>1, <1>2, <1>4, <2>1, SavedStep, GateStays DEF Tells
<1>5. CASE mem[d].state \in Revocable /\ r = "ErrRevokePersistFailed" /\ Unsaved(SetTo(d, g), pending)
  BY <1>1, <1>2, <1>5, UnsavedStep, GateStays DEF Tells, Revocable
<1>6. CASE mem[d].state = "PUBLISHED" /\ Repaired(d, r, "ErrCannotRevokePublished", "ErrPublishPersistFailed")
  BY <1>2, <1>6, RepairedStep, GateStays DEF Tells
<1>7. CASE mem[d].state = "BLOCKED" /\ Repaired(d, r, "ErrCannotRevokeBlocked", "ErrBlockPersistFailed")
  BY <1>2, <1>7, RepairedStep, GateStays DEF Tells
<1>8. CASE mem[d].state = "EXPIRED" /\ r = "ErrCannotRevokeExpired" /\ NotChanged
  BY <1>2, <1>8, UnchangedStep, GateStays, SavedGrant DEF Tells
<1> QED
  BY <1>3, <1>4, <1>5, <1>6, <1>7, <1>8 DEF Revoke

LEMMA BeginOrResumeIInv ==
  ASSUME IInv, NEW d \in Digest, NEW r, BeginOrResume(d, r)
  PROVE  IInv'
<1>1. Replies(d, r) /\ UNCHANGED gate /\ UNCHANGED lapsed
  BY DEF BeginOrResume
<1>2. CASE r \in {"ErrNotFound", "ErrRevoked", "IN_PROGRESS"} /\ NotChanged
  BY <1>1, <1>2, UnchangedStep, GateStays DEF Tells
<1>3. CASE mem[d].state = "EXPIRED" /\ r = "ErrExpired" /\ NotChanged
  BY <1>1, <1>3, UnchangedStep, GateStays, SavedGrant DEF Tells
<1>4. CASE mem[d].state = "BLOCKED" /\ Repaired(d, r, "ErrBlocked", "ErrBlockPersistFailed")
  BY <1>1, <1>4, RepairedStep, GateStays DEF Tells
<1>5. CASE mem[d].state = "PUBLISHED" /\ Repaired(d, r, "PUBLISHED", "ErrPublishPersistFailed")
  BY <1>1, <1>5, RepairedStep, GateStays DEF Tells
<1>6. ASSUME mem[d].state = "AUTHORIZED",
             NEW s \in {"EXPIRED", "IN_PROGRESS"}, NEW told, NEW failed,
             BeginFrom(d, s, r, told, failed),
             \A t \in Tells(told) : t = s, Tells(failed) = {}
      PROVE  IInv'
  <2> DEFINE g == [mem[d] EXCEPT !.state = s]
  <2>1. g \in Grant /\ g.state = s
    BY SavedGrant DEF Grant, GrantState, Terminal, Unfinished
  <2>2. acked[d] = {} /\ gate[d] = NoOne
    BY <1>6, SavedGrant DEF IInv, HeldGateIsLive, Terminal
  <2>3. CASE r = told /\ Saved(SetTo(d, g))
    BY <1>1, <1>6, <2>1, <2>2, <2>3, SavedStep, GateStays
  <2>4. CASE r = failed /\ NotChanged
    BY <1>1, <1>6, <2>4, UnchangedStep, GateStays
  <2> QED
    BY <1>6, <2>3, <2>4 DEF BeginFrom
<1>7. CASE mem[d].state = "AUTHORIZED" /\ BeginFrom(d, "EXPIRED", r, "ErrExpired", "ErrExpirePersistFailed")
  BY <1>6, <1>7 DEF Tells
<1>8. CASE mem[d].state = "AUTHORIZED" /\ BeginFrom(d, "IN_PROGRESS", r, "IN_PROGRESS", "ErrBeginPersistFailed")
  BY <1>6, <1>8 DEF Tells
<1> QED
  BY <1>2, <1>3, <1>4, <1>5, <1>7, <1>8 DEF BeginOrResume

(* The gate it hands out belongs to a grant in progress or published.      *)
LEMMA AdmitIInv ==
  ASSUME IInv, NEW c \in Caller, NEW d \in Digest, NEW r, AdmitPublicationPhase(c, d, r)
  PROVE  IInv'
<1>1. Replies(d, r) /\ UNCHANGED lapsed
  BY DEF AdmitPublicationPhase
<1>2. ASSUME r \in {"IN_PROGRESS", "PUBLISHED"} => mem[d].state \in Live
      PROVE  GateMoves(d, mem[d].state)
  BY <1>2 DEF AdmitPublicationPhase, GateFree, GateMoves, IInv, StoreTypeOK
<1>3. CASE mem[d].state # "IN_PROGRESS" /\ NotChanged
           /\ r \in {"ErrNotFound", "ErrWrongState", "ErrRevoked"}
  BY <1>1, <1>2, <1>3, UnchangedStep DEF Tells
<1>4. CASE mem[d].state = "IN_PROGRESS" /\ r = "IN_PROGRESS" /\ NotChanged
  BY <1>1, <1>2, <1>4, UnchangedStep DEF Tells, Live
<1>5. CASE mem[d].state = "EXPIRED" /\ r = "ErrExpired" /\ NotChanged
  BY <1>1, <1>2, <1>5, UnchangedStep, SavedGrant DEF Tells
<1>6. CASE mem[d].state = "BLOCKED" /\ Repaired(d, r, "ErrBlocked", "ErrBlockPersistFailed")
  BY <1>1, <1>2, <1>6, RepairedStep DEF Tells, Live
<1>7. CASE mem[d].state = "PUBLISHED" /\ Repaired(d, r, "PUBLISHED", "ErrPublishPersistFailed")
  BY <1>1, <1>2, <1>7, RepairedStep DEF Tells, Live
<1> QED
  BY <1>3, <1>4, <1>5, <1>6, <1>7 DEF AdmitPublicationPhase

LEMMA MarkPublishedIInv ==
  ASSUME IInv, NEW d \in Digest, NEW h \in Commit, NEW n \in PrNumber \cup {NoPr}, NEW r,
         MarkPublished(d, h, n, r)
  PROVE  IInv'
<1> DEFINE g == [mem[d] EXCEPT !.state = "PUBLISHED", !.head = h,
                               !.pr = IF n = NoPr THEN @ ELSE n]
<1>1. g \in Grant /\ g.state = "PUBLISHED"
  BY SavedGrant DEF Grant, GrantState, Terminal
<1>2. Replies(d, r) /\ UNCHANGED gate /\ UNCHANGED lapsed
  BY DEF MarkPublished
<1>3. CASE r \in {"ErrNotFound", "ErrPublishedOutcomeMismatch", "ErrWrongState"} /\ NotChanged
  BY <1>2, <1>3, UnchangedStep, GateStays DEF Tells
<1>4. CASE mem[d].state = "PUBLISHED" /\ Repaired(d, r, "PUBLISHED", "ErrPublishPersistFailed")
  BY <1>2, <1>4, RepairedStep, GateStays DEF Tells
<1>5. CASE mem[d].state = "IN_PROGRESS" /\ r = "PUBLISHED" /\ Saved(SetTo(d, g))
  BY <1>1, <1>2, <1>5, SavedStep, GateStays, SavedGrant DEF Tells, Terminal, Live
<1>6. CASE /\ mem[d].state = "IN_PROGRESS"
           /\ r = "ErrPublishPersistFailed"
           /\ Unsaved(SetTo(d, g), pending \cup {d})
  BY <1>1, <1>2, <1>6, UnsavedStep, GateStays DEF Tells, Unfinished, Live
<1> QED
  BY <1>3, <1>4, <1>5, <1>6 DEF MarkPublished

LEMMA MarkBlockedCoreIInv ==
  ASSUME IInv, NEW d \in Digest, NEW why \in Reason, NEW r, MarkBlockedCore(d, why, r)
  PROVE  IInv'
<1> DEFINE g == [mem[d] EXCEPT !.state = "BLOCKED", !.reason = why]
<1>1. g \in Grant /\ g.state = "BLOCKED"
  BY SavedGrant DEF Grant, GrantState, Terminal
<1>2. Replies(d, r) /\ UNCHANGED gate /\ UNCHANGED lapsed
  BY DEF MarkBlockedCore
<1>3. CASE r \in {"ErrNotFound", "ErrRevoked", "ErrBlockedReasonMismatch"} /\ NotChanged
  BY <1>2, <1>3, UnchangedStep, GateStays DEF Tells
<1>4. CASE mem[d].state = "EXPIRED" /\ r = "ErrExpired" /\ NotChanged
  BY <1>2, <1>4, UnchangedStep, GateStays, SavedGrant DEF Tells
<1>5. CASE mem[d].state = "PUBLISHED" /\ Repaired(d, r, "ErrCannotBlockPublished", "ErrPublishPersistFailed")
  BY <1>2, <1>5, RepairedStep, GateStays DEF Tells
<1>6. CASE mem[d].state = "BLOCKED" /\ Repaired(d, r, "BLOCKED", "ErrBlockPersistFailed")
  BY <1>2, <1>6, RepairedStep, GateStays DEF Tells
<1>7. CASE mem[d].state \in Unfinished /\ r = "BLOCKED" /\ Saved(SetTo(d, g))
  BY <1>1, <1>2, <1>7, SavedStep, GateStays, SavedGrant DEF Tells, Unfinished, Terminal, Live
<1>8. CASE /\ mem[d].state \in Unfinished
           /\ r = "ErrBlockPersistFailed"
           /\ Unsaved(SetTo(d, g), pending \cup {d})
  BY <1>1, <1>2, <1>8, UnsavedStep, GateStays DEF Tells, Live
<1> QED
  BY <1>3, <1>4, <1>5, <1>6, <1>7, <1>8 DEF MarkBlockedCore

LEMMA RecordRemoteHeadIInv ==
  ASSUME IInv, NEW d \in Digest, NEW h \in Commit, NEW r, RecordRemoteHead(d, h, r)
  PROVE  IInv'
<1> DEFINE g == [mem[d] EXCEPT !.head = h]
<1>1. g \in Grant /\ g.state = mem[d].state
  BY SavedGrant DEF Grant
<1>2. UNCHANGED gate /\ UNCHANGED lapsed /\ UNCHANGED acked
  BY DEF RecordRemoteHead
<1>3. Tells("ok") = {} /\ Replies(d, "ok")
  BY <1>2 DEF Tells, Replies, IInv, StoreTypeOK
<1>4. CASE NotChanged
  BY <1>2, <1>3, <1>4, UnchangedStep, GateStays
<1>5. CASE mem[d].state = "IN_PROGRESS" /\ Saved(SetTo(d, g))
  BY <1>1, <1>2, <1>3, <1>5, SavedStep, GateStays, SavedGrant DEF Terminal
<1> QED
  BY <1>4, <1>5 DEF RecordRemoteHead

LEMMA GateIInv ==
  ASSUME IInv, NEW c \in Caller, NEW d \in Digest, Release(c, d)
  PROVE  IInv'
  BY DEF Release, store, IInv, StoreTypeOK, PendingIsUnsaved, MemoryIsSavedOrPending,
         AckedIsDurable, HeldGateIsLive

LEMMA RestartIInv ==
  ASSUME IInv, Restart
  PROVE  IInv'
  BY DEF Restart, IInv, StoreTypeOK, PendingIsUnsaved, MemoryIsSavedOrPending,
         AckedIsDurable, HeldGateIsLive

LEMMA LapseIInv ==
  ASSUME IInv, NEW d \in Digest, Lapse(d)
  PROVE  IInv'
  BY DEF Lapse, store, IInv, StoreTypeOK, PendingIsUnsaved, MemoryIsSavedOrPending,
         AckedIsDurable, HeldGateIsLive

LEMMA StutterIInv ==
  ASSUME IInv, UNCHANGED storeVars
  PROVE  IInv'
  BY DEF storeVars, IInv, StoreTypeOK, PendingIsUnsaved, MemoryIsSavedOrPending,
         AckedIsDurable, HeldGateIsLive

LEMMA NextIInv ==
  ASSUME IInv, [StoreNext]_storeVars
  PROVE  IInv'
<1>1. CASE Restart
  BY <1>1, RestartIInv
<1>2. CASE UNCHANGED storeVars
  BY <1>2, StutterIInv
<1>3. ASSUME NEW d \in Digest, Lapse(d) \/ AdminCall(d)
      PROVE  IInv'
  BY <1>3, LapseIInv, CreateIInv, RevokeIInv DEF AdminCall
<1>4. ASSUME NEW d \in Digest, ClientCall(d)
      PROVE  IInv'
  BY <1>4, BeginOrResumeIInv, MarkPublishedIInv, MarkBlockedCoreIInv, RecordRemoteHeadIInv
  DEF ClientCall, MarkBlocked
<1>5. ASSUME NEW d \in Digest, NEW c \in Caller, PhaseCall(c, d)
      PROVE  IInv'
  BY <1>5, GateIInv, AdmitIInv, MarkBlockedCoreIInv, StutterIInv DEF PhaseCall, MarkBlockedInPhase
<1> QED
  BY <1>1, <1>2, <1>3, <1>4, <1>5 DEF StoreNext

-----------------------------------------------------------------------------
(* How far one step can go.  A restart aside, every step takes one grant   *)
(* at most to a successor of its state in memory, writes all of memory or  *)
(* nothing, and tells of one terminal state at most.                       *)

Forward(d, g) == g = mem[d] \/ g.state \in Lifecycle!Successor[mem[d].state]

Wrote == UNCHANGED disk \/ disk' = mem'

Told(d) == acked'[d] = acked[d] \/ \E s \in Terminal : acked'[d] = acked[d] \cup {s}

Measured ==
  /\ \A d \in Digest : Forward(d, mem'[d]) /\ Told(d)
  /\ Wrote

LEMMA Successors ==
  /\ Lifecycle!Successor["NONE"] = {"AUTHORIZED"}
  /\ Lifecycle!Successor["AUTHORIZED"] = {"IN_PROGRESS", "BLOCKED", "REVOKED", "EXPIRED"}
  /\ Lifecycle!Successor["IN_PROGRESS"] = {"IN_PROGRESS", "PUBLISHED", "BLOCKED", "REVOKED"}
  /\ \A s \in Terminal : Lifecycle!Successor[s] = {}
  BY DEF Lifecycle!Successor, Lifecycle!Terminal, Terminal

LEMMA MeasuredReply ==
  ASSUME IInv, NEW d \in Digest, NEW r, Replies(d, r)
  PROVE  \A x \in Digest : Told(x)
<1>1. Tells(r) = {} \/ \E s \in Terminal : Tells(r) = {s}
  BY DEF Tells, Terminal
<1> QED
  BY <1>1 DEF Replies, Told, IInv, StoreTypeOK

LEMMA MeasuredWrite ==
  ASSUME IInv, NEW d \in Digest, NEW g \in Grant, NEW r, Replies(d, r), Forward(d, g),
         Saved(SetTo(d, g)) \/ \E p : Unsaved(SetTo(d, g), p)
  PROVE  Measured
<1>1. mem' = SetTo(d, g) /\ Wrote
  BY DEF Saved, Unsaved, Wrote
<1>2. \A x \in Digest : Forward(x, mem'[x])
  BY <1>1 DEF SetTo, Forward, IInv, StoreTypeOK
<1> QED
  BY <1>1, <1>2, MeasuredReply DEF Measured

LEMMA MeasuredSame ==
  ASSUME IInv, NEW d \in Digest, NEW r, Replies(d, r), NotChanged \/ Saved(mem)
  PROVE  Measured
  BY MeasuredReply DEF Measured, Forward, Wrote, NotChanged, Saved, store

LEMMA MeasuredRepair ==
  ASSUME IInv, NEW d \in Digest, NEW r, NEW plain, NEW failed, Replies(d, r),
         Repaired(d, r, plain, failed)
  PROVE  Measured
  BY MeasuredSame DEF Repaired

LEMMA AdminMeasured ==
  ASSUME IInv, NEW d \in Digest, AdminCall(d)
  PROVE  Measured
<1>1. PICK r \in Reply : Revoke(d, r) \/ \E b \in BOOLEAN : Create(d, b, r)
  BY DEF AdminCall
<1>2. ASSUME NEW b \in BOOLEAN, Create(d, b, r)
      PROVE  Measured
  <2>1. NewGrant(b) \in Grant /\ NewGrant(b).state = "AUTHORIZED"
    BY DEF NewGrant, NoGrant, Grant, GrantState, Unfinished
  <2> QED
    BY <1>2, <2>1, MeasuredSame, MeasuredWrite, Successors DEF Create, Forward
<1>3. CASE Revoke(d, r)
  <2> DEFINE g == [mem[d] EXCEPT !.state = "REVOKED"]
  <2>1. g \in Grant /\ g.state = "REVOKED" /\ (mem[d].state = "REVOKED" => g = mem[d])
    BY SavedGrant DEF Grant, GrantState, Terminal
  <2>2. mem[d].state \in Revocable => Forward(d, g)
    BY <2>1, Successors DEF Forward, Revocable, Unfinished
  <2>3. Replies(d, r)
    BY <1>3 DEF Revoke
  <2>4. CASE mem[d].state \in Revocable /\ (Saved(SetTo(d, g)) \/ Unsaved(SetTo(d, g), pending))
    BY <2>1, <2>2, <2>3, <2>4, MeasuredWrite
  <2>5. CASE \/ NotChanged
             \/ Repaired(d, r, "ErrCannotRevokePublished", "ErrPublishPersistFailed")
             \/ Repaired(d, r, "ErrCannotRevokeBlocked", "ErrBlockPersistFailed")
    BY <2>3, <2>5, MeasuredSame, MeasuredRepair
  <2> QED
    BY <1>3, <2>4, <2>5 DEF Revoke
<1> QED
  BY <1>1, <1>2, <1>3

LEMMA BlockMeasured ==
  ASSUME IInv, NEW d \in Digest, NEW why \in Reason, NEW r, MarkBlockedCore(d, why, r)
  PROVE  Measured
<1> DEFINE g == [mem[d] EXCEPT !.state = "BLOCKED", !.reason = why]
<1>1. g \in Grant /\ g.state = "BLOCKED"
  BY SavedGrant DEF Grant, GrantState, Terminal
<1>2. mem[d].state \in Unfinished => Forward(d, g)
  BY <1>1, Successors DEF Forward, Unfinished
<1>3. Replies(d, r)
  BY DEF MarkBlockedCore
<1>4. CASE /\ mem[d].state \in Unfinished
           /\ Saved(SetTo(d, g)) \/ Unsaved(SetTo(d, g), pending \cup {d})
  BY <1>1, <1>2, <1>3, <1>4, MeasuredWrite
<1>5. CASE \/ NotChanged
           \/ Repaired(d, r, "ErrCannotBlockPublished", "ErrPublishPersistFailed")
           \/ Repaired(d, r, "BLOCKED", "ErrBlockPersistFailed")
  BY <1>3, <1>5, MeasuredSame, MeasuredRepair
<1> QED
  BY <1>4, <1>5 DEF MarkBlockedCore

LEMMA BeginMeasured ==
  ASSUME IInv, NEW d \in Digest, NEW r, BeginOrResume(d, r)
  PROVE  Measured
<1>1. Replies(d, r)
  BY DEF BeginOrResume
<1>2. ASSUME mem[d].state = "AUTHORIZED", NEW s \in {"EXPIRED", "IN_PROGRESS"},
             Saved(SetTo(d, [mem[d] EXCEPT !.state = s]))
      PROVE  Measured
  <2> DEFINE g == [mem[d] EXCEPT !.state = s]
  <2>1. g \in Grant /\ g.state = s
    BY SavedGrant DEF Grant, GrantState, Terminal, Unfinished
  <2> QED
    BY <1>1, <1>2, <2>1, MeasuredWrite, Successors DEF Forward
<1>3. CASE \/ NotChanged
           \/ Repaired(d, r, "ErrBlocked", "ErrBlockPersistFailed")
           \/ Repaired(d, r, "PUBLISHED", "ErrPublishPersistFailed")
  BY <1>1, <1>3, MeasuredSame, MeasuredRepair
<1> QED
  BY <1>2, <1>3 DEF BeginOrResume, BeginFrom

LEMMA PublishMeasured ==
  ASSUME IInv, NEW d \in Digest, NEW h \in Commit, NEW n \in PrNumber \cup {NoPr}, NEW r,
         MarkPublished(d, h, n, r)
  PROVE  Measured
<1> DEFINE g == [mem[d] EXCEPT !.state = "PUBLISHED", !.head = h,
                               !.pr = IF n = NoPr THEN @ ELSE n]
<1>1. g \in Grant /\ g.state = "PUBLISHED"
  BY SavedGrant DEF Grant, GrantState, Terminal
<1>2. mem[d].state = "IN_PROGRESS" => Forward(d, g)
  BY <1>1, Successors DEF Forward
<1>3. Replies(d, r)
  BY DEF MarkPublished
<1>4. CASE /\ mem[d].state = "IN_PROGRESS"
           /\ Saved(SetTo(d, g)) \/ Unsaved(SetTo(d, g), pending \cup {d})
  BY <1>1, <1>2, <1>3, <1>4, MeasuredWrite
<1>5. CASE NotChanged \/ Repaired(d, r, "PUBLISHED", "ErrPublishPersistFailed")
  BY <1>3, <1>5, MeasuredSame, MeasuredRepair
<1> QED
  BY <1>4, <1>5 DEF MarkPublished

LEMMA RecordMeasured ==
  ASSUME IInv, NEW d \in Digest, NEW h \in Commit, NEW r, RecordRemoteHead(d, h, r)
  PROVE  Measured
<1> DEFINE g == [mem[d] EXCEPT !.head = h]
<1>1. g \in Grant /\ g.state = mem[d].state
  BY SavedGrant DEF Grant
<1>2. Replies(d, "ok")
  BY DEF RecordRemoteHead, Tells, Replies, IInv, StoreTypeOK
<1>3. CASE mem[d].state = "IN_PROGRESS" /\ Saved(SetTo(d, g))
  BY <1>1, <1>2, <1>3, MeasuredWrite, Successors DEF Forward
<1>4. CASE NotChanged
  BY <1>2, <1>4, MeasuredSame
<1> QED
  BY <1>3, <1>4 DEF RecordRemoteHead

LEMMA NextMeasured ==
  ASSUME IInv, [StoreNext]_storeVars
  PROVE  Measured \/ Restart
<1>1. ASSUME UNCHANGED store, UNCHANGED acked
      PROVE  Measured
  BY <1>1 DEF store, Measured, Forward, Told, Wrote
<1>2. ASSUME NEW d \in Digest, ClientCall(d)
      PROVE  Measured
  BY <1>2, BeginMeasured, PublishMeasured, BlockMeasured, RecordMeasured DEF ClientCall, MarkBlocked
<1>3. ASSUME NEW d \in Digest, NEW c \in Caller, NEW r, AdmitPublicationPhase(c, d, r)
      PROVE  Measured
  BY <1>3, MeasuredSame, MeasuredRepair DEF AdmitPublicationPhase
<1>4. ASSUME NEW d \in Digest, NEW c \in Caller, PhaseCall(c, d)
      PROVE  Measured
  BY <1>1, <1>3, <1>4, BlockMeasured DEF PhaseCall, MarkBlockedInPhase, Release, storeVars, store
<1>5. ASSUME NEW d \in Digest, Lapse(d)
      PROVE  Measured
  BY <1>1, <1>5 DEF Lapse
<1> QED
  BY <1>1, <1>2, <1>4, <1>5, AdminMeasured DEF StoreNext, storeVars, store

-----------------------------------------------------------------------------
(* What holds of the store.                                                *)

THEOREM StoreInvariant == StoreSpec => []IInv
  BY InitIInv, NextIInv, PTL DEF StoreSpec

(* The state space is the one declared, for every instance.                *)
THEOREM StoreTypes == StoreSpec => []StoreTypeOK
  BY StoreInvariant, PTL DEF IInv

(* Every reply that called a grant published, blocked, revoked or expired, *)
(* by any method and after any failed write, repair or restart, says what  *)
(* the store file says.                                                    *)
THEOREM RepliesAreDurable == StoreSpec => []AckedIsDurable
  BY StoreInvariant, PTL DEF IInv

(* Memory differs from the file only by pending outcomes and by a revoke   *)
(* whose write failed.                                                     *)
THEOREM MemoryIsAccounted == StoreSpec => []MemoryIsSavedOrPending
  BY StoreInvariant, PTL DEF IInv

(* An outcome marked pending is in memory and not in the file, whichever   *)
(* grant's write flushes the memory and whenever the process restarts.     *)
THEOREM PendingIsKept == StoreSpec => []PendingIsUnsaved
  BY StoreInvariant, PTL DEF IInv

(* Nobody revokes or expires a grant while a publication phase is admitted *)
(* for it.                                                                 *)
THEOREM AdmittedIsLive == StoreSpec => []HeldGateIsLive
  BY StoreInvariant, PTL DEF IInv

(* Memory keeps a terminal record as it is; a restart that goes back on    *)
(* one loses an outcome nobody was told of.                                *)
THEOREM TerminalStaysFinal == StoreSpec => TerminalIsFinal
<1> DEFINE Final == \A d \in Digest :
                      mem[d].state \in Terminal /\ mem'[d] # mem[d]
                        => mem'[d] = disk[d] /\ acked[d] = {}
<1>1. ASSUME IInv, [StoreNext]_storeVars
      PROVE  Final
  <2>1. CASE Measured
    BY <2>1, Successors DEF Measured, Forward
  <2>2. CASE Restart
    BY <1>1, <2>2, SavedGrant DEF Restart
  <2> QED
    BY <1>1, <2>1, <2>2, NextMeasured
<1> QED
  BY <1>1, StoreInvariant, PTL DEF StoreSpec, TerminalIsFinal

(* The store implements the grant lifecycle: whatever the calls, the       *)
(* failed writes and the restarts, the file moves along the lifecycle and  *)
(* callers are told the truth for ever.                                    *)
THEOREM StoreImplementsLifecycle == StoreSpec => LifecycleSpec
<1>1. StoreInit => Lifecycle!Init
  BY StoreAssumption DEF StoreInit, Lifecycle!Init, NoGrant, Grant, GrantState
<1>2. ASSUME IInv, IInv', [StoreNext]_storeVars
      PROVE  [Lifecycle!Next]_Lifecycle!vars
  <2>1. CASE Restart
    BY <2>1 DEF Restart, Lifecycle!vars
  <2>2. CASE Measured
    <3>1. ASSUME NEW d \in Digest
          PROVE  Lifecycle!Moves(d)
      <4>1. CASE UNCHANGED disk
        BY <4>1 DEF Lifecycle!Moves
      <4>2. CASE disk' = mem' /\ mem'[d] # mem[d]
        <5>1. mem[d].state \notin Terminal /\ mem[d] = disk[d]
          BY <1>2, <2>2, <4>2, Successors, SavedGrant DEF Measured, Forward, Terminal
        <5> QED
          BY <2>2, <4>2, <5>1 DEF Measured, Forward, Lifecycle!Moves
      <4>3. CASE disk' = mem' /\ mem'[d] = mem[d]
        BY <1>2, <4>3, Successors
        DEF IInv, PendingIsUnsaved, MemoryIsSavedOrPending, Unfinished, Lifecycle!Moves
      <4> QED
        BY <2>2, <4>1, <4>2, <4>3 DEF Measured, Wrote
    <3>2. ASSUME NEW d \in Digest
          PROVE  Lifecycle!Tells(d)
      BY <1>2, <2>2 DEF Measured, Told, Lifecycle!Tells, IInv, AckedIsDurable,
         Terminal, Lifecycle!Terminal
    <3>3. disk' \in [Digest -> Grant] /\ acked' \in [Digest -> SUBSET Lifecycle!Terminal]
      BY <1>2 DEF IInv, StoreTypeOK, Terminal, Lifecycle!Terminal
    <3> QED
      BY <3>1, <3>2, <3>3 DEF Lifecycle!Next
  <2> QED
    BY <1>2, <2>1, <2>2, NextMeasured
<1> QED
  BY <1>1, <1>2, StoreInvariant, PTL DEF StoreSpec, LifecycleSpec, Lifecycle!Spec
=============================================================================
