---------------------------- MODULE BrokerProofs ----------------------------
(***************************************************************************)
(* Proofs about the publication broker, for any number of grants, requests *)
(* at once, commits and pull requests, and however much others interfere.  *)
(*                                                                         *)
(* A step of the broker is one call of the store at most, and what a       *)
(* request knows of its grant is kept by the calls of all the others: the  *)
(* gate keeps them out of the phase, a record never goes back, and an      *)
(* acknowledged record is final.  The first section states what a request  *)
(* knows; the second shows that others leave it true; the third that its   *)
(* own next step does.                                                     *)
(***************************************************************************)
EXTENDS PublicationBroker, GrantStoreProofs

Location ==
  {"idle", "checking", "rejecting", "converging", "return", "admitA", "handover", "admitB"}
  \cup InPhase

Code ==
  {"", "TRANSIENT", "NO_GRANT", "GRANT_REVOKED", "GRANT_BLOCK_REASON_MISMATCH"}
  \cup FinalCode \cup DefensiveCode

Job == [digest : Digest, expect : Head, obs : Head, why : Reason \cup {NoReason},
        pr : PrNumber \cup {NoPr}, code : Code]

LocalTypeOK ==
  /\ pc \in [Caller -> Location]
  /\ job \in [Caller -> Job]
  /\ revoking \subseteq Digest
  /\ answered \in [Digest -> SUBSET Code]

RemoteTypeOK ==
  /\ head \in Head
  /\ prs \in [PrNumber -> PrState]
  /\ late \subseteq Digest \X Head
  /\ landed \subseteq Commit
  /\ moves \subseteq Digest \X Head
  /\ opened \in [Digest -> SUBSET PrNumber]
  /\ shown \in [Digest -> PrNumber \cup {NoPr}]
  /\ outside \in Nat

-----------------------------------------------------------------------------
(* What is known of a request, by where it is.                             *)

(* The grant d may be put from the head e.                                 *)
Authorized(d, e) == e = Predecessor[d] \/ (e = NoCommit /\ d \in OnBase)

(* The answer a says of the grant d only what callers were told already.   *)
Claimed(d, a) ==
  /\ a = "PUBLISHED" => "PUBLISHED" \in acked[d]
  /\ a = "GRANT_EXPIRED" => "EXPIRED" \in acked[d]
  /\ a = "GRANT_PREVIOUSLY_BLOCKED" => "BLOCKED" \in acked[d]
  /\ a \in BlockReason => "BLOCKED" \in acked[d] /\ disk[d].reason = a
  /\ a \notin DefensiveCode

(* It has a request: its grant began, and matched unless it is refused.    *)
Begun(c) ==
  /\ pc[c] # "idle" => mem[job[c].digest].state \notin {"NONE", "AUTHORIZED"}
  /\ pc[c] \in PhaseA \cup PhaseB \cup {"checking", "admitA", "handover", "admitB"}
       => mem[job[c].digest].matches

(* In a phase it holds the gate of a grant in progress.                    *)
Admitted(c) ==
  pc[c] \in InPhase =>
    gate[job[c].digest] = c /\ mem[job[c].digest].state = "IN_PROGRESS"

(* About to push it expects an authorized head; from the record of the     *)
(* head on, the commit has been on the branch.                             *)
Pushing(c) ==
  /\ pc[c] \in {"check", "push"} => Authorized(job[c].digest, job[c].expect)
  /\ pc[c] \in {"record", "publishA", "handover", "admitB"} \cup PhaseB
       => Target[job[c].digest] \in landed

(* Only a grant that wants a pull request reaches phase B.                 *)
Requesting(c) ==
  /\ pc[c] = "publishA" => job[c].digest \notin WantsPr
  /\ pc[c] \in {"handover", "admitB"} \cup PhaseB => job[c].digest \in WantsPr
  /\ pc[c] = "create" => opened[job[c].digest] \cap OpenPrs = {}
  /\ pc[c] \in {"update", "publishB"} =>
       job[c].pr \in PrNumber /\ prs[job[c].pr] # "unused"
  /\ pc[c] = "publishB" => shown[job[c].digest] = job[c].pr

(* What it blocks for and what it answers.                                 *)
Ending(c) ==
  /\ pc[c] \in {"rejecting", "block"} => job[c].why \in BlockReason
  /\ pc[c] = "converging" => "PUBLISHED" \in acked[job[c].digest]
  /\ pc[c] = "return" => Claimed(job[c].digest, job[c].code)

JobOK(c) == Begun(c) /\ Admitted(c) /\ Pushing(c) /\ Requesting(c) /\ Ending(c)

-----------------------------------------------------------------------------
(* What is known of the rest.                                              *)

(* A record that is not published names no pull request.                   *)
RecordIsTrue(d, g) ==
  IF g.state = "PUBLISHED"
  THEN /\ g.matches
       /\ g.head = Target[d]
       /\ Target[d] \in landed
       /\ IF d \in WantsPr
          THEN g.pr \in PrNumber /\ prs[g.pr] # "unused" /\ g.pr = shown[d]
          ELSE g.pr = NoPr
  ELSE g.pr = NoPr

RecordsAreTrue ==
  \A d \in Digest : RecordIsTrue(d, mem[d]) /\ RecordIsTrue(d, disk[d])

PushesAreAuthorized ==
  /\ MovesAreAuthorized
  /\ \A l \in late : Authorized(l[1], l[2])

BranchIsKnown ==
  /\ head # NoCommit => head \in landed
  /\ \A d \in Digest : \A n \in opened[d] : prs[n] # "unused"
  /\ OneOpenPrPerGrant

AnswersAreClaimed == \A d \in Digest : \A a \in answered[d] : Claimed(d, a)

BrokerInv ==
  /\ IInv
  /\ LocalTypeOK
  /\ RemoteTypeOK
  /\ \A c \in Caller : JobOK(c)
  /\ RecordsAreTrue
  /\ PushesAreAuthorized
  /\ BranchIsKnown
  /\ AnswersAreClaimed

-----------------------------------------------------------------------------
(* One call of the store changes the record, the gate and the replies of   *)
(* one grant, and never whom the grant matches.                            *)

OnlyOn(d) ==
  /\ \A x \in Digest \ {d} : mem'[x] = mem[x] /\ gate'[x] = gate[x] /\ acked'[x] = acked[x]
  /\ mem[d].state # "NONE" => mem'[d].matches = mem[d].matches

(* Somebody's call on d, with the reply r, leaves the record g or as it was. *)
Called(d, r, g) ==
  /\ IInv'
  /\ Measured
  /\ OnlyOn(d)
  /\ mem'[d] = mem[d] \/ mem'[d] = g
  /\ Tells(r) \subseteq acked'[d]

LEMMA OnlyOnWrite ==
  ASSUME IInv, NEW d \in Digest, NEW g, NEW r, Replies(d, r),
         mem' = mem \/ mem' = SetTo(d, g),
         \A x \in Digest \ {d} : gate'[x] = gate[x],
         mem[d].state # "NONE" => g.matches = mem[d].matches
  PROVE  /\ OnlyOn(d)
         /\ mem'[d] = mem[d] \/ mem'[d] = g
         /\ Tells(r) \subseteq acked'[d]
  BY DEF OnlyOn, SetTo, Replies, IInv, StoreTypeOK

LEMMA MemoryOfRepair ==
  ASSUME NEW d, NEW r, NEW plain, NEW failed, Repaired(d, r, plain, failed)
  PROVE  mem' = mem /\ r \in {plain, failed}
  BY DEF Repaired, NotChanged, store, Saved

LEMMA CreateCall ==
  ASSUME IInv, NEW d \in Digest, NEW b \in BOOLEAN, NEW r \in Reply, Create(d, b, r)
  PROVE  /\ Called(d, r, NewGrant(b))
         /\ gate' = gate
         /\ mem'[d] # mem[d] => mem[d].state = "NONE"
<1>1. mem' = mem \/ (mem[d].state = "NONE" /\ mem' = SetTo(d, NewGrant(b)))
  BY DEF Create, NotChanged, store, Saved
<1>2. Replies(d, r) /\ gate' = gate
  BY DEF Create
<1>3. Measured
  BY AdminMeasured DEF AdminCall
<1> QED
  BY <1>1, <1>2, <1>3, CreateIInv, OnlyOnWrite DEF Called

LEMMA RevokeCall ==
  ASSUME IInv, NEW d \in Digest, NEW r \in Reply, Revoke(d, r)
  PROVE  /\ Called(d, r, [mem[d] EXCEPT !.state = "REVOKED"])
         /\ gate' = gate
         /\ gate[d] = NoOne
         /\ mem'[d] # mem[d] => mem[d].state \in Revocable
<1> DEFINE g == [mem[d] EXCEPT !.state = "REVOKED"]
<1>1. mem' = mem \/ (mem[d].state \in Revocable /\ mem' = SetTo(d, g))
  BY MemoryOfRepair DEF Revoke, NotChanged, store, Saved, Unsaved
<1>2. Replies(d, r) /\ gate' = gate /\ gate[d] = NoOne
  BY DEF Revoke, GateFree
<1>3. g.matches = mem[d].matches
  BY SavedGrant DEF Grant
<1>4. Measured
  BY AdminMeasured DEF AdminCall
<1> QED
  BY <1>1, <1>2, <1>3, <1>4, RevokeIInv, OnlyOnWrite DEF Called

(* What it begins is a grant in progress; a grant it is shown is one.      *)
LEMMA BeginCall ==
  ASSUME IInv, NEW d \in Digest, NEW r \in Reply, BeginOrResume(d, r)
  PROVE  \E s \in {"IN_PROGRESS", "EXPIRED"} :
           /\ Called(d, r, [mem[d] EXCEPT !.state = s])
           /\ gate' = gate
           /\ mem'[d] # mem[d] => mem[d].state = "AUTHORIZED"
           /\ r \in {"IN_PROGRESS", "PUBLISHED"} => mem'[d].state = r
           /\ r \in {"ErrNotFound", "ErrRevoked", "ErrExpired", "ErrBlocked", "IN_PROGRESS",
                     "PUBLISHED", "ErrBlockPersistFailed", "ErrPublishPersistFailed",
                     "ErrExpirePersistFailed", "ErrBeginPersistFailed"}
<1>1. Replies(d, r) /\ gate' = gate
  BY DEF BeginOrResume
<1>2. Measured /\ IInv'
  BY BeginMeasured, BeginOrResumeIInv
<1>3. ASSUME NEW s \in {"IN_PROGRESS", "EXPIRED"}
      PROVE  LET g == [mem[d] EXCEPT !.state = s] IN g.matches = mem[d].matches /\ g.state = s
  BY SavedGrant DEF Grant
<1>4. CASE mem' = mem
  <2>1. ~ \E s \in {"IN_PROGRESS", "EXPIRED"} :
            mem[d].state = "AUTHORIZED" /\ mem' = SetTo(d, [mem[d] EXCEPT !.state = s])
    BY <1>3, <1>4 DEF SetTo, IInv, StoreTypeOK
  <2>2. /\ r \in {"IN_PROGRESS", "PUBLISHED"} => mem'[d].state = r
        /\ r \in {"ErrNotFound", "ErrRevoked", "ErrExpired", "ErrBlocked", "IN_PROGRESS",
                  "PUBLISHED", "ErrBlockPersistFailed", "ErrPublishPersistFailed",
                  "ErrExpirePersistFailed", "ErrBeginPersistFailed"}
    BY <1>4, <2>1, MemoryOfRepair DEF BeginOrResume, BeginFrom, Saved
  <2> QED
    BY <1>1, <1>2, <1>3, <1>4, <2>2, OnlyOnWrite DEF Called
<1>5. CASE mem' # mem
  <2>1. PICK s \in {"IN_PROGRESS", "EXPIRED"} :
          /\ mem[d].state = "AUTHORIZED"
          /\ mem' = SetTo(d, [mem[d] EXCEPT !.state = s])
          /\ \/ s = "IN_PROGRESS" /\ r = "IN_PROGRESS"
             \/ s = "EXPIRED" /\ r = "ErrExpired"
    BY <1>5, MemoryOfRepair DEF BeginOrResume, BeginFrom, NotChanged, store, Saved
  <2>2. mem'[d].state = s
    BY <1>3, <2>1 DEF SetTo, IInv, StoreTypeOK
  <2> QED
    BY <1>1, <1>2, <1>3, <2>1, <2>2, OnlyOnWrite DEF Called
<1> QED
  BY <1>4, <1>5

(* It hands the free gate to the caller exactly with a snapshot.           *)
LEMMA AdmitCall ==
  ASSUME IInv, NEW c \in Caller, NEW d \in Digest, NEW r \in Reply,
         AdmitPublicationPhase(c, d, r)
  PROVE  /\ Called(d, r, mem[d])
         /\ gate[d] = NoOne
         /\ r \in {"IN_PROGRESS", "PUBLISHED"} => gate'[d] = c /\ mem[d].state = r
         /\ r = "ErrWrongState" => mem[d].state = "AUTHORIZED"
         /\ r \in {"ErrNotFound", "ErrRevoked", "ErrExpired", "ErrBlocked", "IN_PROGRESS",
                   "PUBLISHED", "ErrBlockPersistFailed", "ErrPublishPersistFailed",
                   "ErrWrongState"}
<1>1. Replies(d, r) /\ gate[d] = NoOne
  BY DEF AdmitPublicationPhase, GateFree
<1>2. mem' = mem
  BY MemoryOfRepair DEF AdmitPublicationPhase, NotChanged, store
<1>3. Measured /\ IInv'
  BY <1>1, MeasuredSame, MeasuredRepair, AdmitIInv DEF AdmitPublicationPhase
<1>4. /\ \A x \in Digest \ {d} : gate'[x] = gate[x]
      /\ r \in {"IN_PROGRESS", "PUBLISHED"} => gate'[d] = c
  BY DEF AdmitPublicationPhase, IInv, StoreTypeOK
<1>5. /\ r \in {"IN_PROGRESS", "PUBLISHED"} => mem[d].state = r
      /\ r = "ErrWrongState" => mem[d].state = "AUTHORIZED"
      /\ r \in {"ErrNotFound", "ErrRevoked", "ErrExpired", "ErrBlocked", "IN_PROGRESS",
                "PUBLISHED", "ErrBlockPersistFailed", "ErrPublishPersistFailed",
                "ErrWrongState"}
  BY MemoryOfRepair DEF AdmitPublicationPhase
<1> QED
  BY <1>1, <1>2, <1>3, <1>4, <1>5, OnlyOnWrite DEF Called

LEMMA PublishCall ==
  ASSUME IInv, NEW d \in Digest, NEW h \in Commit, NEW n \in PrNumber \cup {NoPr},
         NEW r \in Reply, MarkPublished(d, h, n, r)
  PROVE  /\ Called(d, r, [mem[d] EXCEPT !.state = "PUBLISHED", !.head = h,
                                        !.pr = IF n = NoPr THEN @ ELSE n])
         /\ gate' = gate
         /\ mem[d].state = "IN_PROGRESS" => r \in {"PUBLISHED", "ErrPublishPersistFailed"}
<1> DEFINE g == [mem[d] EXCEPT !.state = "PUBLISHED", !.head = h,
                               !.pr = IF n = NoPr THEN @ ELSE n]
<1>1. Replies(d, r) /\ gate' = gate
  BY DEF MarkPublished
<1>2. mem' = mem \/ mem' = SetTo(d, g)
  BY MemoryOfRepair DEF MarkPublished, NotChanged, store, Saved, Unsaved
<1>3. g.matches = mem[d].matches
  BY SavedGrant DEF Grant
<1>4. Measured /\ IInv'
  BY PublishMeasured, MarkPublishedIInv
<1>5. mem[d].state = "IN_PROGRESS" => r \in {"PUBLISHED", "ErrPublishPersistFailed"}
  BY DEF MarkPublished
<1> QED
  BY <1>1, <1>2, <1>3, <1>4, <1>5, OnlyOnWrite DEF Called

LEMMA BlockCall ==
  ASSUME IInv, NEW d \in Digest, NEW why \in Reason, NEW r \in Reply, MarkBlockedCore(d, why, r)
  PROVE  /\ Called(d, r, [mem[d] EXCEPT !.state = "BLOCKED", !.reason = why])
         /\ gate' = gate
         /\ r = "BLOCKED" => mem'[d].reason = why
         /\ mem'[d] # mem[d] => mem[d].state \in Unfinished
         /\ mem[d].state = "IN_PROGRESS" => r \in {"BLOCKED", "ErrBlockPersistFailed"}
         /\ r \in {"ErrNotFound", "ErrRevoked", "ErrExpired", "BLOCKED", "ErrCannotBlockPublished",
                   "ErrBlockPersistFailed", "ErrPublishPersistFailed", "ErrBlockedReasonMismatch"}
<1> DEFINE g == [mem[d] EXCEPT !.state = "BLOCKED", !.reason = why]
<1>1. Replies(d, r) /\ gate' = gate
  BY DEF MarkBlockedCore
<1>2. mem' = mem \/ (mem[d].state \in Unfinished /\ mem' = SetTo(d, g))
  BY MemoryOfRepair DEF MarkBlockedCore, NotChanged, store, Saved, Unsaved
<1>3. g.matches = mem[d].matches /\ g.reason = why
  BY SavedGrant DEF Grant
<1>4. Measured /\ IInv'
  BY BlockMeasured, MarkBlockedCoreIInv
<1>5. /\ mem[d].state = "IN_PROGRESS" => r \in {"BLOCKED", "ErrBlockPersistFailed"}
      /\ r \in {"ErrNotFound", "ErrRevoked", "ErrExpired", "BLOCKED", "ErrCannotBlockPublished",
                "ErrBlockPersistFailed", "ErrPublishPersistFailed", "ErrBlockedReasonMismatch"}
  BY MemoryOfRepair DEF MarkBlockedCore, Unfinished
<1>6. r = "BLOCKED" => mem'[d].reason = why
  <2>1. CASE mem[d].state \in Unfinished /\ mem' = SetTo(d, g)
    BY <1>3, <2>1 DEF SetTo, IInv, StoreTypeOK
  <2>2. CASE mem[d].state = "BLOCKED" /\ mem[d].reason = why /\ mem' = mem
    BY <2>2
  <2> QED
    BY <2>1, <2>2, MemoryOfRepair DEF MarkBlockedCore, Saved
<1> QED
  BY <1>1, <1>2, <1>3, <1>4, <1>5, <1>6, OnlyOnWrite DEF Called

LEMMA RecordCall ==
  ASSUME IInv, NEW d \in Digest, NEW h \in Commit, NEW r \in Reply, RecordRemoteHead(d, h, r)
  PROVE  /\ Called(d, "ok", [mem[d] EXCEPT !.head = h])
         /\ gate' = gate
         /\ mem'[d] # mem[d] => mem[d].state = "IN_PROGRESS"
<1> DEFINE g == [mem[d] EXCEPT !.head = h]
<1>1. Replies(d, "ok") /\ gate' = gate
  BY DEF RecordRemoteHead, Tells, Replies, IInv, StoreTypeOK
<1>2. mem' = mem \/ (mem[d].state = "IN_PROGRESS" /\ mem' = SetTo(d, g))
  BY DEF RecordRemoteHead, NotChanged, store, Saved
<1>3. g.matches = mem[d].matches
  BY SavedGrant DEF Grant
<1>4. Measured /\ IInv'
  BY RecordMeasured, RecordRemoteHeadIInv
<1> QED
  BY <1>1, <1>2, <1>3, <1>4, OnlyOnWrite DEF Called

(* A release, a lapse and a step that makes no call change no record.      *)
LEMMA QuietCall ==
  ASSUME IInv, NEW d \in Digest, UNCHANGED store, UNCHANGED acked,
         \/ \E c \in Caller : Release(c, d)
         \/ Lapse(d)
         \/ UNCHANGED storeVars
  PROVE  Called(d, "ok", mem[d])
<1>1. Measured
  BY DEF store, Measured, Forward, Told, Wrote
<1>2. IInv'
  BY GateIInv, LapseIInv, StutterIInv
<1>3. \A x \in Digest \ {d} : gate'[x] = gate[x]
  BY DEF Release, Lapse, storeVars, IInv, StoreTypeOK
<1> QED
  BY <1>1, <1>2, <1>3 DEF Called, OnlyOn, store, Tells

-----------------------------------------------------------------------------
(* What the others leave true.                                             *)

StoreCall(d) == IInv' /\ Measured /\ OnlyOn(d)

(* The branch has been where it was, a pull request that exists goes on    *)
(* existing, one that was closed is not opened again, and GitHub is asked  *)
(* nothing more for a grant that is published.                             *)
WorldGrows ==
  /\ landed \subseteq landed'
  /\ \A n \in PrNumber :
       /\ prs[n] # "unused" => prs'[n] # "unused"
       /\ prs[n] \notin {"unused", "open", "retargeted"} => prs'[n] \notin {"open", "retargeted"}
  /\ \A d \in Digest : "PUBLISHED" \in {mem[d].state, disk[d].state} => shown'[d] = shown[d]

(* The step is a's, about d, and a (nobody, for the environment) holds d's *)
(* gate or found it free or changed neither it nor the state.              *)
Apart(a, d) ==
  /\ \A x \in Caller \ {a} : pc'[x] = pc[x] /\ job'[x] = job[x]
  /\ gate[d] \in {NoOne, a} \/ (gate'[d] = gate[d] /\ mem'[d].state = mem[d].state)
  /\ \A x \in Digest : gate[x] # a => opened'[x] = opened[x] /\ shown'[x] = shown[x]

LEMMA KeptByCalls ==
  ASSUME IInv, NEW d \in Digest, StoreCall(d), NEW x \in Digest
  PROVE  /\ mem[x].state \notin {"NONE", "AUTHORIZED"} => mem'[x].state \notin {"NONE", "AUTHORIZED"}
         /\ mem[x].state # "NONE" => mem'[x].matches = mem[x].matches
         /\ acked[x] \subseteq acked'[x]
         /\ acked[x] # {} => disk'[x] = disk[x]
<1>1. Forward(x, mem'[x]) /\ Told(x) /\ Wrote
  BY DEF StoreCall, Measured
<1>2. mem[x].state \notin {"NONE", "AUTHORIZED"} => mem'[x].state \notin {"NONE", "AUTHORIZED"}
  <2>1. mem[x].state \in GrantState
    BY SavedGrant DEF Grant
  <2> QED
    BY <1>1, <2>1, Successors DEF Forward, GrantState, Unfinished, Terminal
<1>3. mem[x].state # "NONE" => mem'[x].matches = mem[x].matches
  BY DEF StoreCall, OnlyOn
<1>4. acked[x] \subseteq acked'[x]
  BY <1>1 DEF Told
<1>5. acked[x] # {} => mem'[x] = mem[x] /\ mem[x] = disk[x]
  BY <1>1, SavedGrant, Successors DEF Forward, IInv, StoreTypeOK
<1> QED
  BY <1>1, <1>2, <1>3, <1>4, <1>5 DEF Wrote

LEMMA ClaimsKept ==
  ASSUME IInv, NEW d \in Digest, StoreCall(d), NEW x \in Digest, NEW a, Claimed(x, a)
  PROVE  Claimed(x, a)'
  BY KeptByCalls DEF Claimed

(* Every other request still knows what it knew.                           *)
LEMMA OthersKeep ==
  ASSUME BrokerInv, NEW a \in Caller \cup {NoOne}, NEW d \in Digest,
         StoreCall(d), WorldGrows, Apart(a, d), NEW x \in Caller \ {a}
  PROVE  JobOK(x)'
<1> DEFINE e == job[x].digest
<1>1. JobOK(x) /\ IInv /\ BranchIsKnown
  BY DEF BrokerInv
<1>2. pc'[x] = pc[x] /\ job'[x] = job[x]
  BY DEF Apart
<1>3. e \in Digest /\ job[x] \in Job
  BY DEF BrokerInv, LocalTypeOK, Job
<1>4. pc[x] \in InPhase => /\ gate'[e] = x /\ mem'[e].state = "IN_PROGRESS"
                          /\ opened'[e] = opened[e] /\ shown'[e] = shown[e]
  <2> SUFFICES ASSUME pc[x] \in InPhase
               PROVE  /\ gate'[e] = x /\ mem'[e].state = "IN_PROGRESS"
                      /\ opened'[e] = opened[e] /\ shown'[e] = shown[e]
    OBVIOUS
  <2>1. gate[e] = x /\ mem[e].state = "IN_PROGRESS" /\ gate[e] # a /\ gate[e] # NoOne
    BY <1>1, StoreAssumption DEF JobOK, Admitted
  <2>2. CASE e = d
    BY <2>1, <2>2 DEF Apart
  <2>3. CASE e # d
    BY <1>3, <2>1, <2>3 DEF StoreCall, OnlyOn, Apart
  <2> QED
    BY <2>2, <2>3
<1>5. Begun(x)'
  <2>1. /\ mem[e].state \notin {"NONE", "AUTHORIZED"} => mem'[e].state \notin {"NONE", "AUTHORIZED"}
        /\ mem[e].state # "NONE" => mem'[e].matches = mem[e].matches
    BY <1>1, <1>3, KeptByCalls
  <2>2. Begun(x) /\ job'[x].digest = e
    BY <1>1, <1>2 DEF JobOK
  <2> QED
    BY <1>2, <2>1, <2>2 DEF Begun, PhaseA, PhaseB
<1>6. Admitted(x)'
  BY <1>2, <1>4 DEF Admitted
<1>7. Pushing(x)'
  BY <1>1, <1>2 DEF JobOK, Pushing, Authorized, WorldGrows
<1>8. Requesting(x)'
  <2>1. pc[x] = "create" => (opened[e] \cap OpenPrs = {})'
    BY <1>1, <1>2, <1>3, <1>4
    DEF JobOK, Requesting, BranchIsKnown, OpenPrs, WorldGrows, InPhase, PhaseB,
        BrokerInv, RemoteTypeOK
  <2>2. (pc[x] = "publishB" => shown[e] = job[x].pr)'
    BY <1>1, <1>2, <1>4 DEF JobOK, Requesting, InPhase, PhaseB
  <2> QED
    BY <1>1, <1>2, <2>1, <2>2 DEF JobOK, Requesting, WorldGrows
<1>9. Ending(x)'
  BY <1>1, <1>2, <1>3, KeptByCalls, ClaimsKept DEF JobOK, Ending
<1> QED
  BY <1>5, <1>6, <1>7, <1>8, <1>9 DEF JobOK

-----------------------------------------------------------------------------
(* What a step has to show for the invariant.                              *)

LEMMA RecordKept ==
  ASSUME NEW d \in Digest, NEW g \in {mem[d], disk[d]}, NEW h, RecordIsTrue(d, g), WorldGrows,
         \/ h = g
         \/ g.state # "PUBLISHED" /\ h.state # "PUBLISHED" /\ h.pr = g.pr
  PROVE  RecordIsTrue(d, h)'
  BY DEF RecordIsTrue, WorldGrows

LEMMA RecordsKept ==
  ASSUME IInv, RecordsAreTrue, NEW d \in Digest, StoreCall(d), WorldGrows,
         RecordIsTrue(d, mem[d])'
  PROVE  RecordsAreTrue'
<1>1. ASSUME NEW x \in Digest
      PROVE  RecordIsTrue(x, mem[x])'
  <2>1. CASE x # d
    BY <2>1, RecordKept DEF RecordsAreTrue, StoreCall, OnlyOn
  <2> QED
    BY <2>1
<1>2. ASSUME NEW x \in Digest
      PROVE  RecordIsTrue(x, disk[x])'
  <2>1. CASE UNCHANGED disk
    BY <2>1, RecordKept DEF RecordsAreTrue
  <2>2. CASE disk' = mem'
    BY <1>1, <2>2
  <2> QED
    BY <2>1, <2>2 DEF StoreCall, Measured, Wrote
<1> QED
  BY <1>1, <1>2 DEF RecordsAreTrue

LEMMA AnswersKept ==
  ASSUME IInv, AnswersAreClaimed, NEW d \in Digest, StoreCall(d),
         \A x \in Digest : \A a \in answered'[x] : a \in answered[x] \/ Claimed(x, a)'
  PROVE  AnswersAreClaimed'
<1>1. ASSUME NEW x \in Digest, NEW a \in answered'[x]
      PROVE  Claimed(x, a)'
  BY <1>1, ClaimsKept DEF AnswersAreClaimed
<1> QED
  BY <1>1 DEF AnswersAreClaimed

LEMMA StepConcludes ==
  ASSUME BrokerInv, NEW a \in Caller \cup {NoOne}, NEW d \in Digest,
         StoreCall(d), WorldGrows, Apart(a, d),
         (LocalTypeOK /\ RemoteTypeOK /\ PushesAreAuthorized /\ BranchIsKnown)',
         a # NoOne => JobOK(a)',
         RecordIsTrue(d, mem[d])',
         \A x \in Digest : \A n \in answered'[x] : n \in answered[x] \/ Claimed(x, n)'
  PROVE  BrokerInv'
<1>1. ASSUME NEW x \in Caller
      PROVE  JobOK(x)'
  BY OthersKeep, StoreAssumption
<1>2. RecordsAreTrue' /\ AnswersAreClaimed'
  BY RecordsKept, AnswersKept DEF BrokerInv
<1> QED
  BY <1>1, <1>2 DEF BrokerInv, StoreCall

LEMMA RemoteSame ==
  ASSUME BrokerInv, UNCHANGED remoteVars
  PROVE  /\ WorldGrows
         /\ (RemoteTypeOK /\ PushesAreAuthorized /\ BranchIsKnown)'
         /\ UNCHANGED <<opened, shown>>
  BY DEF BrokerInv, remoteVars, WorldGrows, RemoteTypeOK, PushesAreAuthorized, MovesAreAuthorized,
         BranchIsKnown, OneOpenPrPerGrant, OpenPrs, Authorized

(* The request c goes to p; it may answer for its own grant.               *)
Steps(c, p) ==
  /\ LocalTypeOK'
  /\ pc'[c] = p
  /\ job'[c].digest = job[c].digest
  /\ \A x \in Caller \ {c} : pc'[x] = pc[x] /\ job'[x] = job[x]
  /\ \A x \in Digest : x # job[c].digest => answered'[x] = answered[x]

LEMMA GoesSteps ==
  ASSUME LocalTypeOK, NEW c \in Caller, NEW p \in Location, Goes(c, p)
  PROVE  Steps(c, p) /\ job'[c] = job[c] /\ answered' = answered
  BY DEF Goes, Goto, Keep, Steps, LocalTypeOK

LEMMA NewJobIsJob ==
  ASSUME NEW d \in Digest
  PROVE  /\ NewJob(d) \in Job
         /\ NewJob(d).digest = d
         /\ \A s \in Code : LET j == [NewJob(d) EXCEPT !.code = s]
                             IN  j \in Job /\ j.digest = d /\ j.code = s
         /\ LET j == [NewJob(d) EXCEPT !.why = "GRANT_REQUEST_FIELD_MISMATCH"]
            IN  j \in Job /\ j.digest = d /\ j.why = "GRANT_REQUEST_FIELD_MISMATCH"
<1>1. "GRANT_REQUEST_FIELD_MISMATCH" \in Reason
  BY BrokerAssumption DEF BlockReason
<1>2. NewJob(d) \in Job /\ NewJob(d).digest = d
  BY DEF NewJob, Job, Head, Code
<1>3. ASSUME NEW s \in Code, NEW j, j = [NewJob(d) EXCEPT !.code = s]
      PROVE  j \in Job /\ j.digest = d /\ j.code = s
  BY <1>2, <1>3 DEF Job
<1>4. ASSUME NEW j, j = [NewJob(d) EXCEPT !.why = "GRANT_REQUEST_FIELD_MISMATCH"]
      PROVE  j \in Job /\ j.digest = d /\ j.why = "GRANT_REQUEST_FIELD_MISMATCH"
  BY <1>1, <1>2, <1>4 DEF Job
<1> QED
  BY <1>2, <1>3, <1>4

LEMMA ReturnsSteps ==
  ASSUME LocalTypeOK, NEW c \in Caller, NEW code \in Code, Returns(c, code)
  PROVE  Steps(c, "return") /\ job'[c].code = code /\ answered' = answered
<1>1. job[c] \in Job /\ job[c].digest \in Digest
  BY DEF LocalTypeOK, Job
<1> DEFINE j == [NewJob(job[c].digest) EXCEPT !.code = code]
<1>2. j \in Job /\ j.digest = job[c].digest /\ j.code = code
  BY <1>1, NewJobIsJob
<1>3. job' = [job EXCEPT ![c] = j] /\ pc' = [pc EXCEPT ![c] = "return"]
      /\ UNCHANGED <<revoking, answered>>
  BY DEF Returns, Goto
<1> HIDE DEF j
<1>4. LocalTypeOK'
  BY <1>2, <1>3 DEF LocalTypeOK, Location
<1> QED
  BY <1>2, <1>3, <1>4 DEF Steps, LocalTypeOK

LEMMA BlocksSteps ==
  ASSUME LocalTypeOK, NEW c \in Caller, NEW p \in Location, NEW why \in Reason, NEW obs \in Head,
         Blocks(c, p, why, obs)
  PROVE  Steps(c, p) /\ job'[c].why = why /\ answered' = answered
<1>1. job[c] \in Job
  BY DEF LocalTypeOK
<1> DEFINE j == [job[c] EXCEPT !.why = why, !.obs = obs]
<1>2. j \in Job /\ j.digest = job[c].digest /\ j.why = why
  BY <1>1 DEF Job
<1>3. job' = [job EXCEPT ![c] = j] /\ pc' = [pc EXCEPT ![c] = p] /\ UNCHANGED <<revoking, answered>>
  BY <1>1 DEF Blocks, Goto, LocalTypeOK
<1> HIDE DEF j
<1> QED
  BY <1>2, <1>3 DEF Steps, LocalTypeOK

LEMMA FinishesSteps ==
  ASSUME LocalTypeOK, NEW c \in Caller, NEW code \in Code, Finishes(c, code)
  PROVE  Steps(c, "idle") /\ answered'[job[c].digest] \subseteq answered[job[c].digest] \cup {code}
<1>1. job[c] \in Job /\ job[c].digest \in Digest
  BY DEF LocalTypeOK, Job
<1> DEFINE j == NewJob(job[c].digest)
<1>2. j \in Job /\ j.digest = job[c].digest
  BY <1>1, NewJobIsJob
<1>3. job' = [job EXCEPT ![c] = j] /\ job'[c].digest = job[c].digest
  BY <1>2 DEF Finishes, LocalTypeOK
<1>4. /\ pc' = [pc EXCEPT ![c] = "idle"]
      /\ UNCHANGED revoking
      /\ answered' = [answered EXCEPT ![job[c].digest] = @ \cup ({code} \cap (FinalCode \cup DefensiveCode))]
  BY <1>3 DEF Finishes, Answers, Goto
<1> HIDE DEF j
<1>5. code \in Code /\ job[c].digest \in Digest
  BY <1>1
<1>6. LocalTypeOK'
  BY <1>2, <1>3, <1>4, <1>5 DEF LocalTypeOK, Location
<1> QED
  BY <1>2, <1>3, <1>4, <1>5, <1>6 DEF Steps, LocalTypeOK

LEMMA RequestConcludes ==
  ASSUME BrokerInv, NEW c \in Caller, NEW d \in Digest, d = job[c].digest, NEW p, Steps(c, p),
         StoreCall(d), UNCHANGED remoteVars,
         gate[d] \in {NoOne, c} \/ (gate'[d] = gate[d] /\ mem'[d].state = mem[d].state),
         JobOK(c)',
         RecordIsTrue(d, mem[d])',
         \A n \in answered'[d] : n \in answered[d] \/ Claimed(d, n)'
  PROVE  BrokerInv'
<1>1. Apart(c, d)
  BY RemoteSame DEF Apart, Steps
<1>2. \A x \in Digest : \A n \in answered'[x] : n \in answered[x] \/ Claimed(x, n)'
  BY DEF Steps
<1> QED
  BY <1>1, <1>2, RemoteSame, StepConcludes, StoreAssumption DEF Steps

(* A step that makes no call, or one that only gives a gate back, and has  *)
(* no effect on the remote.                                                *)
LEMMA QuietConcludes ==
  ASSUME BrokerInv, NEW c \in Caller, NEW d \in Digest, d = job[c].digest, NEW p, Steps(c, p),
         UNCHANGED remoteVars,
         UNCHANGED storeVars \/ Release(c, d),
         JobOK(c)',
         \A n \in answered'[d] : n \in answered[d] \/ Claimed(d, n)
  PROVE  BrokerInv'
<1>1. IInv
  BY DEF BrokerInv
<1>2. UNCHANGED store /\ UNCHANGED acked /\ Called(d, "ok", mem[d])
  BY <1>1, QuietCall DEF storeVars, Release, store
<1>3. StoreCall(d)
  BY <1>2 DEF Called, StoreCall
<1>4. gate[d] \in {NoOne, c} \/ (gate'[d] = gate[d] /\ mem'[d].state = mem[d].state)
  BY <1>2 DEF storeVars, Release, store
<1>5. RecordIsTrue(d, mem[d])'
  <2>1. mem'[d] = mem[d] /\ RecordIsTrue(d, mem[d])
    BY <1>2 DEF BrokerInv, RecordsAreTrue, store
  <2> QED
    BY <2>1, RemoteSame, RecordKept
<1>6. \A n \in answered'[d] : n \in answered[d] \/ Claimed(d, n)'
  BY <1>1, <1>3, ClaimsKept
<1> QED
  BY <1>3, <1>4, <1>5, <1>6, RequestConcludes

(* A request that is done has nothing left to know but its answer.         *)
LEMMA IdleJob ==
  ASSUME NEW c, pc'[c] = "idle"
  PROVE  JobOK(c)'
  BY DEF JobOK, Begun, Admitted, Pushing, Requesting, Ending, InPhase, PhaseA, PhaseB

LEMMA BegunStays ==
  ASSUME BrokerInv, NEW c \in Caller, NEW d \in Digest, d = job[c].digest, StoreCall(d),
         pc[c] # "idle"
  PROVE  mem'[d].state \notin {"NONE", "AUTHORIZED"}
  BY KeptByCalls DEF BrokerInv, JobOK, Begun

LEMMA ReturnJob ==
  ASSUME BrokerInv, NEW c \in Caller, NEW d \in Digest, d = job[c].digest, StoreCall(d),
         pc[c] # "idle", NEW code \in Code, Returns(c, code), Claimed(d, code)'
  PROVE  JobOK(c)' /\ Steps(c, "return") /\ answered' = answered
<1>1. Steps(c, "return") /\ job'[c].code = code /\ answered' = answered
  BY ReturnsSteps DEF BrokerInv
<1>2. mem'[d].state \notin {"NONE", "AUTHORIZED"}
  BY BegunStays
<1>3. Begun(c)' /\ Ending(c)'
  BY <1>1, <1>2 DEF Begun, Ending, Steps, PhaseA, PhaseB
<1>4. Admitted(c)' /\ Pushing(c)' /\ Requesting(c)'
  BY <1>1 DEF Admitted, Pushing, Requesting, Steps, InPhase, PhaseA, PhaseB
<1> QED
  BY <1>1, <1>3, <1>4 DEF JobOK

(* "TRANSIENT" and the refusals claim nothing.                             *)
LEMMA NothingClaimed ==
  ASSUME NEW d, NEW a \in {"TRANSIENT", "NO_GRANT", "GRANT_REVOKED", "GRANT_BLOCK_REASON_MISMATCH"}
  PROVE  Claimed(d, a) /\ Claimed(d, a)' /\ a \in Code
  BY DEF Claimed, BlockReason, DefensiveCode, Code

LEMMA TransientReturn ==
  ASSUME BrokerInv, NEW c \in Caller, pc[c] # "idle", Returns(c, "TRANSIENT"),
         UNCHANGED storeVars, UNCHANGED remoteVars
  PROVE  BrokerInv'
<1>1. PICK d \in Digest : d = job[c].digest
  BY DEF BrokerInv, LocalTypeOK, Job
<1>2. StoreCall(d)
  BY QuietCall DEF BrokerInv, storeVars, store, Called, StoreCall
<1>3. JobOK(c)' /\ Steps(c, "return") /\ answered' = answered
  BY <1>1, <1>2, ReturnJob, NothingClaimed
<1> QED
  BY <1>1, <1>3, QuietConcludes

-----------------------------------------------------------------------------
(* What an error of the store lets a request answer.                       *)

LEMMA GrantErrorClaimed ==
  ASSUME NEW d, NEW r \in {"ErrNotFound", "ErrRevoked", "ErrExpired", "ErrBlocked",
                          "ErrBlockPersistFailed", "ErrPublishPersistFailed",
                          "ErrExpirePersistFailed", "ErrBeginPersistFailed"},
         Tells(r) \subseteq acked'[d]
  PROVE  Claimed(d, MapGrantError(r))' /\ MapGrantError(r) \in Code
<1>1. CASE r = "ErrExpired"
  BY <1>1 DEF Tells, MapGrantError, Claimed, BlockReason, DefensiveCode, Code, FinalCode
<1>2. CASE r = "ErrBlocked"
  BY <1>2 DEF Tells, MapGrantError, Claimed, BlockReason, DefensiveCode, Code, FinalCode
<1>3. CASE r \notin {"ErrExpired", "ErrBlocked"}
  <2>1. MapGrantError(r) \in {"TRANSIENT", "NO_GRANT", "GRANT_REVOKED"}
    BY <1>3 DEF MapGrantError
  <2> QED
    BY <2>1, NothingClaimed
<1> QED
  BY <1>1, <1>2, <1>3

LEMMA BlockOutcomeClaimed ==
  ASSUME NEW d, NEW r \in Reply \ {"ErrInvalidPhaseLease"}, Tells(r) \subseteq acked'[d]
  PROVE  Claimed(d, BlockOutcomeReason(r))' /\ BlockOutcomeReason(r) \in Code
<1>1. CASE r = "ErrExpired"
  BY <1>1 DEF Tells, BlockOutcomeReason, Claimed, BlockReason, DefensiveCode, Code, FinalCode
<1>2. CASE r # "ErrExpired"
  <2>1. BlockOutcomeReason(r)
          \in {"TRANSIENT", "NO_GRANT", "GRANT_REVOKED", "GRANT_BLOCK_REASON_MISMATCH"}
    BY <1>2 DEF BlockOutcomeReason
  <2> QED
    BY <2>1, NothingClaimed
<1> QED
  BY <1>1, <1>2

LEMMA PublishedClaimed ==
  ASSUME NEW d, "PUBLISHED" \in acked'[d]
  PROVE  Claimed(d, "PUBLISHED")' /\ "PUBLISHED" \in Code
  BY DEF Claimed, BlockReason, DefensiveCode, Code, FinalCode

LEMMA BlockedClaimed ==
  ASSUME IInv', NEW d \in Digest, NEW why \in BlockReason,
         "BLOCKED" \in acked'[d], mem'[d].reason = why
  PROVE  Claimed(d, why)' /\ why \in Code
<1>1. disk'[d].reason = why
  BY DEF IInv, AckedIsDurable
<1> QED
  BY <1>1 DEF Claimed, BlockReason, DefensiveCode, Code, FinalCode

-----------------------------------------------------------------------------
(* The steps of a request that touch neither the store nor the remote.     *)

LEMMA LocalStep ==
  ASSUME BrokerInv, NEW c \in Caller, NEW p, Steps(c, p), answered' = answered,
         UNCHANGED storeVars, UNCHANGED remoteVars, JobOK(c)'
  PROVE  BrokerInv'
<1>1. PICK d \in Digest : d = job[c].digest
  BY DEF BrokerInv, LocalTypeOK, Job
<1> QED
  BY <1>1, QuietConcludes

(* Where nothing shared changes, a request knows what it knew.             *)
LEMMA SameWorld ==
  ASSUME UNCHANGED storeVars, UNCHANGED remoteVars
  PROVE  /\ UNCHANGED <<mem, disk, gate, acked>>
         /\ UNCHANGED <<head, prs, landed, opened, shown>>
         /\ OpenPrs' = OpenPrs
  BY DEF storeVars, remoteVars, OpenPrs

(* It stops to block for why: in the phase, or on its way out.             *)
LEMMA BlockJob ==
  ASSUME BrokerInv, NEW c \in Caller, NEW p, NEW why \in BlockReason, NEW obs \in Head,
         Blocks(c, p, why, obs),
         \/ p = "block" /\ pc[c] \in InPhase
         \/ p = "rejecting" /\ pc[c] = "checking",
         UNCHANGED storeVars
  PROVE  JobOK(c)' /\ Steps(c, p) /\ answered' = answered
<1>1. why \in Reason /\ p \in Location /\ LocalTypeOK /\ JobOK(c)
  BY BrokerAssumption DEF Location, InPhase, BrokerInv
<1>2. Steps(c, p) /\ job'[c].why = why /\ answered' = answered
  BY <1>1, BlocksSteps
<1>3. Begun(c)' /\ Admitted(c)'
  BY <1>1, <1>2 DEF JobOK, Begun, Admitted, Steps, InPhase, PhaseA, PhaseB, storeVars
<1>4. Pushing(c)' /\ Requesting(c)' /\ Ending(c)'
  BY <1>1, <1>2 DEF Pushing, Requesting, Ending, Steps, PhaseB
<1> QED
  BY <1>2, <1>3, <1>4 DEF JobOK

LEMMA BlockStep ==
  ASSUME BrokerInv, NEW c \in Caller, NEW p, NEW why \in BlockReason, NEW obs \in Head,
         Blocks(c, p, why, obs),
         \/ p = "block" /\ pc[c] \in InPhase
         \/ p = "rejecting" /\ pc[c] = "checking",
         UNCHANGED storeVars, UNCHANGED remoteVars
  PROVE  BrokerInv'
  BY BlockJob, LocalStep

LEMMA HeadIsHead ==
  ASSUME BrokerInv
  PROVE  head \in Head /\ NoCommit \in Head /\ (head # NoCommit => head \in landed)
  BY DEF BrokerInv, RemoteTypeOK, BranchIsKnown, Head

LEMMA VerifyStep ==
  ASSUME BrokerInv, NEW c \in Caller, Verify(c)
  PROVE  BrokerInv'
<1> USE DEF Verify, At
<1>1. CASE Goes(c, "admitA")
  <2>1. Steps(c, "admitA") /\ job'[c] = job[c] /\ answered' = answered
    BY <1>1, GoesSteps DEF BrokerInv, Location
  <2>2. JobOK(c)'
    BY <2>1, SameWorld
    DEF BrokerInv, JobOK, Begun, Admitted, Pushing, Requesting, Ending, Steps,
        InPhase, PhaseA, PhaseB
  <2> QED
    BY <2>1, <2>2, LocalStep
<1>2. CASE Blocks(c, "rejecting", "PACKAGE_REJECTED", NoCommit)
  BY <1>2, BlockStep, HeadIsHead DEF BlockReason
<1> QED
  BY <1>1, <1>2

(* A step inside phase A, with the head on the target where it records.    *)
LEMMA PhaseAStep ==
  ASSUME BrokerInv, NEW c \in Caller, pc[c] \in PhaseA, NEW p, Steps(c, p),
         answered' = answered, UNCHANGED storeVars, UNCHANGED remoteVars,
         \/ p = "record" /\ head = Target[job[c].digest]
         \/ p = "push" /\ pc[c] = "check" /\ job'[c] = job[c]
         \/ p = "check" /\ Authorized(job[c].digest, job'[c].expect)
  PROVE  BrokerInv'
<1>1. JobOK(c) /\ job[c].digest \in Digest
  BY DEF BrokerInv, LocalTypeOK, Job
<1>2. Begun(c)' /\ Admitted(c)'
  BY <1>1, SameWorld DEF JobOK, Begun, Admitted, Steps, InPhase, PhaseA, PhaseB
<1>3. Pushing(c)'
  <2>1. p = "record" => Target[job[c].digest] \in landed
    BY <1>1, HeadIsHead, BrokerAssumption, StoreAssumption
  <2> QED
    BY <1>1, <2>1, SameWorld DEF JobOK, Pushing, Steps, PhaseB, Authorized
<1>4. Requesting(c)' /\ Ending(c)'
  BY DEF Requesting, Ending, Steps, PhaseB
<1> QED
  BY <1>2, <1>3, <1>4, LocalStep DEF JobOK

LEMMA ObserveStep ==
  ASSUME BrokerInv, NEW c \in Caller, Observe(c)
  PROVE  BrokerInv'
<1> USE DEF At
<1>1. /\ pc[c] = "observe" /\ pc[c] \in PhaseA /\ pc[c] \in InPhase
      /\ UNCHANGED storeVars /\ UNCHANGED remoteVars
      /\ LocalTypeOK
  BY DEF Observe, InPhase, PhaseA, BrokerInv
<1>2. CASE Returns(c, "TRANSIENT")
  BY <1>1, <1>2, TransientReturn
<1>3. CASE head = Target[job[c].digest] /\ Goes(c, "record")
  BY <1>1, <1>3, GoesSteps, PhaseAStep DEF Location, InPhase, PhaseA
<1>4. CASE /\ Authorized(job[c].digest, head)
           /\ Goto(c, "check")
           /\ job' = [job EXCEPT ![c].expect = head]
           /\ UNCHANGED <<revoking, answered>>
  <2>1. job[c] \in Job
    BY <1>1 DEF LocalTypeOK
  <2>2. PICK j : j = [job[c] EXCEPT !.expect = head]
    OBVIOUS
  <2>3. j \in Job /\ j.digest = job[c].digest /\ j.expect = head
    BY <2>1, <2>2, HeadIsHead DEF Job
  <2>4. job' = [job EXCEPT ![c] = j] /\ pc' = [pc EXCEPT ![c] = "check"]
    BY <1>1, <1>4, <2>2 DEF Goto, LocalTypeOK
  <2>5. Steps(c, "check") /\ job'[c].expect = head /\ answered' = answered
    BY <1>1, <1>4, <2>3, <2>4 DEF Steps, LocalTypeOK, Location, InPhase, PhaseA
  <2> QED
    BY <1>1, <1>4, <2>5, PhaseAStep
<1>5. CASE Blocks(c, "block", "REMOTE_HEAD_CHANGED", head)
  BY <1>1, <1>5, BlockStep, HeadIsHead DEF BlockReason
<1> QED
  BY <1>2, <1>3, <1>4, <1>5 DEF Observe, Authorized

LEMMA PushCheckSteps ==
  ASSUME BrokerInv, NEW c \in Caller, PushPreCheck(c) \/ PushPostCheck(c) \/ PushReobserve(c)
  PROVE  BrokerInv'
<1> USE DEF At
<1>1. /\ pc[c] \in {"check", "pushed", "pushFailed"} /\ pc[c] \in PhaseA /\ pc[c] \in InPhase
      /\ UNCHANGED storeVars /\ UNCHANGED remoteVars
      /\ LocalTypeOK
  BY DEF PushPreCheck, PushPostCheck, PushReobserve, InPhase, PhaseA, BrokerInv
<1>2. CASE Returns(c, "TRANSIENT")
  BY <1>1, <1>2, TransientReturn
<1>3. CASE head = Target[job[c].digest] /\ Goes(c, "record")
  BY <1>1, <1>3, GoesSteps, PhaseAStep DEF Location, InPhase, PhaseA
<1>4. CASE pc[c] = "check" /\ Goes(c, "push")
  BY <1>1, <1>4, GoesSteps, PhaseAStep DEF Location, InPhase, PhaseA
<1>5. CASE Blocks(c, "block", "REMOTE_HEAD_CHANGED", head)
  BY <1>1, <1>5, BlockStep, HeadIsHead DEF BlockReason
<1> QED
  BY <1>2, <1>3, <1>4, <1>5 DEF PushPreCheck, PushPostCheck, PushReobserve

-----------------------------------------------------------------------------
(* The steps of a request on the remote.                                   *)

(* A push that is authorized, carried out or not, now or later.            *)
LEMMA PushedRemote ==
  ASSUME BrokerInv, NEW d \in Digest, NEW e \in Head, Authorized(d, e),
         Swap(d, e) \/ UNCHANGED <<head, landed, moves>>,
         late' \subseteq late \cup {<<d, e>>},
         UNCHANGED <<prs, opened, shown, outside>>
  PROVE  WorldGrows /\ (RemoteTypeOK /\ PushesAreAuthorized /\ BranchIsKnown)'
<1>1. RemoteTypeOK /\ PushesAreAuthorized /\ BranchIsKnown
  BY DEF BrokerInv
<1>2. \/ head = e /\ head' = Target[d] /\ landed' = landed \cup {Target[d]}
                  /\ moves' = moves \cup {<<d, head>>}
      \/ UNCHANGED <<head, landed, moves>>
  BY DEF Swap
<1>3. Target[d] \in Commit /\ <<d, e>> \in Digest \X Head
  BY BrokerAssumption
<1>4. RemoteTypeOK' /\ WorldGrows
  BY <1>1, <1>2, <1>3 DEF RemoteTypeOK, Head, WorldGrows
<1>5. MovesAreAuthorized'
  <2> SUFFICES ASSUME NEW m \in moves'
               PROVE  Authorized(m[1], m[2])
    BY DEF MovesAreAuthorized, Authorized
  <2>1. CASE m \in moves
    BY <1>1, <2>1 DEF PushesAreAuthorized, MovesAreAuthorized, Authorized
  <2>2. CASE m = <<d, e>>
    BY <2>2
  <2> QED
    BY <1>2, <2>1, <2>2
<1>6. \A l \in late' : Authorized(l[1], l[2])
  BY <1>1 DEF PushesAreAuthorized
<1>7. PushesAreAuthorized'
  BY <1>5, <1>6 DEF PushesAreAuthorized, Authorized
<1>8. BranchIsKnown'
  BY <1>1, <1>2 DEF BranchIsKnown, OneOpenPrPerGrant, OpenPrs
<1> QED
  BY <1>4, <1>7, <1>8

LEMMA GitPushStep ==
  ASSUME BrokerInv, NEW c \in Caller, GitPush(c)
  PROVE  BrokerInv'
<1>1. PICK d \in Digest : d = job[c].digest
  BY DEF BrokerInv, LocalTypeOK, Job
<1>2. PICK e \in Head : e = job[c].expect
  BY DEF BrokerInv, LocalTypeOK, Job
<1>3. pc[c] = "push" /\ UNCHANGED storeVars /\ UNCHANGED <<prs, opened, shown, outside>> /\ JobOK(c)
  BY DEF GitPush, At, BrokerInv
<1>4. Authorized(d, e)
  BY <1>1, <1>2, <1>3 DEF JobOK, Pushing
<1>5. WorldGrows /\ (RemoteTypeOK /\ PushesAreAuthorized /\ BranchIsKnown)'
  <2>1. Swap(d, e) \/ UNCHANGED <<head, landed, moves>>
    BY <1>1, <1>2 DEF GitPush
  <2>2. late' \subseteq late \cup {<<d, e>>}
    BY <1>1, <1>2 DEF GitPush
  <2> QED
    BY <1>3, <1>4, <2>1, <2>2, PushedRemote
<1>6. PICK p \in {"pushed", "pushFailed"} : Goes(c, p)
  BY DEF GitPush
<1>7. Steps(c, p) /\ job'[c] = job[c] /\ answered' = answered
  BY <1>6, GoesSteps DEF BrokerInv, Location, InPhase, PhaseA
<1>8. UNCHANGED <<mem, disk, gate, acked>>
  BY <1>3 DEF storeVars
<1>9. JobOK(c)'
  BY <1>3, <1>7, <1>8
  DEF JobOK, Begun, Admitted, Pushing, Requesting, Ending, Steps, InPhase, PhaseA, PhaseB
<1>10. StoreCall(d)
  BY <1>3, QuietCall DEF BrokerInv, storeVars, store, Called, StoreCall
<1>11. Apart(c, d)
  BY <1>3, <1>7, <1>8 DEF Apart, Steps
<1>12. RecordIsTrue(d, mem[d])'
  BY <1>5, <1>8, RecordKept DEF BrokerInv, RecordsAreTrue
<1> QED
  BY <1>5, <1>7, <1>9, <1>10, <1>11, <1>12, StepConcludes DEF Steps

(* The request takes the pull request n and goes on in phase B.            *)
LEMMA TakesPr ==
  ASSUME LocalTypeOK, NEW c \in Caller, NEW p \in Location, NEW n \in PrNumber,
         Goto(c, p), job' = [job EXCEPT ![c].pr = n], UNCHANGED <<revoking, answered>>
  PROVE  Steps(c, p) /\ job'[c].pr = n /\ answered' = answered
<1>1. job[c] \in Job
  BY DEF LocalTypeOK
<1>2. PICK j : j = [job[c] EXCEPT !.pr = n]
  OBVIOUS
<1>3. j \in Job /\ j.digest = job[c].digest /\ j.pr = n
  BY <1>1, <1>2 DEF Job
<1>4. job' = [job EXCEPT ![c] = j] /\ pc' = [pc EXCEPT ![c] = p]
  BY <1>2 DEF Goto, LocalTypeOK
<1> QED
  BY <1>3, <1>4 DEF Steps, LocalTypeOK

(* A step inside phase B, whatever happens to the pull requests.           *)
LEMMA PhaseBJob ==
  ASSUME BrokerInv, NEW c \in Caller, pc[c] \in PhaseB, NEW p, Steps(c, p),
         UNCHANGED storeVars, WorldGrows,
         \/ p = "create" /\ OpenPrs' = {}
         \/ /\ p \in {"update", "publishB"} /\ job'[c].pr \in PrNumber /\ prs'[job'[c].pr] # "unused"
            /\ p = "publishB" => shown'[job[c].digest] = job'[c].pr
  PROVE  JobOK(c)'
<1>1. JobOK(c) /\ UNCHANGED <<mem, disk, gate, acked>>
  BY DEF BrokerInv, storeVars
<1>2. Begun(c)' /\ Admitted(c)'
  BY <1>1 DEF JobOK, Begun, Admitted, Steps, InPhase, PhaseA, PhaseB
<1>3. Pushing(c)' /\ Requesting(c)'
  BY <1>1 DEF JobOK, Pushing, Requesting, Steps, PhaseB, WorldGrows
<1>4. Ending(c)'
  BY DEF Ending, Steps
<1> QED
  BY <1>2, <1>3, <1>4 DEF JobOK

LEMMA FindPrStep ==
  ASSUME BrokerInv, NEW c \in Caller, FindPr(c)
  PROVE  BrokerInv'
<1>1. /\ pc[c] = "find" /\ pc[c] \in PhaseB /\ pc[c] \in InPhase /\ pc[c] # "idle"
      /\ UNCHANGED storeVars /\ UNCHANGED remoteVars
      /\ LocalTypeOK /\ WorldGrows
  BY RemoteSame DEF FindPr, At, InPhase, PhaseB, BrokerInv
<1>2. CASE Returns(c, "TRANSIENT")
  BY <1>1, <1>2, TransientReturn
<1>3. CASE OpenPrs = {} /\ Goes(c, "create")
  <2>1. Steps(c, "create") /\ answered' = answered
    BY <1>1, <1>3, GoesSteps DEF Location, InPhase, PhaseB
  <2> QED
    BY <1>1, <1>3, <2>1, SameWorld, PhaseBJob, LocalStep
<1>4. CASE Blocks(c, "block", "AMBIGUOUS_PR", NoCommit)
  BY <1>1, <1>4, BlockStep, HeadIsHead DEF BlockReason
<1>5. CASE Blocks(c, "block", "PR_BASE_MISMATCH", NoCommit)
  BY <1>1, <1>5, BlockStep, HeadIsHead DEF BlockReason
<1>6. ASSUME NEW n \in OpenPrs, Goto(c, "update"), job' = [job EXCEPT ![c].pr = n],
             UNCHANGED <<revoking, answered>>
      PROVE  BrokerInv'
  <2>1. n \in PrNumber /\ prs[n] # "unused"
    BY <1>6 DEF OpenPrs
  <2>2. Steps(c, "update") /\ job'[c].pr = n /\ answered' = answered
    BY <1>1, <1>6, <2>1, TakesPr DEF Location, InPhase, PhaseB
  <2> QED
    BY <1>1, <2>1, <2>2, SameWorld, PhaseBJob, LocalStep
<1> QED
  BY <1>2, <1>3, <1>4, <1>5, <1>6 DEF FindPr, TakePr

(* The grant of a request in phase B is published neither in memory nor on *)
(* disk.                                                                   *)
LEMMA UnpublishedInPhase ==
  ASSUME BrokerInv, NEW c \in Caller, NEW d \in Digest, d = job[c].digest, pc[c] \in InPhase
  PROVE  mem[d].state # "PUBLISHED" /\ disk[d].state # "PUBLISHED"
<1>1. mem[d].state = "IN_PROGRESS"
  BY DEF BrokerInv, JobOK, Admitted
<1>2. mem[d] = disk[d]
  BY <1>1 DEF BrokerInv, IInv, PendingIsUnsaved, MemoryIsSavedOrPending
<1> QED
  BY <1>1, <1>2

(* Of the remote only what GitHub answered c changes, or that and the pull *)
(* requests.                                                               *)
LEMMA AnsweredConcludes ==
  ASSUME BrokerInv, NEW c \in Caller, pc[c] \in InPhase, NEW d \in Digest, d = job[c].digest,
         NEW p, Steps(c, p), answered' = answered, JobOK(c)',
         UNCHANGED storeVars, WorldGrows,
         (RemoteTypeOK /\ PushesAreAuthorized /\ BranchIsKnown)',
         \A x \in Digest \ {d} : opened'[x] = opened[x] /\ shown'[x] = shown[x]
  PROVE  BrokerInv'
<1>1. StoreCall(d)
  BY QuietCall DEF BrokerInv, storeVars, store, Called, StoreCall
<1>2. UNCHANGED <<mem, disk, gate, acked>> /\ gate[d] = c
  BY DEF BrokerInv, storeVars, JobOK, Admitted
<1>3. Apart(c, d)
  BY <1>2 DEF Apart, Steps
<1>4. RecordIsTrue(d, mem[d])'
  BY <1>2, RecordKept DEF BrokerInv, RecordsAreTrue
<1> QED
  BY <1>1, <1>3, <1>4, StepConcludes DEF Steps

(* What is checked of an answer is what the history keeps of it.           *)
LEMMA CheckedJob ==
  ASSUME BrokerInv, NEW c \in Caller, pc[c] \in PhaseB, pc[c] \in InPhase,
         NEW n \in PrNumber, NEW s \in PrState,
         CheckPr(c, n, s), Shows(c, n, s), UNCHANGED storeVars, WorldGrows, prs'[n] # "unused"
  PROVE  JobOK(c)' /\ (\E p : Steps(c, p)) /\ answered' = answered
<1>1. CASE Blocks(c, "block", "PR_STATE_MISMATCH", NoCommit)
  BY <1>1, BlockJob, HeadIsHead DEF BlockReason
<1>2. CASE s \in {"open", "closed"} /\ head = Target[job[c].digest] /\ TakePr(c, "publishB", n)
  <2>1. Steps(c, "publishB") /\ job'[c].pr = n /\ answered' = answered
    BY <1>2, TakesPr DEF TakePr, BrokerInv, Location, InPhase, PhaseB
  <2>2. shown'[job[c].digest] = n
    BY <1>2 DEF Shows, BrokerInv, LocalTypeOK, RemoteTypeOK, Job
  <2> QED
    BY <2>1, <2>2, PhaseBJob
<1> QED
  BY <1>1, <1>2 DEF CheckPr

LEMMA ShownRemote ==
  ASSUME BrokerInv, NEW c \in Caller, NEW d \in Digest, d = job[c].digest, pc[c] \in InPhase,
         NEW n \in PrNumber, NEW s, Shows(c, n, s) \/ UNCHANGED shown
  PROVE  /\ shown' \in [Digest -> PrNumber \cup {NoPr}]
         /\ \A x \in Digest \ {d} : shown'[x] = shown[x]
         /\ \A x \in Digest :
              "PUBLISHED" \in {mem[x].state, disk[x].state} => shown'[x] = shown[x]
<1>1. shown \in [Digest -> PrNumber \cup {NoPr}]
  BY DEF BrokerInv, RemoteTypeOK
<1>2. PICK m \in PrNumber \cup {NoPr} : shown' = [shown EXCEPT ![d] = m] \/ shown' = shown
  BY DEF Shows
<1>3. \A x \in Digest \ {d} : shown'[x] = shown[x]
  BY <1>1, <1>2
<1> QED
  BY <1>1, <1>2, <1>3, UnpublishedInPhase

LEMMA UpdatePrStep ==
  ASSUME BrokerInv, NEW c \in Caller, UpdatePr(c)
  PROVE  BrokerInv'
<1>1. /\ pc[c] = "update" /\ pc[c] \in PhaseB /\ pc[c] \in InPhase /\ pc[c] # "idle"
      /\ UNCHANGED storeVars /\ UNCHANGED <<head, prs, late, landed, moves, opened, outside>>
      /\ LocalTypeOK /\ JobOK(c)
  BY DEF UpdatePr, At, InPhase, PhaseB, BrokerInv
<1>2. CASE Returns(c, "TRANSIENT") /\ UNCHANGED shown
  BY <1>1, <1>2, TransientReturn DEF remoteVars
<1>3. CASE CheckPr(c, job[c].pr, prs[job[c].pr]) /\ Shows(c, job[c].pr, prs[job[c].pr])
  <2>1. PICK d \in Digest, n \in PrNumber : d = job[c].digest /\ n = job[c].pr /\ prs[n] # "unused"
    BY <1>1 DEF LocalTypeOK, Job, JobOK, Requesting
  <2>2. /\ shown' \in [Digest -> PrNumber \cup {NoPr}]
        /\ \A x \in Digest \ {d} : shown'[x] = shown[x]
        /\ \A x \in Digest :
             "PUBLISHED" \in {mem[x].state, disk[x].state} => shown'[x] = shown[x]
    BY <1>1, <1>3, <2>1, ShownRemote
  <2>3. WorldGrows /\ (RemoteTypeOK /\ PushesAreAuthorized /\ BranchIsKnown)'
    BY <1>1, <2>2
    DEF BrokerInv, WorldGrows, RemoteTypeOK, PushesAreAuthorized, MovesAreAuthorized,
        BranchIsKnown, OneOpenPrPerGrant, OpenPrs, Authorized
  <2>4. prs[n] \in PrState
    BY <2>1 DEF BrokerInv, RemoteTypeOK
  <2>5. JobOK(c)' /\ (\E p : Steps(c, p)) /\ answered' = answered
    BY <1>1, <1>3, <2>1, <2>3, <2>4, CheckedJob
  <2> QED
    BY <1>1, <2>1, <2>2, <2>3, <2>5, AnsweredConcludes
<1> QED
  BY <1>2, <1>3 DEF UpdatePr

(* GitHub opens a pull request for a grant that has none open.             *)
LEMMA CreatedRemote ==
  ASSUME BrokerInv, NEW d \in Digest, opened[d] \cap OpenPrs = {},
         NEW n \in PrNumber, prs[n] = "unused",
         prs' = [prs EXCEPT ![n] = "open"],
         opened' = [opened EXCEPT ![d] = @ \cup {n}],
         UNCHANGED <<head, late, landed, moves, outside>>,
         shown' \in [Digest -> PrNumber \cup {NoPr}],
         \A x \in Digest :
           "PUBLISHED" \in {mem[x].state, disk[x].state} => shown'[x] = shown[x]
  PROVE  /\ WorldGrows
         /\ (RemoteTypeOK /\ PushesAreAuthorized /\ BranchIsKnown)'
         /\ prs'[n] # "unused"
         /\ \A x \in Digest \ {d} : opened'[x] = opened[x]
<1>1. RemoteTypeOK /\ PushesAreAuthorized /\ BranchIsKnown
  BY DEF BrokerInv
<1>2. /\ prs'[n] = "open"
      /\ \A m \in PrNumber \ {n} : prs'[m] = prs[m]
      /\ opened'[d] = opened[d] \cup {n}
      /\ \A x \in Digest \ {d} : opened'[x] = opened[x]
      /\ \A x \in Digest : n \notin opened[x] /\ opened[x] \subseteq PrNumber
  BY <1>1 DEF RemoteTypeOK, BranchIsKnown
<1>3. RemoteTypeOK' /\ WorldGrows /\ PushesAreAuthorized'
  BY <1>1, <1>2
  DEF RemoteTypeOK, WorldGrows, PushesAreAuthorized, MovesAreAuthorized, Authorized, PrState
<1>4. ASSUME NEW x \in Digest
      PROVE  (\A m \in opened[x] : prs[m] # "unused")'
  BY <1>1, <1>2 DEF BranchIsKnown
<1>5. ASSUME NEW x \in Digest
      PROVE  (\A m, k \in opened[x] \cap OpenPrs : m = k)'
  <2>1. CASE x = d
    BY <1>2, <2>1 DEF OpenPrs
  <2>2. CASE x # d
    BY <1>1, <1>2, <2>2 DEF OpenPrs, BranchIsKnown, OneOpenPrPerGrant
  <2> QED
    BY <2>1, <2>2
<1>6. BranchIsKnown'
  BY <1>1, <1>4, <1>5 DEF BranchIsKnown, OneOpenPrPerGrant
<1> QED
  BY <1>2, <1>3, <1>6

LEMMA CreatePrStep ==
  ASSUME BrokerInv, NEW c \in Caller, CreatePr(c)
  PROVE  BrokerInv'
<1>1. /\ pc[c] = "create" /\ pc[c] \in PhaseB /\ pc[c] \in InPhase /\ pc[c] # "idle"
      /\ UNCHANGED storeVars /\ UNCHANGED <<head, late, landed, moves, outside>>
      /\ LocalTypeOK /\ JobOK(c)
  BY DEF CreatePr, At, InPhase, PhaseB, BrokerInv
<1>2. CASE Returns(c, "TRANSIENT") /\ UNCHANGED <<prs, opened, shown>>
  BY <1>1, <1>2, TransientReturn DEF remoteVars
<1>3. ASSUME NEW n \in PrNumber,
             prs[n] = "unused",
             prs' = [prs EXCEPT ![n] = "open"],
             opened' = [opened EXCEPT ![job[c].digest] = @ \cup {n}],
             \/ CheckPr(c, n, "open") /\ Shows(c, n, "open")
             \/ Returns(c, "TRANSIENT") /\ UNCHANGED shown
      PROVE  BrokerInv'
  <2>1. PICK d \in Digest : d = job[c].digest
    BY <1>1 DEF LocalTypeOK, Job
  <2>2. /\ shown' \in [Digest -> PrNumber \cup {NoPr}]
        /\ \A x \in Digest \ {d} : shown'[x] = shown[x]
        /\ \A x \in Digest :
             "PUBLISHED" \in {mem[x].state, disk[x].state} => shown'[x] = shown[x]
    BY <1>1, <1>3, <2>1, ShownRemote
  <2>3. /\ WorldGrows
        /\ (RemoteTypeOK /\ PushesAreAuthorized /\ BranchIsKnown)'
        /\ prs'[n] # "unused"
        /\ \A x \in Digest \ {d} : opened'[x] = opened[x]
    <3>1. opened[d] \cap OpenPrs = {}
      BY <1>1, <2>1 DEF JobOK, Requesting
    <3>2. opened' = [opened EXCEPT ![d] = @ \cup {n}]
      BY <1>3, <2>1
    <3> QED
      BY <1>1, <1>3, <2>2, <3>1, <3>2, CreatedRemote
  <2>4. JobOK(c)' /\ (\E p : Steps(c, p)) /\ answered' = answered
    <3>1. CASE Returns(c, "TRANSIENT")
      <4>1. StoreCall(d)
        BY <1>1, QuietCall DEF BrokerInv, storeVars, store, Called, StoreCall
      <4> QED
        BY <1>1, <2>1, <3>1, <4>1, ReturnJob, NothingClaimed
    <3>2. CASE CheckPr(c, n, "open") /\ Shows(c, n, "open")
      BY <1>1, <2>3, <3>2, CheckedJob DEF PrState
    <3> QED
      BY <1>3, <3>1, <3>2
  <2> QED
    BY <1>1, <2>1, <2>2, <2>3, <2>4, AnsweredConcludes
<1> QED
  BY <1>2, <1>3 DEF CreatePr

-----------------------------------------------------------------------------
(* The steps of a request that call the store.                             *)

LEMMA HandoverStep ==
  ASSUME BrokerInv, NEW c \in Caller, Handover(c)
  PROVE  BrokerInv'
<1>1. PICK d \in Digest : d = job[c].digest
  BY DEF BrokerInv, LocalTypeOK, Job
<1>2. /\ pc[c] = "handover" /\ Release(c, d) /\ Goes(c, "admitB") /\ UNCHANGED remoteVars
      /\ LocalTypeOK /\ JobOK(c)
  BY <1>1 DEF Handover, At, BrokerInv
<1>3. Steps(c, "admitB") /\ job'[c] = job[c] /\ answered' = answered
  BY <1>2, GoesSteps DEF Location
<1>4. UNCHANGED mem /\ UNCHANGED landed
  BY <1>2 DEF Release, store, remoteVars
<1>5. JobOK(c)'
  BY <1>2, <1>3, <1>4
  DEF JobOK, Begun, Admitted, Pushing, Requesting, Ending, Steps, InPhase, PhaseA, PhaseB
<1> QED
  BY <1>1, <1>2, <1>3, <1>5, QuietConcludes

LEMMA ReturnStep ==
  ASSUME BrokerInv, NEW c \in Caller, Return(c)
  PROVE  BrokerInv'
<1>1. PICK d \in Digest : d = job[c].digest
  BY DEF BrokerInv, LocalTypeOK, Job
<1>2. PICK code \in Code : code = job[c].code
  BY DEF BrokerInv, LocalTypeOK, Job
<1>3. /\ pc[c] = "return" /\ Release(c, d) /\ Finishes(c, code) /\ UNCHANGED remoteVars
      /\ LocalTypeOK /\ JobOK(c)
  BY <1>1, <1>2 DEF Return, At, BrokerInv
<1>4. Steps(c, "idle") /\ answered'[d] \subseteq answered[d] \cup {code}
  BY <1>1, <1>3, FinishesSteps
<1>5. Claimed(d, code)
  BY <1>1, <1>2, <1>3 DEF JobOK, Ending
<1>6. JobOK(c)'
  BY <1>4, IdleJob DEF Steps
<1> QED
  BY <1>1, <1>3, <1>4, <1>5, <1>6, QuietConcludes

(* A call changes no published record, and publishes none.                 *)
LEMMA UnpublishedRecord ==
  ASSUME BrokerInv, NEW d \in Digest, WorldGrows,
         \/ mem'[d] = mem[d]
         \/ /\ mem[d].state # "PUBLISHED"
            /\ mem'[d].state # "PUBLISHED"
            /\ mem'[d].pr = mem[d].pr
  PROVE  RecordIsTrue(d, mem[d])'
<1>1. PICK h : h = mem'[d]
  OBVIOUS
<1>2. RecordIsTrue(d, h)'
  BY <1>1, RecordKept DEF BrokerInv, RecordsAreTrue
<1> QED
  BY <1>1, <1>2

LEMMA FinishCall ==
  ASSUME BrokerInv, NEW c \in Caller, NEW d \in Digest, d = job[c].digest,
         StoreCall(d), UNCHANGED remoteVars,
         gate[d] \in {NoOne, c} \/ (gate'[d] = gate[d] /\ mem'[d].state = mem[d].state),
         NEW code \in Code, Finishes(c, code), Claimed(d, code)',
         RecordIsTrue(d, mem[d])'
  PROVE  BrokerInv'
<1>1. Steps(c, "idle") /\ answered'[d] \subseteq answered[d] \cup {code}
  BY FinishesSteps DEF BrokerInv
<1>2. JobOK(c)'
  BY <1>1, IdleJob DEF Steps
<1> QED
  BY <1>1, <1>2, RequestConcludes

LEMMA ReturnCall ==
  ASSUME BrokerInv, NEW c \in Caller, NEW d \in Digest, d = job[c].digest, pc[c] # "idle",
         StoreCall(d), UNCHANGED remoteVars,
         gate[d] \in {NoOne, c} \/ (gate'[d] = gate[d] /\ mem'[d].state = mem[d].state),
         NEW code \in Code, Returns(c, code), Claimed(d, code)',
         RecordIsTrue(d, mem[d])'
  PROVE  BrokerInv'
<1>1. JobOK(c)' /\ Steps(c, "return") /\ answered' = answered
  BY ReturnJob
<1> QED
  BY <1>1, RequestConcludes

(* What a block of the store does to the record.                           *)
LEMMA BlockedRecord ==
  ASSUME BrokerInv, NEW d \in Digest, NEW why \in Reason, NEW r \in Reply,
         MarkBlockedCore(d, why, r), WorldGrows
  PROVE  StoreCall(d) /\ RecordIsTrue(d, mem[d])'
<1>1. IInv /\ mem[d] \in Grant
  BY SavedGrant DEF BrokerInv
<1>2. /\ Called(d, r, [mem[d] EXCEPT !.state = "BLOCKED", !.reason = why])
      /\ mem'[d] # mem[d] => mem[d].state \in Unfinished
  BY <1>1, BlockCall
<1>3. \/ mem'[d] = mem[d]
      \/ /\ mem[d].state # "PUBLISHED"
         /\ mem'[d].state # "PUBLISHED"
         /\ mem'[d].pr = mem[d].pr
  BY <1>1, <1>2 DEF Called, Grant, Unfinished
<1> QED
  BY <1>2, <1>3, UnpublishedRecord DEF Called, StoreCall

LEMMA RejectStep ==
  ASSUME BrokerInv, NEW c \in Caller, Reject(c)
  PROVE  BrokerInv'
<1>1. PICK d \in Digest : d = job[c].digest
  BY DEF BrokerInv, LocalTypeOK, Job
<1>2. IInv /\ JobOK(c) /\ LocalTypeOK
  BY DEF BrokerInv
<1>3. PICK why \in BlockReason : why = job[c].why
  BY <1>2 DEF Reject, At, JobOK, Ending
<1>4. PICK r \in Reply :
        /\ pc[c] = "rejecting"
        /\ MarkBlocked(d, why, r)
        /\ CASE r = "BLOCKED" -> Finishes(c, why)
             [] r = "ErrCannotBlockPublished" -> Goes(c, "converging")
             [] OTHER -> Finishes(c, BlockOutcomeReason(r))
        /\ UNCHANGED remoteVars
  BY <1>1, <1>3 DEF Reject, At
<1>5. gate[d] = NoOne /\ MarkBlockedCore(d, why, r) /\ why \in Reason /\ WorldGrows
  BY <1>4, RemoteSame, BrokerAssumption DEF MarkBlocked, GateFree
<1>6. /\ StoreCall(d)
      /\ RecordIsTrue(d, mem[d])'
      /\ Tells(r) \subseteq acked'[d]
      /\ r = "BLOCKED" => mem'[d].reason = why
      /\ r # "ErrInvalidPhaseLease"
  BY <1>2, <1>5, BlockCall, BlockedRecord DEF Called
<1>7. CASE r = "BLOCKED"
  <2>1. Claimed(d, why)' /\ why \in Code
    BY <1>6, <1>7, BlockedClaimed DEF Tells, StoreCall
  <2> QED
    BY <1>1, <1>4, <1>5, <1>6, <1>7, <2>1, FinishCall
<1>8. CASE r = "ErrCannotBlockPublished"
  <2>1. Steps(c, "converging") /\ job'[c] = job[c] /\ answered' = answered
    BY <1>2, <1>4, <1>8, GoesSteps DEF Location
  <2>2. mem'[d].state \notin {"NONE", "AUTHORIZED"} /\ "PUBLISHED" \in acked'[d]
    BY <1>1, <1>4, <1>6, <1>8, BegunStays DEF Tells
  <2>3. JobOK(c)'
    BY <1>1, <2>1, <2>2
    DEF JobOK, Begun, Admitted, Pushing, Requesting, Ending, Steps, InPhase, PhaseA, PhaseB
  <2> QED
    BY <1>1, <1>4, <1>5, <1>6, <2>1, <2>3, RequestConcludes
<1>9. CASE r \notin {"BLOCKED", "ErrCannotBlockPublished"}
  <2>1. Claimed(d, BlockOutcomeReason(r))' /\ BlockOutcomeReason(r) \in Code
    BY <1>6, BlockOutcomeClaimed
  <2> QED
    BY <1>1, <1>4, <1>5, <1>6, <1>9, <2>1, FinishCall
<1> QED
  BY <1>7, <1>8, <1>9

(* What an admission does to the record.                                   *)
LEMMA AdmittedRecord ==
  ASSUME BrokerInv, NEW c \in Caller, NEW d \in Digest, NEW r \in Reply,
         AdmitPublicationPhase(c, d, r), WorldGrows
  PROVE  StoreCall(d) /\ RecordIsTrue(d, mem[d])' /\ mem'[d] = mem[d]
<1>1. Called(d, r, mem[d])
  BY AdmitCall DEF BrokerInv
<1> QED
  BY <1>1, UnpublishedRecord DEF Called, StoreCall

LEMMA ConvergeStep ==
  ASSUME BrokerInv, NEW c \in Caller, Converge(c)
  PROVE  BrokerInv'
<1>1. PICK d \in Digest : d = job[c].digest
  BY DEF BrokerInv, LocalTypeOK, Job
<1>2. IInv /\ JobOK(c) /\ LocalTypeOK
  BY DEF BrokerInv
<1>3. PICK r \in Reply :
        /\ pc[c] = "converging"
        /\ AdmitPublicationPhase(c, d, r)
        /\ IF r \in {"IN_PROGRESS", "PUBLISHED"}
           THEN Returns(c, "PUBLISHED")
           ELSE Finishes(c, BlockOutcomeReason(r))
        /\ UNCHANGED remoteVars
  BY <1>1 DEF Converge, At
<1>4. /\ StoreCall(d)
      /\ RecordIsTrue(d, mem[d])'
      /\ Tells(r) \subseteq acked'[d]
      /\ gate[d] = NoOne
      /\ r # "ErrInvalidPhaseLease"
  BY <1>2, <1>3, AdmitCall, AdmittedRecord, RemoteSame DEF Called
<1>5. CASE r \in {"IN_PROGRESS", "PUBLISHED"}
  <2>1. "PUBLISHED" \in acked'[d]
    BY <1>1, <1>2, <1>3, <1>4, KeptByCalls DEF JobOK, Ending
  <2>2. Claimed(d, "PUBLISHED")' /\ "PUBLISHED" \in Code
    BY <2>1, PublishedClaimed
  <2> QED
    BY <1>1, <1>3, <1>4, <1>5, <2>2, ReturnCall
<1>6. CASE r \notin {"IN_PROGRESS", "PUBLISHED"}
  <2>1. Claimed(d, BlockOutcomeReason(r))' /\ BlockOutcomeReason(r) \in Code
    BY <1>4, BlockOutcomeClaimed
  <2> QED
    BY <1>1, <1>3, <1>4, <1>6, <2>1, FinishCall
<1> QED
  BY <1>5, <1>6

LEMMA AdmitStep ==
  ASSUME BrokerInv, NEW c \in Caller, AdmitA(c) \/ AdmitB(c)
  PROVE  BrokerInv'
<1>1. PICK d \in Digest : d = job[c].digest
  BY DEF BrokerInv, LocalTypeOK, Job
<1>2. IInv /\ JobOK(c) /\ LocalTypeOK
  BY DEF BrokerInv
<1>3. PICK to \in {"observe", "find"}, r \in Reply :
        /\ IF to = "observe" THEN pc[c] = "admitA" ELSE pc[c] = "admitB"
        /\ AdmitPublicationPhase(c, d, r)
        /\ CASE r = "IN_PROGRESS" -> Goes(c, to)
             [] r = "PUBLISHED" -> Returns(c, "PUBLISHED")
             [] OTHER -> Finishes(c, MapGrantError(r))
        /\ UNCHANGED remoteVars
  BY <1>1 DEF AdmitA, AdmitB, Admit, At
<1>4. /\ StoreCall(d)
      /\ RecordIsTrue(d, mem[d])'
      /\ mem'[d] = mem[d]
      /\ Tells(r) \subseteq acked'[d]
      /\ gate[d] = NoOne
      /\ r = "IN_PROGRESS" => gate'[d] = c /\ mem[d].state = "IN_PROGRESS"
  BY <1>2, <1>3, AdmitCall, AdmittedRecord, RemoteSame DEF Called
<1>5. CASE r = "IN_PROGRESS"
  <2>1. Steps(c, to) /\ job'[c] = job[c] /\ answered' = answered
    BY <1>2, <1>3, <1>5, GoesSteps DEF Location, InPhase, PhaseA, PhaseB
  <2>2. UNCHANGED landed
    BY <1>3 DEF remoteVars
  <2>3. JobOK(c)'
    BY <1>1, <1>2, <1>3, <1>4, <1>5, <2>1, <2>2
    DEF JobOK, Begun, Admitted, Pushing, Requesting, Ending, Steps, InPhase, PhaseA, PhaseB
  <2> QED
    BY <1>1, <1>3, <1>4, <2>1, <2>3, RequestConcludes
<1>6. CASE r = "PUBLISHED"
  <2>1. Claimed(d, "PUBLISHED")' /\ "PUBLISHED" \in Code
    BY <1>4, <1>6, PublishedClaimed DEF Tells
  <2> QED
    BY <1>1, <1>3, <1>4, <1>6, <2>1, ReturnCall
<1>7. CASE r \notin {"IN_PROGRESS", "PUBLISHED"}
  <2>1. r \in {"ErrNotFound", "ErrRevoked", "ErrExpired", "ErrBlocked",
               "ErrBlockPersistFailed", "ErrPublishPersistFailed"}
    BY <1>1, <1>2, <1>3, <1>7, AdmitCall DEF JobOK, Begun
  <2>2. Claimed(d, MapGrantError(r))' /\ MapGrantError(r) \in Code
    BY <1>4, <2>1, GrantErrorClaimed
  <2> QED
    BY <1>1, <1>3, <1>4, <1>7, <2>2, FinishCall
<1> QED
  BY <1>5, <1>6, <1>7

LEMMA RecordStep ==
  ASSUME BrokerInv, NEW c \in Caller, Record(c)
  PROVE  BrokerInv'
<1>1. PICK d \in Digest : d = job[c].digest
  BY DEF BrokerInv, LocalTypeOK, Job
<1>2. IInv /\ JobOK(c) /\ LocalTypeOK /\ mem[d] \in Grant
  BY SavedGrant DEF BrokerInv
<1>3. PICK r \in Reply, p \in {"handover", "publishA"} :
        /\ pc[c] = "record"
        /\ RecordRemoteHead(d, Target[d], r)
        /\ Goes(c, p)
        /\ p = IF d \in WantsPr THEN "handover" ELSE "publishA"
        /\ UNCHANGED remoteVars
  BY <1>1 DEF Record, At
<1>4. /\ Called(d, "ok", [mem[d] EXCEPT !.head = Target[d]])
      /\ gate' = gate
      /\ WorldGrows
  BY <1>2, <1>3, RecordCall, RemoteSame, BrokerAssumption
<1>5. gate[d] = c /\ mem[d].state = "IN_PROGRESS" /\ mem[d].matches
  BY <1>1, <1>2, <1>3 DEF JobOK, Admitted, Begun, InPhase, PhaseA
<1>6. mem'[d].state = "IN_PROGRESS" /\ mem'[d].pr = mem[d].pr
  BY <1>2, <1>4, <1>5 DEF Called, Grant
<1>7. StoreCall(d) /\ mem'[d].matches = mem[d].matches
  BY <1>4, <1>5 DEF Called, StoreCall, OnlyOn
<1>8. RecordIsTrue(d, mem[d])'
  BY <1>4, <1>5, <1>6, UnpublishedRecord
<1>9. Steps(c, p) /\ job'[c] = job[c] /\ answered' = answered
  BY <1>2, <1>3, GoesSteps DEF Location, InPhase, PhaseA
<1>10. JobOK(c)'
  <2>1. UNCHANGED landed /\ Target[d] \in landed
    BY <1>1, <1>2, <1>3 DEF remoteVars, JobOK, Pushing
  <2>2. Begun(c)' /\ Admitted(c)'
    BY <1>1, <1>4, <1>5, <1>6, <1>7, <1>9 DEF Begun, Admitted, Steps
  <2>3. Pushing(c)' /\ Requesting(c)' /\ Ending(c)'
    BY <1>1, <1>3, <1>9, <2>1 DEF Pushing, Requesting, Ending, Steps, PhaseB
  <2> QED
    BY <2>2, <2>3 DEF JobOK
<1> QED
  BY <1>1, <1>3, <1>5, <1>7, <1>8, <1>9, <1>10, RequestConcludes

(* A grant is published with the commit that was on the branch and with    *)
(* the pull request that was found or made, if one was asked for.          *)
LEMMA PublishStep ==
  ASSUME BrokerInv, NEW c \in Caller, PublishA(c) \/ PublishB(c)
  PROVE  BrokerInv'
<1>1. PICK d \in Digest : d = job[c].digest
  BY DEF BrokerInv, LocalTypeOK, Job
<1>2. IInv /\ JobOK(c) /\ LocalTypeOK /\ mem[d] \in Grant /\ RecordIsTrue(d, mem[d])
  BY SavedGrant DEF BrokerInv, RecordsAreTrue
<1>3. PICK n \in PrNumber \cup {NoPr}, r \in Reply :
        /\ \/ pc[c] = "publishA" /\ n = NoPr
           \/ pc[c] = "publishB" /\ n = job[c].pr
        /\ MarkPublished(d, Target[d], n, r)
        /\ Returns(c, IF r = "PUBLISHED" THEN r ELSE PublishPersistFailureReason(r))
        /\ UNCHANGED remoteVars
  BY <1>1 DEF PublishA, PublishB, Publish, At, BrokerInv, LocalTypeOK, Job
<1> DEFINE g == [mem[d] EXCEPT !.state = "PUBLISHED", !.head = Target[d],
                               !.pr = IF n = NoPr THEN @ ELSE n]
<1>4. /\ gate[d] = c /\ mem[d].state = "IN_PROGRESS" /\ mem[d].matches
      /\ Target[d] \in landed
      /\ IF d \in WantsPr THEN n \in PrNumber /\ prs[n] # "unused" /\ n = shown[d] ELSE n = NoPr
  BY <1>1, <1>2, <1>3
  DEF JobOK, Admitted, Begun, Pushing, Requesting, InPhase, PhaseA, PhaseB
<1>5. /\ Called(d, r, g)
      /\ r \in {"PUBLISHED", "ErrPublishPersistFailed"}
      /\ WorldGrows
  BY <1>2, <1>3, <1>4, PublishCall, RemoteSame, BrokerAssumption
<1>6. RecordIsTrue(d, mem[d])'
  <2>1. CASE mem'[d] = mem[d]
    BY <1>5, <2>1, UnpublishedRecord
  <2>2. CASE mem'[d] = g
    <3>1. /\ g.state = "PUBLISHED" /\ g.head = Target[d]
          /\ g.matches = mem[d].matches
          /\ g.pr = IF n = NoPr THEN mem[d].pr ELSE n
      BY <1>2 DEF Grant
    <3>2. mem[d].pr = NoPr
      BY <1>2, <1>4 DEF RecordIsTrue
    <3>3. UNCHANGED <<landed, prs, shown>>
      BY <1>3 DEF remoteVars
    <3>4. IF d \in WantsPr
          THEN g.pr \in PrNumber /\ prs[g.pr] # "unused" /\ g.pr = shown[d]
          ELSE g.pr = NoPr
      BY <1>4, <3>1, <3>2, StoreAssumption
    <3> HIDE DEF g
    <3> QED
      BY <1>4, <2>2, <3>1, <3>3, <3>4 DEF RecordIsTrue
  <2> QED
    BY <1>5, <2>1, <2>2 DEF Called
<1>7. PICK code \in Code : Returns(c, code) /\ Claimed(d, code)'
  <2>1. CASE r = "PUBLISHED"
    BY <1>3, <1>5, <2>1, PublishedClaimed DEF Called, Tells
  <2>2. CASE r = "ErrPublishPersistFailed"
    BY <1>3, <2>2, NothingClaimed DEF PublishPersistFailureReason
  <2> QED
    BY <1>5, <2>1, <2>2
<1>8. pc[c] # "idle" /\ StoreCall(d)
  BY <1>3, <1>5 DEF Called, StoreCall
<1> HIDE DEF g
<1> QED
  BY <1>1, <1>3, <1>4, <1>6, <1>7, <1>8, ReturnCall

LEMMA BlockInPhaseStep ==
  ASSUME BrokerInv, NEW c \in Caller, BlockInPhase(c)
  PROVE  BrokerInv'
<1>1. PICK d \in Digest : d = job[c].digest
  BY DEF BrokerInv, LocalTypeOK, Job
<1>2. IInv /\ JobOK(c) /\ LocalTypeOK
  BY DEF BrokerInv
<1>3. PICK why \in BlockReason : why = job[c].why
  BY <1>2 DEF BlockInPhase, At, JobOK, Ending
<1>4. pc[c] = "block" /\ gate[d] = c /\ mem[d].state = "IN_PROGRESS" /\ why \in Reason
  BY <1>1, <1>2, BrokerAssumption DEF BlockInPhase, At, JobOK, Admitted, InPhase
<1>5. PICK r \in Reply :
        /\ MarkBlockedCore(d, why, r)
        /\ Returns(c, IF r = "BLOCKED" THEN why ELSE BlockOutcomeReason(r))
        /\ UNCHANGED remoteVars
  BY <1>1, <1>3, <1>4 DEF BlockInPhase, MarkBlockedInPhase
<1>6. /\ StoreCall(d)
      /\ RecordIsTrue(d, mem[d])'
      /\ Tells(r) \subseteq acked'[d]
      /\ r = "BLOCKED" => mem'[d].reason = why
      /\ r # "ErrInvalidPhaseLease"
  BY <1>2, <1>4, <1>5, BlockCall, BlockedRecord, RemoteSame DEF Called
<1>7. PICK code \in Code : Returns(c, code) /\ Claimed(d, code)'
  <2>1. CASE r = "BLOCKED"
    BY <1>5, <1>6, <2>1, BlockedClaimed DEF Tells, StoreCall
  <2>2. CASE r # "BLOCKED"
    BY <1>5, <1>6, <2>2, BlockOutcomeClaimed
  <2> QED
    BY <2>1, <2>2
<1> QED
  BY <1>1, <1>4, <1>5, <1>6, <1>7, ReturnCall

(* A request arrives: it is answered at once, refused, or goes on to work. *)
LEMMA SubmitStep ==
  ASSUME BrokerInv, NEW c \in Caller, NEW d \in Digest, Submit(c, d)
  PROVE  BrokerInv'
<1>1. IInv /\ LocalTypeOK /\ mem[d] \in Grant
  BY SavedGrant DEF BrokerInv
<1>2. PICK r \in Reply :
        /\ pc[c] = "idle"
        /\ BeginOrResume(d, r)
        /\ job' = [job EXCEPT ![c] = IF r \in {"IN_PROGRESS", "PUBLISHED"} /\ ~mem[d].matches
                                     THEN [NewJob(d) EXCEPT !.why = "GRANT_REQUEST_FIELD_MISMATCH"]
                                     ELSE NewJob(d)]
        /\ IF r \in {"IN_PROGRESS", "PUBLISHED"} /\ ~mem[d].matches
           THEN Goto(c, "rejecting") /\ UNCHANGED <<revoking, answered>>
           ELSE IF r = "IN_PROGRESS"
           THEN Goto(c, "checking") /\ UNCHANGED <<revoking, answered>>
           ELSE Answers(c, IF r = "PUBLISHED" THEN r ELSE MapGrantError(r))
        /\ UNCHANGED remoteVars
  BY DEF Submit, At
<1>3. PICK s \in {"IN_PROGRESS", "EXPIRED"} :
        /\ Called(d, r, [mem[d] EXCEPT !.state = s])
        /\ gate' = gate
        /\ mem'[d] # mem[d] => mem[d].state = "AUTHORIZED"
        /\ r \in {"IN_PROGRESS", "PUBLISHED"} => mem'[d].state = r
        /\ r \in {"ErrNotFound", "ErrRevoked", "ErrExpired", "ErrBlocked", "IN_PROGRESS",
                  "PUBLISHED", "ErrBlockPersistFailed", "ErrPublishPersistFailed",
                  "ErrExpirePersistFailed", "ErrBeginPersistFailed"}
  BY <1>1, <1>2, BeginCall
<1>4. StoreCall(d) /\ WorldGrows /\ UNCHANGED <<opened, shown>> /\ Tells(r) \subseteq acked'[d]
      /\ (RemoteTypeOK /\ PushesAreAuthorized /\ BranchIsKnown)'
  BY <1>2, <1>3, RemoteSame DEF Called, StoreCall
<1>5. gate[d] = NoOne \/ (gate'[d] = gate[d] /\ mem'[d].state = mem[d].state)
  BY <1>1, <1>3 DEF IInv, HeldGateIsLive
<1>6. RecordIsTrue(d, mem[d])'
  <2>1. \/ mem'[d] = mem[d]
        \/ /\ mem[d].state # "PUBLISHED"
           /\ mem'[d].state # "PUBLISHED"
           /\ mem'[d].pr = mem[d].pr
    BY <1>1, <1>3 DEF Called, Grant
  <2> QED
    BY <1>4, <2>1, UnpublishedRecord
<1>7. PICK j \in Job :
        /\ job' = [job EXCEPT ![c] = j]
        /\ j.digest = d
        /\ r \in {"IN_PROGRESS", "PUBLISHED"} /\ ~mem[d].matches
             => j.why = "GRANT_REQUEST_FIELD_MISMATCH"
  BY <1>2, NewJobIsJob
<1>8. job'[c] = j /\ \A x \in Caller \ {c} : job'[x] = job[x]
  BY <1>1, <1>7 DEF LocalTypeOK
<1>9. JobOK(c)' /\ LocalTypeOK' /\ (\A x \in Caller \ {c} : pc'[x] = pc[x])
      /\ \A x \in Digest : \A n \in answered'[x] : n \in answered[x] \/ Claimed(x, n)'
  <2>1. ASSUME NEW p \in {"rejecting", "checking"}, Goto(c, p), UNCHANGED <<revoking, answered>>,
               r \in {"IN_PROGRESS", "PUBLISHED"},
               p = "rejecting" => j.why = "GRANT_REQUEST_FIELD_MISMATCH",
               p = "checking" => mem[d].matches
        PROVE  <1>9!:
    <3>1. LocalTypeOK' /\ pc'[c] = p /\ \A x \in Caller \ {c} : pc'[x] = pc[x]
      BY <1>1, <1>7, <2>1 DEF Goto, LocalTypeOK, Location
    <3>2. mem'[d].state \notin {"NONE", "AUTHORIZED"} /\ (p = "checking" => mem'[d].matches)
      BY <1>1, <1>3, <2>1 DEF Called, OnlyOn
    <3>3. JobOK(c)'
      BY <1>7, <1>8, <2>1, <3>1, <3>2
      DEF JobOK, Begun, Admitted, Pushing, Requesting, Ending, InPhase, PhaseA, PhaseB, BlockReason
    <3> QED
      BY <2>1, <3>1, <3>3
  <2>2. ASSUME NEW code \in Code, Claimed(d, code)', Answers(c, code)
        PROVE  <1>9!:
    <3>1. /\ pc' = [pc EXCEPT ![c] = "idle"]
          /\ UNCHANGED revoking
          /\ answered' = [answered EXCEPT ![d] = @ \cup ({code} \cap (FinalCode \cup DefensiveCode))]
      BY <1>7, <1>8, <2>2 DEF Answers, Goto
    <3>2. LocalTypeOK' /\ pc'[c] = "idle" /\ \A x \in Caller \ {c} : pc'[x] = pc[x]
      BY <1>1, <1>7, <2>2, <3>1 DEF LocalTypeOK, Location
    <3>3. \A x \in Digest : \A n \in answered'[x] : n \in answered[x] \/ Claimed(x, n)'
      BY <1>1, <2>2, <3>1 DEF LocalTypeOK
    <3> QED
      BY <3>2, <3>3, IdleJob
  <2>3. CASE r \in {"IN_PROGRESS", "PUBLISHED"} /\ ~mem[d].matches
    BY <1>2, <1>7, <2>1, <2>3
  <2>4. CASE r = "IN_PROGRESS" /\ mem[d].matches
    BY <1>2, <2>1, <2>4
  <2>5. CASE r = "PUBLISHED" /\ mem[d].matches
    <3>1. Claimed(d, "PUBLISHED")' /\ "PUBLISHED" \in Code
      BY <1>4, <2>5, PublishedClaimed DEF Tells
    <3> QED
      BY <1>2, <2>2, <2>5, <3>1
  <2>6. CASE r \notin {"IN_PROGRESS", "PUBLISHED"}
    <3>1. Claimed(d, MapGrantError(r))' /\ MapGrantError(r) \in Code
      BY <1>3, <1>4, <2>6, GrantErrorClaimed
    <3> QED
      BY <1>2, <2>2, <2>6, <3>1
  <2> QED
    BY <2>3, <2>4, <2>5, <2>6
<1>10. Apart(c, d)
  BY <1>4, <1>5, <1>8, <1>9 DEF Apart
<1> QED
  BY <1>4, <1>6, <1>9, <1>10, StepConcludes

-----------------------------------------------------------------------------
(* The steps of the others.                                                *)

LEMMA AdminConcludes ==
  ASSUME BrokerInv, NEW d \in Digest, StoreCall(d),
         gate[d] = NoOne \/ (gate'[d] = gate[d] /\ mem'[d].state = mem[d].state),
         UNCHANGED <<pc, job, answered>>, revoking' \subseteq Digest, UNCHANGED remoteVars,
         RecordIsTrue(d, mem[d])'
  PROVE  BrokerInv'
<1>1. LocalTypeOK'
  BY DEF BrokerInv, LocalTypeOK
<1>2. Apart(NoOne, d)
  BY RemoteSame DEF Apart
<1> QED
  BY <1>1, <1>2, RemoteSame, StepConcludes, StoreAssumption

(* Steps that leave the store and the requests as they are.                *)
LEMMA WorldConcludes ==
  ASSUME BrokerInv, UNCHANGED storeVars, UNCHANGED <<pc, job, answered>>, revoking' \subseteq Digest,
         WorldGrows, UNCHANGED <<opened, shown>>,
         (RemoteTypeOK /\ PushesAreAuthorized /\ BranchIsKnown)'
  PROVE  BrokerInv'
<1>1. IInv /\ IInv' /\ UNCHANGED <<mem, disk, gate, acked>>
  BY StutterIInv DEF BrokerInv, storeVars
<1>2. ASSUME NEW x \in Caller
      PROVE  JobOK(x)'
  <2>1. PICK d \in Digest : d = job[x].digest
    BY DEF BrokerInv, LocalTypeOK, Job
  <2>2. StoreCall(d)
    BY <1>1, QuietCall DEF storeVars, store, Called, StoreCall
  <2>3. Apart(NoOne, d)
    BY <1>1 DEF Apart
  <2> QED
    BY <2>2, <2>3, OthersKeep, StoreAssumption
<1>3. RecordsAreTrue'
  BY <1>1, RecordKept DEF BrokerInv, RecordsAreTrue
<1>4. AnswersAreClaimed'
  BY <1>1 DEF BrokerInv, AnswersAreClaimed, Claimed
<1>5. LocalTypeOK'
  BY DEF BrokerInv, LocalTypeOK
<1> QED
  BY <1>1, <1>2, <1>3, <1>4, <1>5 DEF BrokerInv

LEMMA CreateStep ==
  ASSUME BrokerInv, NEW d \in Digest, AdminCreate(d)
  PROVE  BrokerInv'
<1>1. PICK b \in BOOLEAN, r \in Reply : Create(d, b, r) /\ UNCHANGED <<localVars, remoteVars>>
  BY DEF AdminCreate
<1>2. /\ Called(d, r, NewGrant(b))
      /\ gate' = gate
      /\ mem'[d] # mem[d] => mem[d].state = "NONE"
  BY <1>1, CreateCall DEF BrokerInv
<1>3. StoreCall(d) /\ WorldGrows /\ UNCHANGED localVars /\ UNCHANGED remoteVars
  BY <1>1, <1>2, RemoteSame DEF Called, StoreCall
<1>4. gate[d] = NoOne \/ (gate'[d] = gate[d] /\ mem'[d].state = mem[d].state)
  BY <1>2 DEF BrokerInv, IInv, HeldGateIsLive
<1>5. RecordIsTrue(d, mem[d])'
  <2>1. mem[d].state # "PUBLISHED" => mem[d].pr = NoPr
    BY DEF BrokerInv, RecordsAreTrue, RecordIsTrue
  <2>2. NewGrant(b).state = "AUTHORIZED" /\ NewGrant(b).pr = NoPr
    BY DEF NewGrant, NoGrant
  <2> QED
    BY <1>2, <1>3, <2>1, <2>2, UnpublishedRecord DEF Called
<1> QED
  BY <1>3, <1>4, <1>5, AdminConcludes DEF localVars, BrokerInv, LocalTypeOK

(* A revoke that waited for the gate finds the grant out of its phase.     *)
LEMMA RevokeStep ==
  ASSUME BrokerInv, NEW d \in Digest, AnswerRevoke(d)
  PROVE  BrokerInv'
<1>1. PICK r \in Reply : /\ Revoke(d, r)
                         /\ revoking' = revoking \ {d}
                         /\ UNCHANGED <<pc, job, answered, remoteVars>>
  BY DEF AnswerRevoke
<1>2. /\ Called(d, r, [mem[d] EXCEPT !.state = "REVOKED"])
      /\ gate[d] = NoOne
      /\ mem'[d] # mem[d] => mem[d].state \in Revocable
      /\ mem[d] \in Grant
  BY <1>1, RevokeCall, SavedGrant DEF BrokerInv
<1>3. StoreCall(d) /\ WorldGrows /\ UNCHANGED <<pc, job, answered>> /\ UNCHANGED remoteVars
  BY <1>1, <1>2, RemoteSame DEF Called, StoreCall
<1>4. RecordIsTrue(d, mem[d])'
  <2>1. \/ mem'[d] = mem[d]
        \/ /\ mem[d].state # "PUBLISHED"
           /\ mem'[d].state # "PUBLISHED"
           /\ mem'[d].pr = mem[d].pr
    BY <1>2 DEF Called, Grant, Revocable, Unfinished
  <2> QED
    BY <1>3, <2>1, UnpublishedRecord
<1> QED
  BY <1>1, <1>2, <1>3, <1>4, AdminConcludes DEF BrokerInv, LocalTypeOK

LEMMA ExpireStep ==
  ASSUME BrokerInv, NEW d \in Digest, Expire(d)
  PROVE  BrokerInv'
<1>1. Lapse(d) /\ UNCHANGED localVars /\ UNCHANGED remoteVars
  BY DEF Expire
<1>2. UNCHANGED <<mem, disk, gate, acked>> /\ StoreCall(d) /\ WorldGrows
  BY <1>1, QuietCall, RemoteSame DEF BrokerInv, Lapse, store, Called, StoreCall
<1>3. RecordIsTrue(d, mem[d])'
  BY <1>2, UnpublishedRecord
<1> QED
  BY <1>1, <1>2, <1>3, AdminConcludes DEF localVars, BrokerInv, LocalTypeOK

LEMMA LatePushStep ==
  ASSUME BrokerInv, NEW l \in late, LatePush(l)
  PROVE  BrokerInv'
<1>1. PICK d \in Digest, e \in Head : l = <<d, e>>
  BY DEF BrokerInv, RemoteTypeOK
<1>2. Authorized(d, e)
  BY <1>1 DEF BrokerInv, PushesAreAuthorized
<1>3. /\ Swap(d, e) /\ late' \subseteq late \cup {<<d, e>>}
      /\ UNCHANGED <<prs, opened, shown, outside>>
      /\ UNCHANGED storeVars /\ UNCHANGED localVars
  BY <1>1 DEF LatePush
<1>4. WorldGrows /\ (RemoteTypeOK /\ PushesAreAuthorized /\ BranchIsKnown)'
  BY <1>2, <1>3, PushedRemote
<1> QED
  BY <1>3, <1>4, WorldConcludes DEF localVars, BrokerInv, LocalTypeOK

(* Whatever others do to the branch and to the pull requests.              *)
LEMMA OutsideStep ==
  ASSUME BrokerInv, UNCHANGED storeVars, UNCHANGED localVars, UNCHANGED <<late, moves, opened, shown>>,
         RemoteTypeOK', WorldGrows, head' # NoCommit => head' \in landed'
  PROVE  BrokerInv'
<1>1. RemoteTypeOK /\ PushesAreAuthorized /\ BranchIsKnown
  BY DEF BrokerInv
<1>2. PushesAreAuthorized'
  BY <1>1 DEF PushesAreAuthorized, MovesAreAuthorized, Authorized
<1>3. ASSUME NEW d \in Digest, NEW n \in opened[d]
      PROVE  prs'[n] # "unused" /\ (n \in OpenPrs' => n \in OpenPrs)
  <2>1. n \in PrNumber /\ prs[n] # "unused"
    BY <1>1 DEF RemoteTypeOK, BranchIsKnown
  <2> QED
    BY <2>1 DEF WorldGrows, OpenPrs
<1>4. BranchIsKnown'
  BY <1>1, <1>3 DEF BranchIsKnown, OneOpenPrPerGrant
<1> QED
  BY <1>2, <1>4, WorldConcludes DEF localVars, BrokerInv, LocalTypeOK

LEMMA MoveBranchStep ==
  ASSUME BrokerInv, NEW h \in Head, MoveBranch(h)
  PROVE  BrokerInv'
<1>1. RemoteTypeOK' /\ WorldGrows /\ (head' # NoCommit => head' \in landed')
  BY DEF MoveBranch, BrokerInv, RemoteTypeOK, Head, WorldGrows
<1> QED
  BY <1>1, OutsideStep DEF MoveBranch

LEMMA ChangePrStep ==
  ASSUME BrokerInv, NEW n \in PrNumber, NEW s \in PrState, ChangePr(n, s)
  PROVE  BrokerInv'
<1>1. RemoteTypeOK
  BY DEF BrokerInv
<1>2. RemoteTypeOK' /\ WorldGrows
  BY <1>1 DEF ChangePr, RemoteTypeOK, WorldGrows
<1>3. head' # NoCommit => head' \in landed'
  BY HeadIsHead DEF ChangePr
<1> QED
  BY <1>2, <1>3, OutsideStep DEF ChangePr

(* A crash ends every request; the pushes that outlive it were authorized. *)
LEMMA CrashStep ==
  ASSUME BrokerInv, Crash
  PROVE  BrokerInv'
<1> DEFINE orphans == {<<job[c].digest, job[c].expect>> : c \in {x \in Caller : pc[x] = "push"}}
<1>1. IInv /\ LocalTypeOK /\ RemoteTypeOK /\ RecordsAreTrue /\ PushesAreAuthorized
      /\ BranchIsKnown /\ AnswersAreClaimed /\ (\A c \in Caller : JobOK(c))
  BY DEF BrokerInv
<1>2. /\ Restart
      /\ pc' = [c \in Caller |-> "idle"]
      /\ job' = [c \in Caller |-> NewJob(job[c].digest)]
      /\ revoking' = {}
      /\ late' \subseteq late \cup orphans
      /\ UNCHANGED <<answered, head, prs, landed, moves, opened, shown, outside>>
  BY DEF Crash
<1>3. ASSUME NEW l \in orphans
      PROVE  l \in Digest \X Head /\ Authorized(l[1], l[2])
  <2>1. PICK c \in Caller : pc[c] = "push" /\ l = <<job[c].digest, job[c].expect>>
    BY <1>3
  <2>2. job[c].digest \in Digest /\ job[c].expect \in Head
    BY <1>1 DEF LocalTypeOK, Job
  <2>3. Authorized(job[c].digest, job[c].expect)
    BY <1>1, <2>1 DEF JobOK, Pushing
  <2> QED
    BY <2>1, <2>2, <2>3
<1> HIDE DEF orphans
<1>4. IInv' /\ mem' = disk /\ disk' = disk /\ acked' = acked
  BY <1>1, <1>2, RestartIInv DEF Restart
<1>5. LocalTypeOK'
  <2>1. \A c \in Caller : NewJob(job[c].digest) \in Job
    BY <1>1, NewJobIsJob DEF LocalTypeOK, Job
  <2> QED
    BY <1>1, <1>2, <2>1 DEF LocalTypeOK, Location
<1>6. RemoteTypeOK' /\ PushesAreAuthorized'
  BY <1>1, <1>2, <1>3 DEF RemoteTypeOK, PushesAreAuthorized, MovesAreAuthorized, Authorized
<1>7. BranchIsKnown' /\ AnswersAreClaimed' /\ RecordsAreTrue'
  BY <1>1, <1>2, <1>4
  DEF BranchIsKnown, OneOpenPrPerGrant, OpenPrs, AnswersAreClaimed, Claimed,
      RecordsAreTrue, RecordIsTrue
<1>8. \A c \in Caller : JobOK(c)'
  BY <1>2, IdleJob
<1> QED
  BY <1>4, <1>5, <1>6, <1>7, <1>8 DEF BrokerInv

-----------------------------------------------------------------------------
(* What holds of the broker.                                               *)

LEMMA BrokerInitInv ==
  ASSUME BrokerInit
  PROVE  BrokerInv
<1>1. IInv
  BY InitIInv DEF BrokerInit
<1>2. LocalTypeOK
  <2>1. job \in [Caller -> Job]
    <3>1. {NewJob(d) : d \in Digest} \subseteq Job
      BY NewJobIsJob
    <3> QED
      BY <3>1 DEF BrokerInit
  <2> QED
    BY <2>1 DEF BrokerInit, LocalTypeOK, Location
<1>3. RemoteTypeOK
  BY DEF BrokerInit, RemoteTypeOK, Head, PrState
<1>4. \A c \in Caller : JobOK(c)
  BY DEF BrokerInit, JobOK, Begun, Admitted, Pushing, Requesting, Ending, InPhase, PhaseA, PhaseB
<1>5. RecordsAreTrue
  BY DEF BrokerInit, StoreInit, NoGrant, RecordsAreTrue, RecordIsTrue
<1>6. PushesAreAuthorized /\ BranchIsKnown /\ AnswersAreClaimed
  BY DEF BrokerInit, PushesAreAuthorized, MovesAreAuthorized, BranchIsKnown, OneOpenPrPerGrant,
         AnswersAreClaimed
<1> QED
  BY <1>1, <1>2, <1>3, <1>4, <1>5, <1>6 DEF BrokerInv

LEMMA BrokerNextInv ==
  ASSUME BrokerInv, [BrokerNext]_brokerVars
  PROVE  BrokerInv'
<1>1. ASSUME NEW c \in Caller, RequestStep(c)
      PROVE  BrokerInv'
  BY <1>1, VerifyStep, RejectStep, ConvergeStep, ReturnStep, AdmitStep, ObserveStep,
     PushCheckSteps, GitPushStep, RecordStep, PublishStep, HandoverStep, FindPrStep,
     CreatePrStep, UpdatePrStep, BlockInPhaseStep
  DEF RequestStep
<1>2. ASSUME NEW d \in Digest, AnswerRevoke(d)
      PROVE  BrokerInv'
  BY <1>2, RevokeStep
<1>3. CASE Crash
  BY <1>3, CrashStep
<1>4. ASSUME NEW d \in Digest, AdminCreate(d) \/ Expire(d)
      PROVE  BrokerInv'
  BY <1>4, CreateStep, ExpireStep
<1>5. ASSUME NEW d \in Digest, RequestRevoke(d)
      PROVE  BrokerInv'
  BY <1>5, RemoteSame, WorldConcludes DEF RequestRevoke, BrokerInv, LocalTypeOK
<1>6. ASSUME NEW c \in Caller, NEW d \in Digest, Submit(c, d)
      PROVE  BrokerInv'
  BY <1>6, SubmitStep
<1>7. ASSUME NEW l \in late, LatePush(l)
      PROVE  BrokerInv'
  BY <1>7, LatePushStep
<1>8. ASSUME NEW h \in Head, MoveBranch(h)
      PROVE  BrokerInv'
  BY <1>8, MoveBranchStep
<1>9. ASSUME NEW n \in PrNumber, NEW s \in PrState, ChangePr(n, s)
      PROVE  BrokerInv'
  BY <1>9, ChangePrStep
<1>10. CASE UNCHANGED brokerVars
  BY <1>10, RemoteSame, WorldConcludes DEF brokerVars, localVars, BrokerInv, LocalTypeOK
<1> QED
  BY <1>1, <1>2, <1>3, <1>4, <1>5, <1>6, <1>7, <1>8, <1>9, <1>10 DEF BrokerNext, Environment

(* What every request knows of its grant, and what is known of the branch, *)
(* the pull requests and the answers, holds after every step of anybody.   *)
THEOREM BrokerInvariant == BrokerSpec => []BrokerInv
  BY BrokerInitInv, BrokerNextInv, PTL DEF BrokerSpec

(* No request acts for a grant whose gate it lost or that somebody was     *)
(* told is finished, however many requests, revokes and crashes meet.      *)
THEOREM AdmittedPhasesAreLive == BrokerSpec => []AdmittedPhaseIsLive
<1>1. ASSUME BrokerInv
      PROVE  AdmittedPhaseIsLive
  <2> SUFFICES ASSUME NEW c \in Caller, pc[c] \in InPhase
               PROVE  /\ gate[job[c].digest] = c
                      /\ mem[job[c].digest].state = "IN_PROGRESS"
                      /\ acked[job[c].digest] = {}
    BY DEF AdmittedPhaseIsLive
  <2>1. PICK d \in Digest : d = job[c].digest
    BY <1>1 DEF BrokerInv, LocalTypeOK, Job
  <2>2. gate[d] = c /\ mem[d].state = "IN_PROGRESS"
    BY <1>1, <2>1 DEF BrokerInv, JobOK, Admitted
  <2>3. acked[d] = {}
    BY <1>1, <2>2, SavedGrant DEF BrokerInv, Terminal
  <2> QED
    BY <2>1, <2>2, <2>3
<1> QED
  BY <1>1, BrokerInvariant, PTL

(* The broker moves the branch only from where the human authorized it,    *)
(* however late a push lands and whatever others did to the branch.        *)
THEOREM MovesStayAuthorized == BrokerSpec => []MovesAreAuthorized
<1>1. BrokerInv => MovesAreAuthorized
  BY DEF BrokerInv, PushesAreAuthorized
<1> QED
  BY <1>1, BrokerInvariant, PTL

(* A published record is true of the branch and of the pull request GitHub *)
(* last answered with.                                                     *)
THEOREM PublicationsAreTrue == BrokerSpec => []PublishedIsTrue
<1>1. BrokerInv => PublishedIsTrue
  BY DEF BrokerInv, RecordsAreTrue, RecordIsTrue, PublishedIsTrue
<1> QED
  BY <1>1, BrokerInvariant, PTL

(* A final answer given to a client is what the store file says, for ever. *)
THEOREM FinalAnswersAreTrue == BrokerSpec => []AnswersAreTrue
<1>1. ASSUME BrokerInv
      PROVE  AnswersAreTrue
  <2>1. \A d \in Digest : \A s \in acked[d] : disk[d].state = s
    BY <1>1 DEF BrokerInv, IInv, AckedIsDurable
  <2>2. \A d \in Digest : \A a \in answered[d] : Claimed(d, a)
    BY <1>1 DEF BrokerInv, AnswersAreClaimed
  <2> QED
    BY <2>1, <2>2 DEF AnswersAreTrue, Claimed
<1> QED
  BY <1>1, BrokerInvariant, PTL

(* The branches the code comments call unreachable are.                    *)
THEOREM DefensiveCodesUnreachable == BrokerSpec => []DefensiveCodesNeverAnswered
<1>1. BrokerInv => DefensiveCodesNeverAnswered
  BY DEF BrokerInv, AnswersAreClaimed, Claimed, DefensiveCodesNeverAnswered
<1> QED
  BY <1>1, BrokerInvariant, PTL

(* No retry and no concurrent request opens a second pull request while    *)
(* the first the broker opened for the grant is open.                      *)
THEOREM OneOpenPr == BrokerSpec => []OneOpenPrPerGrant
<1>1. BrokerInv => OneOpenPrPerGrant
  BY DEF BrokerInv, BranchIsKnown
<1> QED
  BY <1>1, BrokerInvariant, PTL

-----------------------------------------------------------------------------
(* What it takes to report a published commit as a race.                   *)

(* A step of somebody else, a push that lands late included, does not put  *)
(* the branch on the commit of a grant.                                    *)
NobodyElsePublishes ==
  UNCHANGED localVars /\ head' # head => \A d \in Digest : head' # Target[d]

NoRace(c) ==
  /\ pc[c] = "check" => head # Target[job[c].digest]
  /\ pc[c] = "block" /\ job[c].why = "REMOTE_HEAD_CHANGED" => job[c].obs # Target[job[c].digest]

LEMMA OthersStay ==
  ASSUME LocalTypeOK, NEW c \in Caller, RequestStep(c), NEW x \in Caller \ {c}
  PROVE  pc'[x] = pc[x] /\ job'[x] = job[x]
<1> USE DEF LocalTypeOK, Goes, Goto, Keep, Returns, Finishes, Answers, Blocks
<1>1. CASE Verify(c) \/ Return(c) \/ Observe(c) \/ PushPreCheck(c) \/ GitPush(c) \/ PushPostCheck(c)
           \/ PushReobserve(c) \/ Handover(c)
  BY <1>1 DEF Verify, Return, Observe, PushPreCheck, GitPush, PushPostCheck, PushReobserve, Handover
<1>2. CASE Reject(c)
  BY <1>2 DEF Reject
<1>3. CASE Converge(c) \/ BlockInPhase(c)
  BY <1>3 DEF Converge, BlockInPhase
<1>4. CASE AdmitA(c) \/ AdmitB(c)
  BY <1>4 DEF AdmitA, AdmitB, Admit
<1>5. CASE Record(c) \/ PublishA(c) \/ PublishB(c)
  BY <1>5 DEF Record, PublishA, PublishB, Publish
<1>6. CASE FindPr(c) \/ CreatePr(c) \/ UpdatePr(c)
  BY <1>6 DEF FindPr, CreatePr, UpdatePr, CheckPr, TakePr
<1> QED
  BY <1>1, <1>2, <1>3, <1>4, <1>5, <1>6 DEF RequestStep

(* It comes to the check with a head it saw, which is authorized and so    *)
(* not the target, and stops for a race over a head that is not either.    *)
LEMMA OwnRace ==
  ASSUME BrokerInv, NEW c \in Caller, RequestStep(c), NoRace(c)
  PROVE  NoRace(c)'
<1> USE DEF At
<1>1. LocalTypeOK /\ job[c] \in Job
  BY DEF BrokerInv, LocalTypeOK
<1>2. PICK d \in Digest : d = job[c].digest
  BY <1>1 DEF Job
<1>3. ASSUME pc'[c] \notin {"check", "block"}
      PROVE  NoRace(c)'
  BY <1>3 DEF NoRace
<1>4. ASSUME NEW why, NEW obs, Blocks(c, "block", why, obs),
             why = "REMOTE_HEAD_CHANGED" => obs # Target[d]
      PROVE  NoRace(c)'
  <2>1. PICK j : j = [job[c] EXCEPT !.why = why, !.obs = obs]
    OBVIOUS
  <2>2. j.digest = d /\ j.why = why /\ j.obs = obs
    BY <1>1, <1>2, <2>1 DEF Job
  <2>3. job'[c] = j /\ pc'[c] = "block"
    BY <1>1, <1>4, <2>1 DEF Blocks, Goto, LocalTypeOK
  <2> QED
    BY <1>4, <2>2, <2>3 DEF NoRace
<1>5. ASSUME NEW p, Goto(c, p), p \notin {"check", "block"}
      PROVE  NoRace(c)'
  BY <1>1, <1>3, <1>5 DEF Goto, LocalTypeOK
<1>6. CASE Observe(c)
  <2>1. CASE Returns(c, "TRANSIENT") \/ Goes(c, "record")
    BY <1>5, <2>1 DEF Returns, Goes
  <2>2. CASE /\ head = Predecessor[d] \/ head = NoCommit
             /\ Goto(c, "check") /\ job' = [job EXCEPT ![c].expect = head]
    <3>1. job'[c].digest = d /\ pc'[c] = "check" /\ head' = head
      BY <1>1, <1>2, <1>6, <2>2 DEF Goto, LocalTypeOK, Job, Observe, remoteVars
    <3>2. head # Target[d]
      BY <2>2, BrokerAssumption, StoreAssumption
    <3> QED
      BY <3>1, <3>2 DEF NoRace
  <2>3. CASE head # Target[d] /\ Blocks(c, "block", "REMOTE_HEAD_CHANGED", head)
    BY <1>4, <2>3
  <2> QED
    BY <1>2, <1>6, <2>1, <2>2, <2>3 DEF Observe
<1>7. CASE PushPreCheck(c) \/ PushReobserve(c)
  <2>1. CASE Returns(c, "TRANSIENT") \/ Goes(c, "record") \/ Goes(c, "push")
    BY <1>5, <2>1 DEF Returns, Goes
  <2>2. CASE head # Target[d] /\ Blocks(c, "block", "REMOTE_HEAD_CHANGED", head)
    BY <1>4, <2>2
  <2> QED
    BY <1>2, <1>7, <2>1, <2>2 DEF PushPreCheck, PushReobserve, NoRace
<1>8. CASE FindPr(c) \/ CreatePr(c) \/ UpdatePr(c)
  <2>1. ASSUME NEW why \in {"AMBIGUOUS_PR", "PR_BASE_MISMATCH", "PR_STATE_MISMATCH"},
               Blocks(c, "block", why, NoCommit)
        PROVE  NoRace(c)'
    BY <1>4, <2>1
  <2>2. ASSUME NEW p \in {"create", "update", "publishB", "return"}, Goto(c, p)
        PROVE  NoRace(c)'
    BY <1>5, <2>2
  <2>3. ASSUME NEW n, NEW s, CheckPr(c, n, s)
        PROVE  NoRace(c)'
    BY <2>1, <2>2, <2>3 DEF CheckPr, TakePr
  <2>4. ASSUME NEW code, Returns(c, code)
        PROVE  NoRace(c)'
    BY <2>2, <2>4 DEF Returns
  <2>5. CASE FindPr(c)
    BY <2>1, <2>2, <2>4, <2>5 DEF FindPr, TakePr, Goes
  <2>6. CASE CreatePr(c)
    BY <2>3, <2>4, <2>6 DEF CreatePr
  <2>7. CASE UpdatePr(c)
    BY <2>3, <2>4, <2>7 DEF UpdatePr
  <2> QED
    BY <1>8, <2>5, <2>6, <2>7
<1>9. CASE Verify(c) \/ Return(c) \/ GitPush(c) \/ PushPostCheck(c) \/ Handover(c)
  <2>1. \E p : Goto(c, p) /\ p \notin {"check", "block"}
    BY <1>9 DEF Verify, Return, GitPush, PushPostCheck, Handover, Goes, Returns, Finishes, Answers, Blocks
  <2> QED
    BY <1>5, <2>1
<1>10. CASE Reject(c) \/ Converge(c) \/ AdmitA(c) \/ AdmitB(c) \/ BlockInPhase(c)
  <2>1. \E p : Goto(c, p) /\ p \notin {"check", "block"}
    BY <1>10 DEF Reject, Converge, AdmitA, AdmitB, Admit, BlockInPhase, Goes, Returns, Finishes, Answers
  <2> QED
    BY <1>5, <2>1
<1>11. CASE Record(c) \/ PublishA(c) \/ PublishB(c)
  <2>1. \E p : Goto(c, p) /\ p \notin {"check", "block"}
    BY <1>11 DEF Record, PublishA, PublishB, Publish, Goes, Returns
  <2> QED
    BY <1>5, <2>1
<1> QED
  BY <1>6, <1>7, <1>8, <1>9, <1>10, <1>11 DEF RequestStep

(* The gate keeps out every other request for the same commit.             *)
LEMMA OthersRace ==
  ASSUME BrokerInv, \A d, e \in Digest : Target[d] = Target[e] => d = e,
         NEW c \in Caller, RequestStep(c), NEW x \in Caller \ {c}, NoRace(x)
  PROVE  NoRace(x)'
<1>1. pc'[x] = pc[x] /\ job'[x] = job[x]
  BY OthersStay DEF BrokerInv
<1>2. CASE head' = head
  BY <1>1, <1>2 DEF NoRace
<1>3. CASE GitPush(c)
  <2>1. PICK d \in Digest, e \in Digest : d = job[c].digest /\ e = job[x].digest
    BY DEF BrokerInv, LocalTypeOK, Job
  <2>2. head' = head \/ head' = Target[d]
    BY <1>3, <2>1 DEF GitPush, Swap
  <2>3. pc[c] = "push" /\ gate[d] = c
    BY <1>3, <2>1 DEF GitPush, At, BrokerInv, JobOK, Admitted, InPhase, PhaseA
  <2>4. pc[x] = "check" => gate[e] = x
    BY <2>1 DEF BrokerInv, JobOK, Admitted, InPhase, PhaseA
  <2>5. pc[x] = "check" => Target[d] # Target[e]
    BY <2>1, <2>3, <2>4
  <2> QED
    BY <1>1, <2>1, <2>2, <2>5 DEF NoRace
<1>4. GitPush(c) \/ head' = head
  BY DEF RequestStep, Verify, Reject, Converge, Return, AdmitA, Admit, Observe, PushPreCheck,
         PushPostCheck, PushReobserve, Record, PublishA, Publish, Handover, AdmitB, FindPr, CreatePr,
         UpdatePr, PublishB, BlockInPhase, remoteVars
<1> QED
  BY <1>2, <1>3, <1>4

LEMMA NoRaceNext ==
  ASSUME BrokerInv, \A d, e \in Digest : Target[d] = Target[e] => d = e,
         \A c \in Caller : NoRace(c), [BrokerNext]_brokerVars, [NobodyElsePublishes]_brokerVars
  PROVE  \A c \in Caller : NoRace(c)'
<1>1. ASSUME NEW c \in Caller, RequestStep(c)
      PROVE  \A x \in Caller : NoRace(x)'
  BY <1>1, OwnRace, OthersRace
<1>2. CASE UNCHANGED brokerVars
  BY <1>2 DEF brokerVars, localVars, remoteVars, NoRace
<1>3. ASSUME NobodyElsePublishes, UNCHANGED localVars
      PROVE  \A c \in Caller : NoRace(c)'
  <2>1. \A c \in Caller : job[c].digest \in Digest
    BY DEF BrokerInv, LocalTypeOK, Job
  <2> QED
    BY <1>3, <2>1 DEF NobodyElsePublishes, localVars, NoRace
<1>4. CASE NobodyElsePublishes /\ Crash
  BY <1>4 DEF Crash, NoRace
<1>5. ASSUME NEW d \in Digest, AnswerRevoke(d) \/ AdminCreate(d) \/ RequestRevoke(d) \/ Expire(d)
      PROVE  \A c \in Caller : NoRace(c)'
  BY <1>5 DEF AnswerRevoke, AdminCreate, RequestRevoke, Expire, localVars, remoteVars, NoRace
<1>6. ASSUME NEW c \in Caller, NEW d \in Digest, Submit(c, d)
      PROVE  \A x \in Caller : NoRace(x)'
  <2>1. \E p \in {"rejecting", "checking", "idle"} : pc' = [pc EXCEPT ![c] = p]
    BY <1>6 DEF Submit, Goto, Answers
  <2>2. head' = head /\ \E j : job' = [job EXCEPT ![c] = j]
    BY <1>6 DEF Submit, remoteVars
  <2> QED
    BY <2>1, <2>2 DEF NoRace, BrokerInv, LocalTypeOK
<1>7. ASSUME NobodyElsePublishes,
             \/ \E l \in late : LatePush(l)
             \/ \E h \in Head : MoveBranch(h)
             \/ \E n \in PrNumber, s \in PrState : ChangePr(n, s)
      PROVE  \A c \in Caller : NoRace(c)'
  BY <1>3, <1>7 DEF LatePush, MoveBranch, ChangePr
<1> QED
  BY <1>1, <1>2, <1>4, <1>5, <1>6, <1>7 DEF BrokerNext, Environment

(* A grant whose commit is on the branch is blocked as a push race only if *)
(* somebody else puts the branch on that commit, as a push does that was   *)
(* cut off and lands late.  Whatever else fails, crashes or interferes, a  *)
(* published commit is not reported as a race.  Where two grants are for   *)
(* one commit, each is such a somebody to the other.                       *)
THEOREM OnlyOthersMakeARace ==
  ASSUME \A d, e \in Digest : Target[d] = Target[e] => d = e
  PROVE  BrokerSpec /\ [][NobodyElsePublishes]_brokerVars => []PublishedIsNotARace
<1> DEFINE Inv == \A c \in Caller : NoRace(c)
<1>1. BrokerInit => Inv
  BY DEF BrokerInit, NoRace
<1>2. BrokerInv /\ Inv /\ [BrokerNext]_brokerVars /\ [NobodyElsePublishes]_brokerVars => Inv'
  BY NoRaceNext
<1>3. Inv => PublishedIsNotARace
  BY DEF NoRace, PublishedIsNotARace
<1> QED
  BY <1>1, <1>2, <1>3, BrokerInvariant, PTL DEF BrokerSpec

-----------------------------------------------------------------------------
(* The broker uses the store as its specification lets callers.            *)

LEMMA RequestUsesStore ==
  ASSUME BrokerInv, NEW c \in Caller, RequestStep(c)
  PROVE  [StoreNext]_storeVars
<1>1. PICK d \in Digest : d = job[c].digest
  BY DEF BrokerInv, LocalTypeOK, Job
<1>2. JobOK(c) /\ job[c].pr \in PrNumber \cup {NoPr} /\ Target[d] \in Commit
  BY BrokerAssumption DEF BrokerInv, LocalTypeOK, Job
<1>3. CASE \/ Verify(c) \/ Observe(c) \/ PushPreCheck(c) \/ GitPush(c) \/ PushPostCheck(c)
           \/ PushReobserve(c) \/ FindPr(c) \/ CreatePr(c) \/ UpdatePr(c)
  BY <1>3 DEF Verify, Observe, PushPreCheck, GitPush, PushPostCheck, PushReobserve,
     FindPr, CreatePr, UpdatePr
<1>4. CASE Reject(c) \/ BlockInPhase(c)
  <2>1. job[c].why \in Reason
    BY <1>2, <1>4, BrokerAssumption DEF Reject, BlockInPhase, At, JobOK, Ending
  <2>2. ClientCall(d) \/ PhaseCall(c, d)
    BY <1>1, <1>4, <2>1 DEF Reject, BlockInPhase, ClientCall, PhaseCall
  <2> QED
    BY <2>2 DEF StoreNext
<1>5. CASE Converge(c) \/ AdmitA(c) \/ AdmitB(c)
  <2>1. PhaseCall(c, d)
    BY <1>1, <1>5 DEF Converge, AdmitA, AdmitB, Admit, PhaseCall
  <2> QED
    BY <2>1 DEF StoreNext
<1>6. CASE Return(c) \/ Handover(c)
  <2>1. PhaseCall(c, d)
    BY <1>1, <1>6 DEF Return, Handover, PhaseCall
  <2> QED
    BY <2>1 DEF StoreNext
<1>7. CASE Record(c) \/ PublishA(c) \/ PublishB(c)
  <2>1. ClientCall(d)
    BY <1>1, <1>2, <1>7 DEF Record, PublishA, PublishB, Publish, ClientCall
  <2> QED
    BY <2>1 DEF StoreNext
<1> QED
  BY <1>3, <1>4, <1>5, <1>6, <1>7 DEF RequestStep

(* Every behaviour of the broker is one of the store, so all that is       *)
(* proved of the store for arbitrary callers holds of it in the broker.    *)
THEOREM BrokerUsesStore == BrokerSpec => StoreSpec
<1>1. BrokerInit => StoreInit
  BY DEF BrokerInit
<1>2. ASSUME BrokerInv, [BrokerNext]_brokerVars
      PROVE  [StoreNext]_storeVars
  <2>1. ASSUME NEW c \in Caller, RequestStep(c)
        PROVE  [StoreNext]_storeVars
    BY <1>2, <2>1, RequestUsesStore
  <2>2. CASE Crash
    BY <2>2 DEF Crash, StoreNext
  <2>3. ASSUME NEW d \in Digest, AdminCreate(d) \/ AnswerRevoke(d) \/ Expire(d)
        PROVE  [StoreNext]_storeVars
    BY <2>3 DEF AdminCreate, AnswerRevoke, Expire, StoreNext, AdminCall
  <2>4. ASSUME NEW d \in Digest, NEW c \in Caller, Submit(c, d)
        PROVE  [StoreNext]_storeVars
    BY <2>4 DEF Submit, StoreNext, ClientCall
  <2>5. CASE \/ \E d \in Digest : RequestRevoke(d)
             \/ \E l \in late : LatePush(l)
             \/ \E h \in Head : MoveBranch(h)
             \/ \E n \in PrNumber, s \in PrState : ChangePr(n, s)
             \/ UNCHANGED brokerVars
    BY <2>5 DEF RequestRevoke, LatePush, MoveBranch, ChangePr, brokerVars
  <2> QED
    BY <1>2, <2>1, <2>2, <2>3, <2>4, <2>5 DEF BrokerNext, Environment
<1> QED
  BY <1>1, <1>2, BrokerInvariant, PTL DEF BrokerSpec, StoreSpec

(* The grants the broker serves move along the lifecycle the abstract      *)
(* specification promises.                                                 *)
THEOREM BrokerImplementsLifecycle == BrokerSpec => LifecycleSpec
  BY BrokerUsesStore, StoreImplementsLifecycle

(* In the broker too a terminal record is never overwritten.               *)
THEOREM BrokerKeepsTerminal == BrokerSpec => TerminalIsFinal
  BY BrokerUsesStore, TerminalStaysFinal
=============================================================================
