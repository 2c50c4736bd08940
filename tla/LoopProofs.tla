------------------------------ MODULE LoopProofs ------------------------------
(***************************************************************************)
(* Proofs about the way from a decision to its execution, for every set of *)
(* requests, configurations, tasks and loops: that a decision was carried, *)
(* is proved by its own votes alone, is executed once, and is not used up  *)
(* in silence.                                                             *)
(*                                                                         *)
(* The council is a value that grows: what a session holds follows from    *)
(* the state it is in, and a session with a record does not change again.  *)
(* The loops meet only in the ledger, which lets the first of them through.*)
(***************************************************************************)
EXTENDS AuthorizationLoop, FiniteSetTheorems, TLAPS

USE CouncilAssumption

Deciding == {"R1", "R2", "R3"}

-----------------------------------------------------------------------------
(* Seats.                                                                  *)

LEMMA SeatsAreThree ==
  ASSUME NEW k, ValidConfig(k)
  PROVE  /\ IsFiniteSet(SeatIds(k)) /\ Cardinality(SeatIds(k)) = 3
         /\ \A r \in Request : Proposer(r, k) \in SeatIds(k)
<1>1. SeatIds(k) = {k.seats[1].id, k.seats[2].id, k.seats[3].id}
  BY DEF SeatIds
<1>2. IsFiniteSet({k.seats[1].id, k.seats[2].id, k.seats[3].id})
  <2>1. IsFiniteSet({k.seats[1].id})
    BY FS_Singleton
  <2>2. IsFiniteSet({k.seats[1].id} \cup {k.seats[2].id})
    BY <2>1, FS_AddElement
  <2>3. IsFiniteSet(({k.seats[1].id} \cup {k.seats[2].id}) \cup {k.seats[3].id})
    BY <2>2, FS_AddElement
  <2>4. ({k.seats[1].id} \cup {k.seats[2].id}) \cup {k.seats[3].id}
          = {k.seats[1].id, k.seats[2].id, k.seats[3].id}
    OBVIOUS
  <2> QED
    BY <2>3, <2>4
<1>3. ASSUME NEW r \in Request
      PROVE  Proposer(r, k) \in SeatIds(k)
  <2>1. (r.rotation % 3) + 1 \in 1 .. 3
    <3>1. r.rotation \in Nat
      OBVIOUS
    <3> QED
      BY <3>1
  <2> QED
    BY <2>1 DEF Proposer, SeatIds
<1> QED
  BY <1>1, <1>2, <1>3 DEF ValidConfig

(* Different families among the seats are counted as two.                  *)
LEMMA TwoFamilies ==
  ASSUME NEW k, NEW seats, IsFiniteSet(Families(k, seats)), Cardinality(Families(k, seats)) >= 2
  PROVE  \E s, t \in seats : SeatOf(k, s).family # SeatOf(k, t).family
<1>1. seats # {}
  <2>1. Families(k, {}) = {}
    BY DEF Families
  <2> QED
    BY <2>1, FS_EmptySet
<1>2. PICK s \in seats : TRUE
  BY <1>1
<1>3. ~(Families(k, seats) \subseteq {SeatOf(k, s).family})
  <2>1. SeatOf(k, s).family \in Families(k, seats)
    BY DEF Families
  <2>2. Families(k, seats) # {SeatOf(k, s).family}
    BY FS_Singleton
  <2> QED
    BY <2>1, <2>2
<1>4. PICK t \in seats : SeatOf(k, t).family # SeatOf(k, s).family
  BY <1>3 DEF Families
<1> QED
  BY <1>4

LEMMA FamiliesFinite ==
  ASSUME NEW k, NEW seats, IsFiniteSet(seats)
  PROVE  IsFiniteSet(Families(k, seats))
<1> DEFINE f == [s \in seats |-> SeatOf(k, s).family]
<1>1. f \in Surjection(seats, Families(k, seats))
  BY DEF Surjection, Families
<1> QED
  BY <1>1, FS_Surjection

(* A quorum that is met is a decision that was carried, for each rule.     *)
LEMMA MetIsCarried ==
  ASSUME NEW r \in Request, r.risk \in Deciding, NEW k, ValidConfig(k),
         NEW votes, DOMAIN votes \subseteq SeatIds(k), Quorum(r, k, votes).met
  PROVE  Carried(r, k, votes)
<1> DEFINE yes == Approving(votes)
<1>1. /\ IsFiniteSet(SeatIds(k)) /\ Cardinality(SeatIds(k)) = 3
      /\ Proposer(r, k) \in SeatIds(k) /\ yes \subseteq SeatIds(k)
  BY SeatsAreThree DEF Approving
<1>2. IsFiniteSet(yes) /\ Cardinality(yes) \in Nat /\ (Cardinality(yes) = 3 => yes = SeatIds(k))
  BY <1>1, FS_Subset, FS_CardinalityType
<1> HIDE DEF yes
<1>3. CASE r.risk = "R1"
  <2>1. Cardinality(Families(k, yes)) \in Nat /\ IsFiniteSet(Families(k, yes))
    BY <1>2, FamiliesFinite, FS_CardinalityType
  <2>2. Quorum(r, k, votes) = QuorumR1(k, votes)
    BY <1>3 DEF Quorum
  <2>3. ~(Cardinality(Families(k, yes)) < 2)
    BY <2>2 DEF QuorumR1, Counted, Diverse, yes
  <2>4. \E s, t \in yes : SeatOf(k, s).family # SeatOf(k, t).family
    BY <2>1, <2>3, TwoFamilies
  <2> QED
    BY <1>3, <2>4 DEF Carried, yes
<1>4. CASE r.risk = "R2"
  <2>1. Quorum(r, k, votes) = QuorumR2(r, k, votes)
    BY <1>4 DEF Quorum
  <2>2. SeatIds(k) \ {Proposer(r, k)} \subseteq yes
    BY <2>1 DEF QuorumR2, Counted, yes
  <2>3. yes \cup {Proposer(r, k)} = SeatIds(k)
    BY <1>1, <2>2
  <2> QED
    BY <1>4, <2>3 DEF Carried, yes
<1>5. CASE r.risk = "R3"
  <2>1. Quorum(r, k, votes) = QuorumR3(votes)
    BY <1>5 DEF Quorum
  <2>2. Cardinality(yes) = 3
    BY <2>1 DEF QuorumR3, Counted, yes
  <2> QED
    BY <1>2, <1>5, <2>2 DEF Carried, yes
<1> QED
  BY <1>3, <1>4, <1>5 DEF Deciding

-----------------------------------------------------------------------------
(* What a session holds in each of its states.                             *)

Ended == {"DECIDED", "NO_QUORUM"}
Immediately == {"COUNCIL_NOT_REQUIRED", "DENIED"}

SessionShape(s) ==
  s = [state |-> s.state, config |-> s.config, commitment |-> s.commitment,
       proposal |-> s.proposal, candidate |-> s.candidate, votes |-> s.votes,
       record |-> s.record]

VotesOK(s) ==
  /\ DOMAIN s.votes \subseteq SeatIds(s.config)
  /\ s.votes = [i \in DOMAIN s.votes |-> s.votes[i]]
  /\ \A i \in DOMAIN s.votes : s.votes[i] \in VoteValue

(* A candidate is what its proposer was committed to, a record what the    *)
(* votes of the session count to.                                          *)
SessionOK(r, s) ==
  /\ SessionShape(s)
  /\ s.state \in Working \cup Terminal
  /\ s.config \in Config /\ ValidConfig(s.config) /\ r.epoch = s.config.epoch
  /\ VotesOK(s)
  /\ s.state \in {"COMMITMENT_COLLECTION", "PROPOSAL_REVEAL"} => s.commitment \in Content
  /\ s.state = "PROPOSAL_REVEAL" => s.proposal = s.commitment
  /\ s.state \in {"CANDIDATE_FROZEN", "VOTING"} \cup Ended =>
       s.commitment \in Content /\ s.candidate = Candidate(r, s.config, s.commitment)
  /\ s.state \in Working \cup Ended => r.risk \in Deciding
  /\ s.state \in Working => s.record = None
  /\ s.state \in Ended =>
       LET q == Quorum(r, s.config, s.votes)
       IN  /\ s.state = IF q.met THEN "DECIDED" ELSE "NO_QUORUM"
           /\ s.record = Record(r, s.config, s.candidate, s.votes, s.state, Disposed(r, q), q)
  /\ s.state \in Immediately =>
       /\ r.risk \notin Deciding
       /\ s.record = Record(r, s.config, None, <<>>, Immediate(r), Immediate(r),
                            Counted(FALSE, Immediate(r), 0))

CouncilInv ==
  /\ sessions = [r \in Request |-> sessions[r]]
  /\ \A r \in Request : sessions[r] = None \/ SessionOK(r, sessions[r])

(* One session is replaced by one that is as it should be.                 *)
LEMMA EnterKeeps ==
  ASSUME CouncilInv, NEW r \in Request, NEW s, SessionOK(r, s), Enter(r, s)
  PROVE  /\ CouncilInv' /\ sessions'[r] = s
         /\ \A q \in Request \ {r} : sessions'[q] = sessions[q]
<1>1. sessions' = [sessions EXCEPT ![r] = s]
  BY DEF Enter
<1>2. /\ sessions'[r] = s /\ \A q \in Request \ {r} : sessions'[q] = sessions[q]
      /\ sessions' = [q \in Request |-> sessions'[q]]
  BY <1>1 DEF CouncilInv
<1>4. ASSUME NEW q \in Request
      PROVE  sessions'[q] = None \/ SessionOK(q, sessions'[q])
  BY <1>2, <1>4 DEF CouncilInv
<1> QED
  BY <1>2, <1>4 DEF CouncilInv

LEMMA CreateSessionOK ==
  ASSUME NEW r \in Request, NEW k \in Config, Admissible(r, k), NEW s,
         s = IF Immediate(r) = "CREATED" THEN NewSession(k, Immediate(r))
             ELSE [NewSession(k, Immediate(r)) EXCEPT
                     !.record = Record(r, k, None, <<>>, Immediate(r), Immediate(r),
                                       Counted(FALSE, Immediate(r), 0))]
  PROVE  SessionOK(r, s)
<1>1. ValidConfig(k) /\ r.epoch = k.epoch /\ r.risk \in {"R0", "R1", "R2", "R3", "R4"}
  BY DEF Admissible
<1>2. PICK record : record = Record(r, k, None, <<>>, Immediate(r), Immediate(r),
                                    Counted(FALSE, Immediate(r), 0))
  OBVIOUS
<1>3. /\ r.risk = "R0" => Immediate(r) = "COUNCIL_NOT_REQUIRED"
      /\ r.risk = "R4" => Immediate(r) = "DENIED"
      /\ r.risk \in Deciding => Immediate(r) = "CREATED"
  BY DEF Immediate, Deciding
<1>4. /\ SessionShape(s) /\ s.state = Immediate(r) /\ s.config = k /\ s.votes = <<>>
      /\ Immediate(r) = "CREATED" => s.record = None
      /\ Immediate(r) # "CREATED" => s.record = record
  BY <1>2 DEF NewSession, SessionShape
<1>5. VotesOK(s)
  BY <1>4 DEF VotesOK
<1> QED
  BY <1>1, <1>2, <1>3, <1>4, <1>5
  DEF SessionOK, Deciding, Working, Terminal, Ended, Immediately

(* A session that changes is a new one, or one without a record.           *)
DecisionsStand == \A q \in Decided : q \in Decided' /\ sessions'[q] = sessions[q]

LEMMA EnterStands ==
  ASSUME CouncilInv, NEW r \in Request, NEW s, SessionOK(r, s), Enter(r, s),
         sessions[r] = None \/ sessions[r].record = None
  PROVE  CouncilInv' /\ DecisionsStand
<1>1. CouncilInv' /\ \A q \in Request \ {r} : sessions'[q] = sessions[q]
  BY EnterKeeps
<1>2. r \notin Decided
  BY DEF Decided
<1> QED
  BY <1>1, <1>2 DEF DecisionsStand, Decided

LEMMA CouncilEventKeeps ==
  ASSUME CouncilInv, NEW r \in Request, sessions[r] # None, sessions[r].state \in Working,
         CouncilEvent(r)
  PROVE  CouncilInv' /\ DecisionsStand
<1>0. PICK s : s = sessions[r]
  OBVIOUS
<1>1. SessionOK(r, s) /\ s.record = None /\ r.risk \in Deciding /\ s.state \in Working
  BY <1>0 DEF CouncilInv, SessionOK
<1>2. ASSUME NEW a \in Artifact, NEW c \in Content, SubmitCommitment(r, a, c)
      PROVE  CouncilInv' /\ DecisionsStand
  <2>1. PICK n : n = [s EXCEPT !.state = "COMMITMENT_COLLECTION", !.commitment = c]
    OBVIOUS
  <2>2. Enter(r, n)
    BY <1>0, <1>2, <2>1 DEF SubmitCommitment
  <2>3. /\ SessionShape(n) /\ n.state = "COMMITMENT_COLLECTION" /\ n.config = s.config
        /\ n.votes = s.votes /\ n.record = s.record /\ n.commitment = c
    BY <1>1, <2>1 DEF SessionOK, SessionShape
  <2>4. SessionOK(r, n)
    BY <1>1, <2>3 DEF SessionOK, VotesOK, Working, Terminal, Ended, Immediately
  <2> QED
    BY <1>0, <1>1, <2>2, <2>4, EnterStands
<1>3. ASSUME NEW a \in Artifact, NEW c \in Content, RevealProposal(r, a, c)
      PROVE  CouncilInv' /\ DecisionsStand
  <2>1. PICK n : n = [s EXCEPT !.state = "PROPOSAL_REVEAL", !.proposal = c]
    OBVIOUS
  <2>2. Enter(r, n) /\ c = s.commitment /\ s.state = "COMMITMENT_COLLECTION"
    BY <1>0, <1>3, <2>1 DEF RevealProposal, In
  <2>3. /\ SessionShape(n) /\ n.state = "PROPOSAL_REVEAL" /\ n.config = s.config
        /\ n.votes = s.votes /\ n.record = s.record
        /\ n.commitment = s.commitment /\ n.proposal = c
    BY <1>1, <2>1 DEF SessionOK, SessionShape
  <2>4. SessionOK(r, n)
    BY <1>1, <2>2, <2>3 DEF SessionOK, VotesOK, Working, Terminal, Ended, Immediately
  <2> QED
    BY <1>0, <1>1, <2>2, <2>4, EnterStands
<1>4. ASSUME FreezeCandidate(r)
      PROVE  CouncilInv' /\ DecisionsStand
  <2>1. PICK n : n = [s EXCEPT !.state = "CANDIDATE_FROZEN",
                               !.candidate = Candidate(r, s.config, s.proposal)]
    OBVIOUS
  <2>2. Enter(r, n) /\ s.state = "PROPOSAL_REVEAL"
    BY <1>0, <1>4, <2>1 DEF FreezeCandidate, In
  <2>3. /\ SessionShape(n) /\ n.state = "CANDIDATE_FROZEN" /\ n.config = s.config
        /\ n.votes = s.votes /\ n.record = s.record /\ n.commitment = s.commitment
        /\ n.candidate = Candidate(r, s.config, s.proposal)
    BY <1>1, <2>1 DEF SessionOK, SessionShape
  <2>4. SessionOK(r, n)
    BY <1>1, <2>2, <2>3 DEF SessionOK, VotesOK, Working, Terminal, Ended, Immediately
  <2> QED
    BY <1>0, <1>1, <2>2, <2>4, EnterStands
<1>5. ASSUME NEW a \in Artifact, NEW d, NEW v \in VoteValue, CastVote(r, a, d, v)
      PROVE  CouncilInv' /\ DecisionsStand
  <2>1. PICK votes : votes = With(s.votes, a.seat, v)
    OBVIOUS
  <2>2. PICK n : n = [s EXCEPT !.state = "VOTING", !.votes = votes]
    OBVIOUS
  <2>3. /\ Enter(r, n) /\ s.state \in {"CANDIDATE_FROZEN", "VOTING"}
        /\ a.seat \in SeatIds(s.config)
    <3>1. [sessions[r] EXCEPT !.state = "VOTING", !.votes = With(@, a.seat, v)] = n
      BY <1>0, <1>1, <2>1, <2>2 DEF SessionOK, SessionShape
    <3> QED
      BY <1>0, <1>5, <3>1 DEF CastVote, In
  <2>4. /\ SessionShape(n) /\ n.state = "VOTING" /\ n.config = s.config
        /\ n.votes = votes /\ n.record = s.record /\ n.commitment = s.commitment
        /\ n.candidate = s.candidate
    BY <1>1, <2>2 DEF SessionOK, SessionShape
  <2>5. VotesOK(n)
    <3>1. DOMAIN votes = DOMAIN s.votes \cup {a.seat}
      BY <2>1 DEF With
    <3>2. votes = [i \in DOMAIN votes |-> votes[i]]
      BY <2>1 DEF With
    <3>3. \A i \in DOMAIN votes : votes[i] \in VoteValue
      BY <1>1, <2>1 DEF With, SessionOK, VotesOK
    <3> QED
      BY <1>1, <2>3, <2>4, <3>1, <3>2, <3>3 DEF SessionOK, VotesOK
  <2>6. SessionOK(r, n)
    BY <1>1, <2>3, <2>4, <2>5 DEF SessionOK, Working, Terminal, Ended, Immediately
  <2> QED
    BY <1>0, <1>1, <2>3, <2>6, EnterStands
<1>6. ASSUME Finalize(r)
      PROVE  CouncilInv' /\ DecisionsStand
  <2>1. PICK q : q = Quorum(r, s.config, s.votes)
    OBVIOUS
  <2>2. PICK state \in Ended : state = IF q.met THEN "DECIDED" ELSE "NO_QUORUM"
    BY DEF Ended
  <2>3. PICK record : record = Record(r, s.config, s.candidate, s.votes, state, Disposed(r, q), q)
    OBVIOUS
  <2>4. PICK n : n = [s EXCEPT !.state = state, !.record = record]
    OBVIOUS
  <2>5. Enter(r, n) /\ s.state = "VOTING"
    BY <1>0, <1>6, <2>1, <2>2, <2>3, <2>4, Zenon DEF Finalize, In
  <2>6. /\ SessionShape(n) /\ n.state = state /\ n.config = s.config
        /\ n.votes = s.votes /\ n.record = record /\ n.commitment = s.commitment
        /\ n.candidate = s.candidate
    BY <1>1, <2>4 DEF SessionOK, SessionShape
  <2>7. SessionOK(r, n)
    BY <1>1, <2>1, <2>2, <2>3, <2>5, <2>6
    DEF SessionOK, VotesOK, Working, Terminal, Ended, Immediately
  <2> QED
    BY <1>0, <1>1, <2>5, <2>7, EnterStands
<1> QED
  BY <1>2, <1>3, <1>4, <1>5, <1>6 DEF CouncilEvent

LEMMA CouncilStepKeeps ==
  ASSUME CouncilInv, NEW r \in Request, CouncilStep(r)
  PROVE  CouncilInv' /\ DecisionsStand
<1>1. ASSUME NEW k \in Config, CreateSession(r, k)
      PROVE  CouncilInv' /\ DecisionsStand
  <2>1. PICK s : s = IF Immediate(r) = "CREATED" THEN NewSession(k, Immediate(r))
                     ELSE [NewSession(k, Immediate(r)) EXCEPT
                             !.record = Record(r, k, None, <<>>, Immediate(r), Immediate(r),
                                               Counted(FALSE, Immediate(r), 0))]
    OBVIOUS
  <2>2. Enter(r, s) /\ sessions[r] = None /\ Admissible(r, k)
    BY <1>1, <2>1 DEF CreateSession
  <2>3. SessionOK(r, s)
    BY <2>1, <2>2, CreateSessionOK
  <2> QED
    BY <2>2, <2>3, EnterStands
<1> QED
  BY <1>1, CouncilEventKeeps DEF CouncilStep

LEMMA CouncilInitInv ==
  ASSUME CouncilInit
  PROVE  CouncilInv
BY DEF CouncilInit, CouncilInv

(* Nothing but the council touches the sessions.                           *)
LEMMA CouncilStays ==
  ASSUME CouncilInv, UNCHANGED sessions
  PROVE  CouncilInv' /\ DecisionsStand
BY DEF CouncilInv, DecisionsStand, Decided

-----------------------------------------------------------------------------
(* What the ledger derives an envelope from was carried.                   *)

CarriedBy(r) ==
  /\ ~LedgerTask(r).blocked /\ r.risk # "R4"
  /\ r.risk # "R0" =>
       /\ sessions[r].config = Trusted[r.epoch]
       /\ Carried(r, sessions[r].config, sessions[r].votes)
       /\ sessions[r].candidate.content = sessions[r].commitment

LEMMA DecidedOK ==
  ASSUME CouncilInv, NEW r \in Decided
  PROVE  /\ r \in Request /\ SessionOK(r, sessions[r])
         /\ sessions[r].state \in Ended \/ sessions[r].state \in Immediately
BY DEF CouncilInv, Decided, SessionOK, Working, Terminal, Ended, Immediately

LEMMA DerivableIsCarried ==
  ASSUME CouncilInv, NEW r \in Decided, Derivable(r)
  PROVE  CarriedBy(r)
<1>1. PICK s : s = sessions[r]
  OBVIOUS
<1>2. r \in Request /\ SessionOK(r, s) /\ (s.state \in Ended \/ s.state \in Immediately)
  BY <1>1, DecidedOK
<1>3. /\ ~LedgerTask(r).blocked
      /\ s.record.disposition \notin {"DENIED", "NO_QUORUM"}
      /\ s.record.risk \in Deciding => Eligible(OwnProof(r), s.record)
  BY <1>1 DEF Derivable, Enveloped, Deciding
<1>4. CASE s.state \in Immediately
  <2>1. r.risk \notin Deciding /\ s.record.disposition = Immediate(r)
    BY <1>2, <1>4 DEF SessionOK, Record
  <2>2. Immediate(r) # "DENIED"
    BY <1>3, <2>1
  <2>3. r.risk # "R4"
    BY <2>2 DEF Immediate
  <2>4. r.risk \in {"R0", "R1", "R2", "R3", "R4"}
    BY <1>2
  <2> QED
    BY <1>3, <2>1, <2>3, <2>4 DEF CarriedBy, Deciding
<1>5. CASE s.state \in Ended
  <2>1. PICK q : q = Quorum(r, s.config, s.votes)
    OBVIOUS
  <2>2. /\ r.risk \in Deciding
        /\ s.record = Record(r, s.config, s.candidate, s.votes, s.state, Disposed(r, q), q)
        /\ s.candidate = Candidate(r, s.config, s.commitment)
        /\ ValidConfig(s.config) /\ DOMAIN s.votes \subseteq SeatIds(s.config)
    BY <1>2, <1>5, <2>1 DEF SessionOK, VotesOK
  <2>3. s.record.risk = r.risk /\ s.record.disposition = Disposed(r, q)
    BY <2>2 DEF Record
  <2>4. q.met
    BY <1>3, <2>3 DEF Disposed
  <2>5. Carried(r, s.config, s.votes)
    BY <1>2, <2>1, <2>2, <2>4, MetIsCarried
  <2>6. s.candidate.content = s.commitment
    BY <2>2 DEF Candidate
  <2>7. s.config = Trusted[r.epoch]
    <3>1. Eligible(OwnProof(r), s.record)
      BY <1>3, <2>2, <2>3
    <3>2. OwnProof(r).request = r /\ OwnProof(r).config = s.config
      BY <1>1, <3>1 DEF Eligible, OwnProof, BuildProof
    <3>3. ConfigTrusted(OwnProof(r))
      BY <3>1 DEF Eligible
    <3> QED
      BY <3>2, <3>3 DEF ConfigTrusted
  <2>8. r.risk # "R0" /\ r.risk # "R4"
    BY <2>2 DEF Deciding
  <2> QED
    BY <1>1, <1>3, <2>5, <2>6, <2>7, <2>8 DEF CarriedBy
<1> QED
  BY <1>2, <1>4, <1>5

(* What was carried remains so.                                            *)
LEMMA CarriedStands ==
  ASSUME DecisionsStand, NEW r \in Decided, CarriedBy(r)
  PROVE  r \in Decided' /\ CarriedBy(r)'
BY DEF DecisionsStand, CarriedBy, LedgerTask

-----------------------------------------------------------------------------
(* The loops.  Past the gate a loop has the only use of its decision, and  *)
(* nothing was executed for it yet.                                        *)

AnyFixture == [request : Request, task : Task \cup Other, context : Context,
               epoch : Nat, action : Action]
AnyEnvelope == [auth : Request, epoch : Nat]
Local == [pc : {"idle", "evaluate", "gate", "stop", "dispatch", "ended"},
          fixtures : Seq(AnyFixture), max : Nat, i : Nat \ {0}, used : SUBSET Request,
          envelope : AnyEnvelope \cup {None},
          outcome : {None, "COMPLETED", "AUTHORIZATION_DENIED", "INTERNAL_ERROR", "STOPPED",
                     "VERIFICATION_FAILED", "MAX_ITERATIONS_REACHED"}]

LoopTypes == context \in Context /\ epoch \in Nat /\ loops \in [Loop -> Local]

Past(l) == At(l, "stop") \/ At(l, "dispatch")

LocalOK(n) ==
  /\ \A j \in 1 .. Len(n.fixtures) : n.fixtures[j].request \in Decided
  /\ n.pc \in {"gate", "stop", "dispatch"} =>
       n.envelope \in AnyEnvelope /\ n.envelope.auth \in Decided
  /\ n.pc \in {"stop", "dispatch"} =>
       /\ n.envelope.auth \in consumed /\ CarriedBy(n.envelope.auth)
       /\ n.envelope.auth.risk = "R3" => n.envelope \in closed

ReceiptOK(x) ==
  /\ x.auth \in Decided /\ x.auth \in consumed /\ CarriedBy(x.auth)
  /\ x.auth.risk = "R3" => Envelope(x.auth, x.epoch) \in closed

OneLoopEach ==
  \A l, m \in Loop :
    Past(l) /\ Past(m) /\ loops[l].envelope.auth = loops[m].envelope.auth => l = m

NothingExecutedYet ==
  \A l \in Loop, x \in receipts : Past(l) => x.auth # loops[l].envelope.auth

LoopInv ==
  /\ CouncilInv
  /\ LoopTypes
  /\ \A l \in Loop : LocalOK(loops[l])
  /\ \A x \in receipts : ReceiptOK(x)
  /\ OneLoopEach /\ NothingExecutedYet
  /\ ExecutedOnce /\ UnusedIsReported

(* What the council, the caller and the operators of the ledger do leaves  *)
(* the loops, and what was executed, as they were.                         *)
LEMMA AroundKeeps ==
  ASSUME LoopInv, CouncilInv', DecisionsStand, UNCHANGED <<loops, receipts, consumed>>,
         closed \subseteq closed', context' \in Context, epoch' \in Nat
  PROVE  LoopInv'
<1>1. LoopTypes'
  BY DEF LoopInv, LoopTypes
<1>2. ASSUME NEW l \in Loop
      PROVE  LocalOK(loops[l])'
  <2>1. PICK n : n = loops[l]
    OBVIOUS
  <2>2. LocalOK(n) /\ loops'[l] = n
    BY <2>1 DEF LoopInv
  <2>3. \A r \in Decided : r \in Decided'
    BY DEF DecisionsStand
  <2>4. \A r \in Decided : CarriedBy(r) => CarriedBy(r)'
    BY CarriedStands
  <2>5. /\ \A j \in 1 .. Len(n.fixtures) : n.fixtures[j].request \in Decided'
        /\ n.pc \in {"gate", "stop", "dispatch"} =>
             n.envelope \in AnyEnvelope /\ n.envelope.auth \in Decided'
    BY <2>2, <2>3 DEF LocalOK
  <2>6. n.pc \in {"stop", "dispatch"} =>
          /\ n.envelope.auth \in consumed'
          /\ n.envelope.auth.risk = "R3" => n.envelope \in closed'
    BY <2>2 DEF LocalOK
  <2>7. ASSUME n.pc \in {"stop", "dispatch"}
        PROVE  CarriedBy(loops[l].envelope.auth)'
    <3>1. PICK r \in Decided : r = n.envelope.auth
      BY <2>2, <2>7 DEF LocalOK
    <3>2. CarriedBy(r)'
      BY <2>2, <2>4, <2>7, <3>1 DEF LocalOK
    <3> QED
      BY <2>2, <3>1, <3>2 DEF CarriedBy, LedgerTask
  <2> QED
    BY <2>2, <2>5, <2>6, <2>7 DEF LocalOK
<1>3. ASSUME NEW x \in receipts
      PROVE  ReceiptOK(x)'
  BY CarriedStands DEF LoopInv, ReceiptOK, DecisionsStand
<1>4. OneLoopEach' /\ NothingExecutedYet' /\ ExecutedOnce' /\ UnusedIsReported'
  BY DEF LoopInv, OneLoopEach, NothingExecutedYet, ExecutedOnce, UnusedIsReported, Past, At
<1> QED
  BY <1>1, <1>2, <1>3, <1>4 DEF LoopInv

(* A step of a loop alone: it comes no further past the gate than it was,  *)
(* and what it leaves behind unused it says.                               *)
LEMMA AloneKeeps ==
  ASSUME LoopInv, NEW l \in Loop, NEW n \in Local, LocalOK(n),
         loops' = [loops EXCEPT ![l] = n],
         UNCHANGED <<councilVars, theLedger, receipts>>,
         ~At(l, "ended"),
         n.pc \in {"stop", "dispatch"} => Past(l) /\ n.envelope = loops[l].envelope,
         Past(l) => /\ n.envelope = loops[l].envelope
                    /\ \/ n.pc \in {"stop", "dispatch"}
                       \/ n.pc = "ended" /\ n.outcome \in {"STOPPED", "INTERNAL_ERROR"}
  PROVE  LoopInv'
<1>1. /\ loops' \in [Loop -> Local] /\ loops'[l] = n
      /\ \A m \in Loop \ {l} : loops'[m] = loops[m]
  BY DEF LoopInv, LoopTypes
<1>2. CouncilInv' /\ LoopTypes' /\ Decided' = Decided
  BY <1>1 DEF councilVars, theLedger, LoopInv, LoopTypes, CouncilInv, Decided
<1>4. ASSUME NEW m \in Loop
      PROVE  LocalOK(loops[m])'
  <2>1. PICK o : o = loops'[m]
    OBVIOUS
  <2>2. LocalOK(o)
    BY <1>1, <2>1 DEF LoopInv
  <2> QED
    BY <1>2, <2>1, <2>2 DEF LocalOK, CarriedBy, LedgerTask, councilVars, theLedger
<1>5. ASSUME NEW x \in receipts'
      PROVE  ReceiptOK(x)'
  BY <1>2 DEF LoopInv, ReceiptOK, CarriedBy, LedgerTask, councilVars, theLedger
<1>6. \A m \in Loop : Past(m)' => Past(m) /\ loops'[m].envelope = loops[m].envelope
  BY <1>1 DEF Past, At
<1>7. OneLoopEach' /\ NothingExecutedYet' /\ ExecutedOnce'
  BY <1>6 DEF LoopInv, OneLoopEach, NothingExecutedYet, ExecutedOnce
<1>8. UnusedIsReported'
  <2> SUFFICES ASSUME NEW d \in consumed, \A x \in receipts : x.auth # d
               PROVE  \E m \in Loop :
                        /\ loops'[m].envelope # None /\ loops'[m].envelope.auth = d
                        /\ \/ loops'[m].pc \in {"stop", "dispatch"}
                           \/ /\ loops'[m].pc = "ended"
                              /\ loops'[m].outcome \in {"STOPPED", "INTERNAL_ERROR"}
    BY DEF UnusedIsReported, theLedger, At
  <2>1. PICK m \in Loop : /\ loops[m].envelope # None /\ loops[m].envelope.auth = d
                          /\ \/ Past(m)
                             \/ /\ At(m, "ended")
                                /\ loops[m].outcome \in {"STOPPED", "INTERNAL_ERROR"}
    BY DEF LoopInv, UnusedIsReported, Past
  <2>2. CASE m = l
    BY <1>1, <2>1, <2>2 DEF Past, At
  <2>3. CASE m # l
    BY <1>1, <2>1, <2>3 DEF Past, At
  <2> QED
    BY <2>2, <2>3
<1> QED
  BY <1>2, <1>4, <1>5, <1>7, <1>8 DEF LoopInv

(* A loop that ends has only its last envelope left.                       *)
Ending(l, outcome) == [Idle EXCEPT !.pc = "ended", !.outcome = outcome,
                                   !.envelope = loops[l].envelope]

LEMMA EndingOK ==
  ASSUME LoopInv, NEW l \in Loop,
         NEW o \in {"COMPLETED", "AUTHORIZATION_DENIED", "INTERNAL_ERROR", "STOPPED",
                    "VERIFICATION_FAILED", "MAX_ITERATIONS_REACHED"}
  PROVE  /\ Ending(l, o) \in Local /\ LocalOK(Ending(l, o))
         /\ Ending(l, o).pc = "ended" /\ Ending(l, o).outcome = o
         /\ Ending(l, o).envelope = loops[l].envelope
<1>1. PICK v \in AnyEnvelope \cup {None} : v = loops[l].envelope
  BY DEF LoopInv, LoopTypes, Local
<1>2. Ending(l, o) = [pc |-> "ended", fixtures |-> <<>>, max |-> 0, i |-> 1, used |-> {},
                      envelope |-> v, outcome |-> o]
  <2>1. Ending(l, o) = [Idle EXCEPT !.pc = "ended", !.outcome = o, !.envelope = v]
    BY <1>1 DEF Ending
  <2> QED
    BY <2>1 DEF Idle
<1>3. <<>> \in Seq(AnyFixture) /\ Len(<<>>) = 0
  OBVIOUS
<1> QED
  BY <1>1, <1>2, <1>3 DEF Local, LocalOK

(* It may end like this where it holds no use of the ledger, or says so.   *)
LEMMA EndKeeps ==
  ASSUME LoopInv, NEW l \in Loop,
         NEW o \in {"COMPLETED", "AUTHORIZATION_DENIED", "INTERNAL_ERROR", "STOPPED",
                    "VERIFICATION_FAILED", "MAX_ITERATIONS_REACHED"},
         Finish(l, o), UNCHANGED <<councilVars, theLedger, receipts>>,
         ~At(l, "ended"), Past(l) => o \in {"STOPPED", "INTERNAL_ERROR"}
  PROVE  LoopInv'
<1>1. PICK n : n = Ending(l, o)
  OBVIOUS
<1>2. n \in Local /\ LocalOK(n) /\ n.pc = "ended" /\ n.outcome = o
      /\ n.envelope = loops[l].envelope
  BY <1>1, EndingOK
<1>3. loops' = [loops EXCEPT ![l] = n]
  BY <1>1 DEF Finish, Ending
<1> QED
  BY <1>2, <1>3, AloneKeeps

LEMMA RunKeeps ==
  ASSUME LoopInv, NEW l \in Loop, NEW n \in 0 .. MaxFixtures, NEW fs \in [1 .. n -> Fixtures],
         NEW m \in Requested, Run(l, fs, m)
  PROVE  LoopInv'
<1>1. PICK max : max = IF m < HardMax THEN m ELSE HardMax
  OBVIOUS
<1>2. max \in Nat
  BY <1>1, LoopAssumption
<1>3. /\ Fixtures \subseteq AnyFixture
      /\ \A f \in Fixtures : f.request \in Decided
  <2>1. ASSUME NEW r \in Decided
        PROVE  r \in Request /\ LedgerTask(r) \in Task
    <3>1. \E t \in Task : t.id = r.task
      BY LoopAssumption DEF Decided
    <3> QED
      BY <3>1 DEF LedgerTask, Decided
  <2>2. context \in Context /\ epoch \in Nat
    BY DEF LoopInv, LoopTypes
  <2>3. ASSUME NEW f \in Fixtures
        PROVE  f \in AnyFixture /\ f.request \in Decided
    <3>1. PICK r \in Decided :
            f \in [request : {r}, task : {LedgerTask(r)} \cup Other, context : {context},
                   epoch : {epoch}, action : Action]
      BY <2>3 DEF Fixtures
    <3> QED
      BY <2>1, <2>2, <3>1 DEF AnyFixture
  <2> QED
    BY <2>3
<1>4. n \in Nat /\ fs \in Seq(AnyFixture) /\ Len(fs) = n
  <2>1. n \in Nat
    BY LoopAssumption
  <2>2. fs \in [1 .. n -> AnyFixture]
    BY <1>3
  <2> QED
    BY <2>1, <2>2
<1>5. \A j \in 1 .. Len(fs) : fs[j].request \in Decided
  BY <1>3, <1>4
<1>6. PICK o : o = [Idle EXCEPT !.pc = "evaluate", !.fixtures = fs, !.max = max]
  OBVIOUS
<1>7. /\ loops' = [loops EXCEPT ![l] = o] /\ At(l, "idle")
      /\ UNCHANGED <<councilVars, theLedger, receipts>>
  BY <1>1, <1>6 DEF Run
<1>8. o = [pc |-> "evaluate", fixtures |-> fs, max |-> max, i |-> 1, used |-> {},
           envelope |-> None, outcome |-> None]
  BY <1>6 DEF Idle
<1>9. o \in Local /\ LocalOK(o)
  BY <1>2, <1>4, <1>5, <1>8 DEF Local, LocalOK
<1>10. o.pc = "evaluate" /\ ~Past(l) /\ ~At(l, "ended")
  BY <1>7, <1>8 DEF Past, At
<1> QED
  BY <1>7, <1>9, <1>10, AloneKeeps

LEMMA EvaluateKeeps ==
  ASSUME LoopInv, NEW l \in Loop, Evaluate(l)
  PROVE  LoopInv'
<1>1. /\ At(l, "evaluate") /\ ~Past(l) /\ ~At(l, "ended")
      /\ UNCHANGED <<councilVars, theLedger, receipts>>
  BY DEF Evaluate, Past, At
<1>2. CASE Finish(l, "COMPLETED") \/ Finish(l, "AUTHORIZATION_DENIED")
  BY <1>1, <1>2, EndKeeps
<1>3. CASE /\ ~(loops[l].i > Len(loops[l].fixtures))
           /\ LET v == Envelope(Fixture(l).request, Fixture(l).epoch)
              IN  loops' = [loops EXCEPT ![l].pc = "gate", ![l].envelope = v,
                                         ![l].used = @ \cup {v.auth}]
  <2>1. PICK s : s = loops[l]
    OBVIOUS
  <2>2. s \in Local /\ LocalOK(s)
    BY <2>1 DEF LoopInv, LoopTypes
  <2>3. PICK f : f = Fixture(l)
    OBVIOUS
  <2>4. f \in AnyFixture /\ f.request \in Decided
    <3>1. s.fixtures \in Seq(AnyFixture) /\ s.i \in Nat \ {0}
      BY <2>2 DEF Local
    <3>2. s.i \in 1 .. Len(s.fixtures)
      BY <1>3, <2>1, <3>1
    <3>3. f = s.fixtures[s.i]
      BY <2>1, <2>3 DEF Fixture
    <3> QED
      BY <2>2, <3>1, <3>2, <3>3 DEF LocalOK
  <2>5. PICK v : v = Envelope(f.request, f.epoch)
    OBVIOUS
  <2>6. v \in AnyEnvelope /\ v.auth = f.request
    BY <2>4, <2>5 DEF AnyEnvelope, AnyFixture, Envelope
  <2>7. PICK n : n = [s EXCEPT !.pc = "gate", !.envelope = v, !.used = @ \cup {v.auth}]
    OBVIOUS
  <2>8. loops' = [loops EXCEPT ![l] = n]
    BY <1>3, <2>1, <2>2, <2>3, <2>5, <2>7 DEF LoopInv, LoopTypes
  <2>9. n \in Local
    <3>1. v.auth \in Request
      BY <2>4, <2>6 DEF AnyFixture
    <3>2. n = [pc |-> "gate", fixtures |-> s.fixtures, max |-> s.max, i |-> s.i,
               used |-> s.used \cup {v.auth}, envelope |-> v, outcome |-> s.outcome]
      BY <2>2, <2>7 DEF Local
    <3>3. s.used \cup {v.auth} \in SUBSET Request
      BY <2>2, <3>1 DEF Local
    <3> QED
      BY <2>2, <2>6, <3>2, <3>3 DEF Local
  <2>10. n.pc = "gate" /\ n.envelope = v /\ n.fixtures = s.fixtures
    BY <2>2, <2>7 DEF Local
  <2>11. LocalOK(n)
    BY <2>2, <2>4, <2>6, <2>10 DEF LocalOK
  <2> QED
    BY <1>1, <2>8, <2>9, <2>10, <2>11, AloneKeeps
<1> QED
  BY <1>2, <1>3 DEF Evaluate

(* The ledger lets a loop through: for a decision that was carried, and    *)
(* that no loop holds and nothing was executed for.                        *)
LEMMA PassKeeps ==
  ASSUME LoopInv, NEW l \in Loop, At(l, "gate"), NEW v, v = loops[l].envelope,
         Derivable(v.auth), Ledger!Consume(v), To(l, "stop"), UNCHANGED <<councilVars, receipts>>
  PROVE  LoopInv'
<1>1. PICK s : s = loops[l]
  OBVIOUS
<1>2. s \in Local /\ LocalOK(s) /\ s.pc = "gate" /\ s.envelope = v
  BY <1>1 DEF LoopInv, LoopTypes, At
<1>3. v \in AnyEnvelope /\ v.auth \in Decided /\ CarriedBy(v.auth)
  <2>1. v \in AnyEnvelope /\ v.auth \in Decided
    BY <1>2 DEF LocalOK
  <2> QED
    BY <2>1, DerivableIsCarried DEF LoopInv
<1>4. /\ v.auth \notin consumed /\ consumed' = consumed \cup {v.auth}
      /\ closed \subseteq closed' /\ epoch' = epoch
      /\ v.auth.risk = "R3" => v \in closed'
  BY DEF Ledger!Consume, Ledger!Allowed, NeedsHuman
<1>5. PICK n : n = [s EXCEPT !.pc = "stop"]
  OBVIOUS
<1>6. /\ n \in Local /\ n.pc = "stop" /\ n.envelope = v /\ n.fixtures = s.fixtures
      /\ loops' = [loops EXCEPT ![l] = n]
  BY <1>1, <1>2, <1>5 DEF To, Local
<1>7. /\ loops' \in [Loop -> Local] /\ loops'[l] = n
      /\ \A m \in Loop \ {l} : loops'[m] = loops[m]
  BY <1>6 DEF LoopInv, LoopTypes
<1>8. CouncilInv' /\ LoopTypes' /\ Decided' = Decided /\ sessions' = sessions
  BY <1>4, <1>7 DEF councilVars, LoopInv, LoopTypes, CouncilInv, Decided
<1>9. ASSUME NEW m \in Loop
      PROVE  LocalOK(loops[m])'
  <2>1. CASE m # l
    <3>1. PICK o : o = loops[m]
      OBVIOUS
    <3>2. LocalOK(o) /\ loops'[m] = o
      BY <1>7, <2>1, <3>1 DEF LoopInv
    <3>3. o.pc \in {"stop", "dispatch"} =>
            /\ o.envelope.auth \in consumed'
            /\ o.envelope.auth.risk = "R3" => o.envelope \in closed'
      BY <1>4, <3>2 DEF LocalOK
    <3>4. \A r : CarriedBy(r) => CarriedBy(r)'
      BY <1>8 DEF CarriedBy, LedgerTask
    <3> QED
      BY <1>8, <3>2, <3>3, <3>4 DEF LocalOK, CarriedBy, LedgerTask
  <2>2. CASE m = l
    <3>1. \A j \in 1 .. Len(n.fixtures) : n.fixtures[j].request \in Decided'
      BY <1>2, <1>6, <1>8 DEF LocalOK
    <3>2. v.auth \in Decided' /\ v.auth \in consumed' /\ CarriedBy(v.auth)'
      BY <1>3, <1>4, <1>8 DEF CarriedBy, LedgerTask
    <3>3. loops'[m] = n
      BY <1>7, <2>2
    <3>4. CarriedBy(loops[m].envelope.auth)'
      <4>1. PICK r : r = v.auth
        OBVIOUS
      <4>2. loops'[m].envelope.auth = r /\ CarriedBy(r)'
        BY <1>6, <3>2, <3>3, <4>1
      <4> QED
        BY <4>2 DEF CarriedBy, LedgerTask
    <3>5. /\ n.envelope \in AnyEnvelope /\ n.envelope.auth \in Decided'
          /\ n.envelope.auth \in consumed'
          /\ n.envelope.auth.risk = "R3" => n.envelope \in closed'
      BY <1>3, <1>4, <1>6, <3>2
    <3> QED
      BY <3>1, <3>3, <3>4, <3>5 DEF LocalOK
  <2> QED
    BY <2>1, <2>2
<1>10. ASSUME NEW x \in receipts'
       PROVE  ReceiptOK(x)'
  BY <1>4, <1>8 DEF LoopInv, ReceiptOK, CarriedBy, LedgerTask
<1>11. \A m \in Loop : Past(m) => loops[m].envelope.auth # v.auth
  BY <1>4 DEF LoopInv, LocalOK, Past, At
<1>12. \A x \in receipts : x.auth # v.auth
  BY <1>4 DEF LoopInv, ReceiptOK
<1>13. \A m \in Loop : m # l /\ Past(m)' => Past(m) /\ loops'[m].envelope = loops[m].envelope
  BY <1>7 DEF Past, At
<1>14. OneLoopEach' /\ NothingExecutedYet' /\ ExecutedOnce'
  BY <1>6, <1>7, <1>11, <1>12, <1>13 DEF LoopInv, OneLoopEach, NothingExecutedYet, ExecutedOnce
<1>15. UnusedIsReported'
  <2> SUFFICES ASSUME NEW d \in consumed', \A x \in receipts : x.auth # d
               PROVE  \E m \in Loop :
                        /\ loops'[m].envelope # None /\ loops'[m].envelope.auth = d
                        /\ \/ loops'[m].pc \in {"stop", "dispatch"}
                           \/ /\ loops'[m].pc = "ended"
                              /\ loops'[m].outcome \in {"STOPPED", "INTERNAL_ERROR"}
    BY DEF UnusedIsReported, At
  <2>1. CASE d = v.auth
    <3>1. v # None
      BY <1>3, LoopAssumption DEF AnyEnvelope
    <3> QED
      BY <1>6, <1>7, <2>1, <3>1
  <2>2. CASE d # v.auth
    <3>1. PICK m \in Loop : /\ loops[m].envelope # None /\ loops[m].envelope.auth = d
                            /\ \/ loops[m].pc \in {"stop", "dispatch"}
                               \/ /\ loops[m].pc = "ended"
                                  /\ loops[m].outcome \in {"STOPPED", "INTERNAL_ERROR"}
      BY <1>4, <2>2 DEF LoopInv, UnusedIsReported, At
    <3>2. m # l
      BY <1>1, <1>2, <3>1
    <3> QED
      BY <1>7, <3>1, <3>2
  <2> QED
    BY <2>1, <2>2
<1> QED
  BY <1>8, <1>9, <1>10, <1>14, <1>15 DEF LoopInv

LEMMA GateKeeps ==
  ASSUME LoopInv, NEW l \in Loop, Gate(l)
  PROVE  LoopInv'
<1>1. At(l, "gate") /\ ~Past(l) /\ ~At(l, "ended") /\ UNCHANGED <<councilVars, receipts>>
  BY DEF Gate, Past, At
<1>2. PICK v : v = loops[l].envelope
  OBVIOUS
<1>3. CASE Derivable(v.auth) /\ Ledger!Consume(v) /\ To(l, "stop")
  BY <1>1, <1>2, <1>3, PassKeeps
<1>4. CASE UNCHANGED theLedger /\ (Finish(l, "AUTHORIZATION_DENIED") \/ Finish(l, "INTERNAL_ERROR"))
  BY <1>1, <1>4, EndKeeps
<1> QED
  BY <1>2, <1>3, <1>4, Zenon DEF Gate

LEMMA StopCheckKeeps ==
  ASSUME LoopInv, NEW l \in Loop, StopCheck(l)
  PROVE  LoopInv'
<1>1. At(l, "stop") /\ ~At(l, "ended") /\ Past(l) /\ UNCHANGED <<councilVars, theLedger, receipts>>
  BY DEF StopCheck, Past, At
<1>2. CASE Finish(l, "STOPPED") \/ Finish(l, "INTERNAL_ERROR")
  BY <1>1, <1>2, EndKeeps
<1>3. CASE To(l, "dispatch")
  <2>1. PICK s : s = loops[l]
    OBVIOUS
  <2>2. s \in Local /\ LocalOK(s) /\ s.pc = "stop"
    BY <1>1, <2>1 DEF LoopInv, LoopTypes, At
  <2>3. PICK n : n = [s EXCEPT !.pc = "dispatch"]
    OBVIOUS
  <2>4. /\ n \in Local /\ n.pc = "dispatch" /\ n.envelope = s.envelope
        /\ n.fixtures = s.fixtures
        /\ loops' = [loops EXCEPT ![l] = n]
    BY <1>3, <2>1, <2>2, <2>3 DEF To, Local
  <2>5. LocalOK(n)
    BY <2>2, <2>4 DEF LocalOK
  <2> QED
    BY <1>1, <2>1, <2>4, <2>5, AloneKeeps
<1> QED
  BY <1>2, <1>3 DEF StopCheck

(* What is executed is the use of the ledger the loop holds, which it      *)
(* gives up with the receipt.                                              *)
LEMMA ExecuteKeeps ==
  ASSUME LoopInv, NEW l \in Loop, At(l, "dispatch"), NEW n \in Local, LocalOK(n),
         n.pc \in {"evaluate", "ended"}, loops' = [loops EXCEPT ![l] = n],
         receipts' = receipts \cup {Receipt(l)}, UNCHANGED <<councilVars, theLedger>>
  PROVE  LoopInv'
<1>1. PICK v : v = loops[l].envelope
  OBVIOUS
<1>2. /\ v \in AnyEnvelope /\ v.auth \in Decided /\ v.auth \in consumed /\ CarriedBy(v.auth)
      /\ v.auth.risk = "R3" => v \in closed
  <2>1. LocalOK(loops[l]) /\ loops[l].pc = "dispatch"
    BY DEF LoopInv, At
  <2> QED
    BY <1>1, <2>1 DEF LocalOK
<1>3. PICK x : x = Receipt(l)
  OBVIOUS
<1>4. x.auth = v.auth /\ x.epoch = v.epoch /\ Envelope(x.auth, x.epoch) = v
  BY <1>1, <1>2, <1>3 DEF Receipt, Envelope, AnyEnvelope
<1>5. /\ loops' \in [Loop -> Local] /\ loops'[l] = n
      /\ \A m \in Loop \ {l} : loops'[m] = loops[m]
  BY DEF LoopInv, LoopTypes
<1>6. /\ CouncilInv' /\ LoopTypes' /\ Decided' = Decided /\ sessions' = sessions
      /\ consumed' = consumed /\ closed' = closed
  BY <1>5 DEF councilVars, theLedger, LoopInv, LoopTypes, CouncilInv, Decided
<1>7. ASSUME NEW m \in Loop
      PROVE  LocalOK(loops[m])'
  <2>1. PICK o : o = loops'[m]
    OBVIOUS
  <2>2. LocalOK(o)
    BY <1>5, <2>1 DEF LoopInv
  <2> QED
    BY <1>6, <2>1, <2>2 DEF LocalOK, CarriedBy, LedgerTask
<1>8. ASSUME NEW y \in receipts'
      PROVE  ReceiptOK(y)'
  <2>1. ReceiptOK(y)
    BY <1>2, <1>3, <1>4 DEF LoopInv, ReceiptOK
  <2> QED
    BY <1>6, <2>1 DEF ReceiptOK, CarriedBy, LedgerTask
<1>9. \A m \in Loop : Past(m)' => m # l /\ Past(m) /\ loops'[m].envelope = loops[m].envelope
  BY <1>5 DEF Past, At
<1>10. Past(l) /\ \A y \in receipts : y.auth # x.auth
  BY <1>1, <1>4 DEF LoopInv, NothingExecutedYet, Past
<1>11. \A m \in Loop : Past(m)' => loops'[m].envelope.auth # x.auth
  BY <1>1, <1>4, <1>9, <1>10 DEF LoopInv, OneLoopEach
<1>12. OneLoopEach' /\ NothingExecutedYet' /\ ExecutedOnce'
  BY <1>3, <1>9, <1>10, <1>11 DEF LoopInv, OneLoopEach, NothingExecutedYet, ExecutedOnce
<1>13. UnusedIsReported'
  <2> SUFFICES ASSUME NEW d \in consumed, \A y \in receipts' : y.auth # d
               PROVE  \E m \in Loop :
                        /\ loops'[m].envelope # None /\ loops'[m].envelope.auth = d
                        /\ \/ loops'[m].pc \in {"stop", "dispatch"}
                           \/ /\ loops'[m].pc = "ended"
                              /\ loops'[m].outcome \in {"STOPPED", "INTERNAL_ERROR"}
    BY <1>6 DEF UnusedIsReported, At
  <2>1. PICK m \in Loop : /\ loops[m].envelope # None /\ loops[m].envelope.auth = d
                          /\ \/ loops[m].pc \in {"stop", "dispatch"}
                             \/ /\ loops[m].pc = "ended"
                                /\ loops[m].outcome \in {"STOPPED", "INTERNAL_ERROR"}
    BY DEF LoopInv, UnusedIsReported, At
  <2>2. d # v.auth
    BY <1>3, <1>4
  <2>3. m # l
    BY <1>1, <2>1, <2>2
  <2> QED
    BY <1>5, <2>1, <2>3
<1> QED
  BY <1>6, <1>7, <1>8, <1>12, <1>13 DEF LoopInv

LEMMA DispatchKeeps ==
  ASSUME LoopInv, NEW l \in Loop, Dispatch(l)
  PROVE  LoopInv'
<1>1. At(l, "dispatch") /\ ~At(l, "ended") /\ UNCHANGED <<councilVars, theLedger>>
  BY DEF Dispatch, At
<1>2. CASE Finish(l, "INTERNAL_ERROR") /\ UNCHANGED receipts
  BY <1>1, <1>2, EndKeeps
<1>3. CASE receipts' = receipts \cup {Receipt(l)}
  <2>1. ASSUME NEW o \in {"COMPLETED", "VERIFICATION_FAILED", "MAX_ITERATIONS_REACHED"},
               Finish(l, o)
        PROVE  LoopInv'
    <3>1. PICK n : n = Ending(l, o)
      OBVIOUS
    <3>2. n \in Local /\ LocalOK(n) /\ n.pc = "ended"
      BY <3>1, EndingOK
    <3>3. loops' = [loops EXCEPT ![l] = n]
      BY <2>1, <3>1 DEF Finish, Ending
    <3> QED
      BY <1>1, <1>3, <3>2, <3>3, ExecuteKeeps
  <2>2. ASSUME loops' = [loops EXCEPT ![l].pc = "evaluate", ![l].i = @ + 1]
        PROVE  LoopInv'
    <3>1. PICK s : s = loops[l]
      OBVIOUS
    <3>2. s \in Local /\ LocalOK(s)
      BY <3>1 DEF LoopInv, LoopTypes
    <3>3. PICK n : n = [s EXCEPT !.pc = "evaluate", !.i = @ + 1]
      OBVIOUS
    <3>4. loops' = [loops EXCEPT ![l] = n]
      BY <2>2, <3>1, <3>2, <3>3 DEF LoopInv, LoopTypes
    <3>5. n \in Local /\ n.pc = "evaluate" /\ n.fixtures = s.fixtures
      <4>1. PICK i \in Nat \ {0} : i = s.i + 1
        <5>1. s.i \in Nat
          BY <3>2 DEF Local
        <5> QED
          BY <5>1
      <4>2. n = [s EXCEPT !.pc = "evaluate", !.i = i]
        BY <3>2, <3>3, <4>1 DEF Local
      <4> QED
        BY <3>2, <4>2 DEF Local
    <3>6. LocalOK(n)
      BY <3>2, <3>5 DEF LocalOK
    <3> QED
      BY <1>1, <1>3, <3>4, <3>5, <3>6, ExecuteKeeps
  <2>3. \/ Finish(l, "COMPLETED") \/ Finish(l, "VERIFICATION_FAILED")
        \/ Finish(l, "MAX_ITERATIONS_REACHED")
        \/ (Finish(l, "INTERNAL_ERROR") /\ UNCHANGED receipts)
        \/ loops' = [loops EXCEPT ![l].pc = "evaluate", ![l].i = @ + 1]
    BY Zenon DEF Dispatch
  <2> QED
    BY <1>2, <2>1, <2>2, <2>3
<1> QED
  BY <1>2, <1>3, Zenon DEF Dispatch

-----------------------------------------------------------------------------
(* All of it.                                                              *)

LEMMA LoopInitInv ==
  ASSUME LoopInit
  PROVE  LoopInv
<1>1. Idle \in Local /\ Idle.pc = "idle" /\ Idle.fixtures = <<>>
  BY DEF Idle, Local
<1>2. /\ CouncilInv /\ context \in Context /\ epoch = 0 /\ receipts = {} /\ consumed = {}
      /\ loops = [l \in Loop |-> Idle]
  BY CouncilInitInv DEF LoopInit, CouncilInit, Ledger!Init
<1>3. \A l \in Loop : loops[l] = Idle
  BY <1>2
<1>4. LocalOK(Idle) /\ \A l \in Loop : ~Past(l)
  BY <1>1, <1>3 DEF LocalOK, Past, At
<1> QED
  BY <1>1, <1>2, <1>3, <1>4
  DEF LoopInv, LoopTypes, OneLoopEach, NothingExecutedYet, ExecutedOnce, UnusedIsReported

LEMMA LoopStepInv ==
  ASSUME LoopInv, [LoopNext]_loopVars
  PROVE  LoopInv'
<1>1. CASE UNCHANGED loopVars
  <2>1. /\ UNCHANGED <<sessions, context, loops, receipts>>
        /\ UNCHANGED <<epoch, granted, closed, consumed>>
    BY <1>1 DEF loopVars, councilVars, theLedger
  <2> QED
    BY <2>1, AroundKeeps, CouncilStays DEF LoopInv, LoopTypes
<1>2. ASSUME NEW r \in Request, CouncilStep(r), UNCHANGED <<theLedger, loops, receipts>>
      PROVE  LoopInv'
  <2>1. CouncilInv' /\ DecisionsStand
    BY <1>2, CouncilStepKeeps DEF LoopInv
  <2>2. context' = context
    BY <1>2 DEF CouncilStep, CouncilEvent, CreateSession, SubmitCommitment, RevealProposal,
                FreezeCandidate, CastVote, Finalize, Enter
  <2> QED
    BY <1>2, <2>1, <2>2, AroundKeeps DEF LoopInv, LoopTypes, theLedger
<1>3. ASSUME NEW r \in Decided, IssueGrant(r)
      PROVE  LoopInv'
  BY <1>3, AroundKeeps, CouncilStays
  DEF IssueGrant, Ledger!Issue, councilVars, LoopInv, LoopTypes
<1>4. ASSUME NEW v, RevokeGrant(v)
      PROVE  LoopInv'
  BY <1>4, AroundKeeps, CouncilStays
  DEF RevokeGrant, Ledger!Revoke, councilVars, LoopInv, LoopTypes
<1>5. ASSUME NEW x \in Context, SetContext(x)
      PROVE  LoopInv'
  BY <1>5, AroundKeeps, CouncilStays DEF SetContext, theLedger, LoopInv, LoopTypes
<1>6. ASSUME BumpStopEpoch
      PROVE  LoopInv'
  BY <1>6, AroundKeeps, CouncilStays
  DEF BumpStopEpoch, Ledger!Bump, councilVars, LoopInv, LoopTypes
<1>7. ASSUME NEW l \in Loop, LoopStep(l)
      PROVE  LoopInv'
  BY <1>7, EvaluateKeeps, GateKeeps, StopCheckKeeps, DispatchKeeps DEF LoopStep
<1> QED
  BY <1>1, <1>2, <1>3, <1>4, <1>5, <1>6, <1>7, RunKeeps DEF LoopNext

(* The inductive invariant, for any number of requests and of loops: what   *)
(* each session holds, which use of the ledger each loop has, and that      *)
(* whatever passed the gate was carried.                                    *)
THEOREM LoopInvariant == LoopSpec => []LoopInv
<1>1. LoopInit => LoopInv
  BY LoopInitInv
<1>2. LoopInv /\ [LoopNext]_loopVars => LoopInv'
  BY LoopStepInv
<1> QED
  BY <1>1, <1>2, PTL DEF LoopSpec

(* However many loops evaluate a decision at once, each with its own list   *)
(* of used ids, only one of them gets past the gate and executes it once.   *)
THEOREM DecisionsExecuteOnce == LoopSpec => []ExecutedOnce
<1>1. LoopInv => ExecutedOnce
  BY DEF LoopInv
<1> QED
  BY <1>1, LoopInvariant, PTL

(* A use of the ledger that executed nothing is on the account of one loop  *)
(* that is still to dispatch it, or ended as stopped or failed.             *)
THEOREM NothingIsUsedInSilence == LoopSpec => []UnusedIsReported
<1>1. LoopInv => UnusedIsReported
  BY DEF LoopInv
<1> QED
  BY <1>1, LoopInvariant, PTL

(* What a loop executes was carried by those who had to, voting under the   *)
(* trusted configuration for what the proposer was committed to, for a task *)
(* that is not blocked, and with a human's grant where the class asks for   *)
(* one, though context, epoch and grants change while the loop waits.       *)
THEOREM OnlyTheCarriedIsExecuted == LoopSpec => []ExecutedWasCarried
<1>1. LoopInv => ExecutedWasCarried
  BY DEF LoopInv, ReceiptOK, CarriedBy, ExecutedWasCarried
<1> QED
  BY <1>1, LoopInvariant, PTL

-----------------------------------------------------------------------------
(* What a loop brings to the gate is what it was given, and was decided in *)
(* the context it was given.                                               *)

GateOK(l) ==
  At(l, "gate") =>
    /\ loops[l].envelope = Envelope(Fixture(l).request, Fixture(l).epoch)
    /\ sessions[Fixture(l).request].record.context = Fixture(l).context

AtGateOK == \A l \in Loop : GateOK(l)

LEMMA EvaluateBrings ==
  ASSUME LoopInv, NEW l \in Loop, Evaluate(l)
  PROVE  GateOK(l)'
<1>1. PICK s : s = loops[l]
  OBVIOUS
<1>2. s \in Local /\ loops \in [Loop -> Local] /\ sessions' = sessions
  BY <1>1 DEF LoopInv, LoopTypes, Evaluate, councilVars
<1>3. CASE Finish(l, "COMPLETED") \/ Finish(l, "AUTHORIZATION_DENIED")
  <2>1. loops'[l].pc = "ended"
    BY <1>2, <1>3 DEF Finish, Idle
  <2> QED
    BY <2>1 DEF GateOK, At
<1>4. CASE LET f == Fixture(l)
               v == Envelope(f.request, f.epoch)
           IN  /\ Enveloped(sessions[f.request].record, f.task, f.context, OwnProof(f.request))
               /\ loops' = [loops EXCEPT ![l].pc = "gate", ![l].envelope = v,
                                         ![l].used = @ \cup {v.auth}]
  <2>1. PICK f : f = Fixture(l)
    OBVIOUS
  <2>2. sessions[f.request].record.context = f.context
    BY <1>4, <2>1 DEF Enveloped
  <2>3. /\ loops'[l].envelope = Envelope(f.request, f.epoch)
        /\ loops'[l].fixtures = s.fixtures /\ loops'[l].i = s.i
    BY <1>1, <1>2, <1>4, <2>1 DEF Local
  <2>4. Fixture(l)' = f
    BY <1>1, <2>1, <2>3 DEF Fixture
  <2> QED
    BY <1>2, <2>2, <2>3, <2>4 DEF GateOK, Envelope
<1> QED
  BY <1>3, <1>4, Zenon DEF Evaluate

(* No other step brings a loop there, or changes what it brought.          *)
LEMMA OthersLeave ==
  ASSUME LoopInv, LoopNext, NEW l \in Loop, ~Evaluate(l)
  PROVE  At(l, "gate")' => loops'[l] = loops[l]
<1>1. loops \in [Loop -> Local]
  BY DEF LoopInv, LoopTypes
<1>2. ASSUME NEW m \in Loop, LoopStep(m)
      PROVE  At(l, "gate")' => loops'[l] = loops[l]
  <2>1. CASE m # l
    BY <1>1, <1>2, <2>1
    DEF LoopStep, Evaluate, Gate, StopCheck, Dispatch, To, Finish
  <2>2. CASE m = l
    <3>1. \A o : Finish(l, o) => loops'[l].pc = "ended"
      BY <1>1 DEF Finish, Idle
    <3>2. \A pc : To(l, pc) => loops'[l].pc = pc
      BY <1>1 DEF To, Local
    <3>3. loops' = [loops EXCEPT ![l].pc = "evaluate", ![l].i = @ + 1]
            => loops'[l].pc = "evaluate"
      BY <1>1 DEF Local
    <3>4. Gate(l) \/ StopCheck(l) \/ Dispatch(l)
      BY <1>2, <2>2 DEF LoopStep
    <3> QED
      BY <3>1, <3>2, <3>3, <3>4, Zenon DEF Gate, StopCheck, Dispatch, At
  <2> QED
    BY <2>1, <2>2
<1>3. ASSUME NEW m \in Loop, NEW fs, NEW n, Run(m, fs, n)
      PROVE  At(l, "gate")' => loops'[l] = loops[l]
  BY <1>1, <1>3 DEF Run, Idle, At
<1> QED
  BY <1>2, <1>3
  DEF LoopNext, IssueGrant, RevokeGrant, SetContext, BumpStopEpoch

LEMMA NextStands ==
  ASSUME LoopInv, LoopNext
  PROVE  DecisionsStand
<1>1. ASSUME NEW r \in Request, CouncilStep(r)
      PROVE  DecisionsStand
  BY <1>1, CouncilStepKeeps DEF LoopInv
<1>2. CASE UNCHANGED sessions
  BY <1>2, CouncilStays DEF LoopInv
<1> QED
  BY <1>1, <1>2
  DEF LoopNext, IssueGrant, RevokeGrant, SetContext, BumpStopEpoch, LoopStep, Evaluate, Gate,
      StopCheck, Dispatch, Run, councilVars

LEMMA AtGateKeeps ==
  ASSUME LoopInv, AtGateOK, [LoopNext]_loopVars
  PROVE  AtGateOK'
<1>1. CASE UNCHANGED loopVars
  BY <1>1 DEF loopVars, councilVars, AtGateOK, GateOK, At, Fixture, Envelope
<1>2. ASSUME LoopNext, NEW l \in Loop, ~Evaluate(l), At(l, "gate")'
      PROVE  GateOK(l)'
  <2>1. loops'[l] = loops[l] /\ At(l, "gate")
    BY <1>2, OthersLeave DEF At
  <2>2. /\ loops[l].envelope = Envelope(Fixture(l).request, Fixture(l).epoch)
        /\ sessions[Fixture(l).request].record.context = Fixture(l).context
        /\ loops[l].envelope.auth \in Decided
    BY <2>1 DEF LoopInv, LocalOK, AtGateOK, GateOK, At
  <2>3. PICK f : f = Fixture(l)
    OBVIOUS
  <2>4. f.request \in Decided /\ Fixture(l)' = f
    BY <2>1, <2>2, <2>3 DEF Fixture, Envelope
  <2>5. sessions'[f.request] = sessions[f.request]
    BY <1>2, <2>4, NextStands DEF DecisionsStand
  <2> QED
    BY <2>1, <2>2, <2>3, <2>4, <2>5 DEF GateOK, Envelope
<1>3. ASSUME LoopNext, NEW l \in Loop
      PROVE  GateOK(l)'
  BY <1>2, <1>3, EvaluateBrings DEF GateOK
<1> QED
  BY <1>1, <1>3 DEF AtGateOK

(* The record of a decision names the context of its request.              *)
LEMMA RecordContext ==
  ASSUME CouncilInv, NEW r \in Decided
  PROVE  sessions[r].record.context = r.context
<1>1. PICK s : s = sessions[r]
  OBVIOUS
<1>2. SessionOK(r, s) /\ (s.state \in Ended \/ s.state \in Immediately)
  BY <1>1, DecidedOK
<1>3. CASE s.state \in Ended
  <2>1. PICK q : q = Quorum(r, s.config, s.votes)
    OBVIOUS
  <2>2. s.record = Record(r, s.config, s.candidate, s.votes, s.state, Disposed(r, q), q)
    BY <1>2, <1>3, <2>1 DEF SessionOK
  <2> QED
    BY <1>1, <2>2 DEF Record
<1>4. CASE s.state \in Immediately
  <2>1. s.record = Record(r, s.config, None, <<>>, Immediate(r), Immediate(r),
                          Counted(FALSE, Immediate(r), 0))
    BY <1>2, <1>4 DEF SessionOK
  <2> QED
    BY <1>1, <2>1 DEF Record
<1> QED
  BY <1>2, <1>3, <1>4

(* A use is a loop at the gate, whose envelope the ledger can derive again. *)
LEMMA UseIsCurrent ==
  ASSUME LoopInv, AtGateOK, NEW l \in Loop, Gate(l), NEW d \in consumed' \ consumed
  PROVE  /\ d.context = context
         /\ At(l, "gate") /\ loops[l].envelope = Envelope(d, epoch)
         /\ Fixture(l).request = d /\ Fixture(l).context = context
         /\ Fixture(l).epoch = epoch
<1>1. PICK v : v = loops[l].envelope
  OBVIOUS
<1>2. PICK f : f = Fixture(l)
  OBVIOUS
<1>3. At(l, "gate") /\ Derivable(v.auth) /\ Ledger!Consume(v)
  BY <1>1 DEF Gate, theLedger
<1>4. v.auth = d /\ v.epoch = epoch
  BY <1>3 DEF Ledger!Consume, Ledger!Allowed
<1>5. /\ v = Envelope(f.request, f.epoch)
      /\ sessions[f.request].record.context = f.context /\ v.auth \in Decided
  BY <1>1, <1>2, <1>3 DEF LoopInv, LocalOK, AtGateOK, GateOK, At
<1>6. f.request = d /\ f.epoch = epoch
  BY <1>4, <1>5 DEF Envelope
<1>7. sessions[d].record.context = context
  BY <1>3, <1>4 DEF Derivable, Enveloped
<1>8. sessions[d].record.context = d.context
  BY <1>4, <1>5, RecordContext DEF LoopInv
<1> QED
  BY <1>1, <1>2, <1>3, <1>5, <1>6, <1>7, <1>8

(* A decision is used in the context it was made in and the epoch in force, *)
(* by a loop that was given both, however context and epoch change after    *)
(* the decision or between the loop's evaluation and the ledger's.          *)
THEOREM UsesAreCurrent == LoopSpec => UsedWhileCurrent
<1>1. LoopInit => AtGateOK
  BY DEF LoopInit, AtGateOK, GateOK, At, Idle
<1>2. LoopInv /\ AtGateOK /\ [LoopNext]_loopVars
        => [\A d \in consumed' \ consumed :
              /\ d.context = context
              /\ \E l \in Loop :
                   /\ At(l, "gate") /\ loops[l].envelope = Envelope(d, epoch)
                   /\ Fixture(l).request = d /\ Fixture(l).context = context
                   /\ Fixture(l).epoch = epoch]_loopVars
  <2> SUFFICES ASSUME LoopInv, AtGateOK, LoopNext, NEW d \in consumed' \ consumed
               PROVE  /\ d.context = context
                      /\ \E l \in Loop :
                           /\ At(l, "gate") /\ loops[l].envelope = Envelope(d, epoch)
                           /\ Fixture(l).request = d /\ Fixture(l).context = context
                           /\ Fixture(l).epoch = epoch
    BY DEF loopVars, theLedger
  <2>1. PICK l \in Loop : Gate(l)
    BY DEF LoopNext, IssueGrant, RevokeGrant, SetContext, BumpStopEpoch, LoopStep, Evaluate,
           StopCheck, Dispatch, Run, theLedger, Ledger!Issue, Ledger!Revoke, Ledger!Bump
  <2> QED
    BY <2>1, UseIsCurrent
<1>3. LoopInv /\ AtGateOK /\ [LoopNext]_loopVars => AtGateOK'
  BY AtGateKeeps
<1> QED
  BY <1>1, <1>2, <1>3, LoopInvariant, PTL DEF LoopSpec, UsedWhileCurrent

-----------------------------------------------------------------------------
(* Counting again.                                                         *)

Ballot(r, s, i) ==
  [request |-> r.id, epoch |-> r.epoch, candidate |-> s.candidate, seat |-> i, value |-> s.votes[i]]

(* The votes of a proof that approve are as many as the seats that do.     *)
LEMMA SameApprovals ==
  ASSUME NEW r, NEW s, NEW p, p.votes = VotesOf(r, s), IsFiniteSet(Approving(s.votes))
  PROVE  Cardinality(Yes(p)) = Cardinality(Approving(s.votes))
<1> DEFINE f == [i \in Approving(s.votes) |-> Ballot(r, s, i)]
<1>1. Yes(p) = {Ballot(r, s, i) : i \in Approving(s.votes)}
  BY DEF Yes, VotesOf, Ballot, Approving
<1>2. \A i \in Approving(s.votes) : f[i].seat = i
  BY DEF Ballot
<1>3. f \in Bijection(Approving(s.votes), Yes(p))
  <2>1. f \in [Approving(s.votes) -> Yes(p)]
    BY <1>1
  <2>2. \A v \in Yes(p) : \E i \in Approving(s.votes) : f[i] = v
    BY <1>1
  <2> QED
    BY <1>2, <2>1, <2>2 DEF Bijection, Injection, IsInjective, Surjection
<1> QED
  BY <1>3, FS_Bijection DEF ExistsBijection

(* The kernel and the verifier of a proof come to the same count.          *)
LEMMA SameCount ==
  ASSUME NEW r \in Request, r.risk \in Deciding, NEW s, ValidConfig(s.config), VotesOK(s),
         NEW p, p.request = r, p.config = s.config, p.votes = VotesOf(r, s)
  PROVE  RecomputeQuorum(p) = Quorum(r, s.config, s.votes)
<1> DEFINE k == s.config
           yes == Approving(s.votes)
           reviewers == SeatIds(k) \ {Proposer(r, k)}
<1>1. /\ yes \subseteq SeatIds(k) /\ IsFiniteSet(yes)
      /\ IsFiniteSet(reviewers) /\ Cardinality(reviewers) \in Nat
  <2>1. IsFiniteSet(SeatIds(k))
    BY SeatsAreThree
  <2>2. yes \subseteq SeatIds(k) /\ reviewers \subseteq SeatIds(k)
    BY DEF VotesOK, Approving
  <2> QED
    BY <2>1, <2>2, FS_Subset, FS_CardinalityType
<1>2. Cardinality(Yes(p)) = Cardinality(yes)
  BY <1>1, SameApprovals
<1>3. p.votes = {Ballot(r, s, i) : i \in DOMAIN s.votes}
  BY DEF VotesOf, Ballot
<1>4. \A i : Ballot(r, s, i).seat = i /\ Ballot(r, s, i).value = s.votes[i]
  BY DEF Ballot
<1>5. CASE r.risk = "R1"
  <2>1. RecomputedFamilies(p) = Families(k, yes)
    <3>1. {w \in Yes(p) : w.seat \in SeatIds(k)} = {Ballot(r, s, i) : i \in yes}
      BY <1>1, <1>3, <1>4 DEF Yes, Approving
    <3> QED
      BY <1>4, <3>1 DEF RecomputedFamilies, Families
  <2> QED
    BY <1>2, <1>5, <2>1 DEF RecomputeQuorum, Quorum, QuorumR1
<1>6. CASE r.risk = "R2"
  <2>1. Reviewers(p) = reviewers
    BY DEF Reviewers
  <2>2. ReviewersYes(p) = yes \cap reviewers
    BY <1>3, <1>4, <2>1 DEF ReviewersYes, Yes, Approving
  <2>3. (\E v \in p.votes : v.seat \in Reviewers(p) /\ v.value = "REJECT")
          <=> \E i \in reviewers \cap DOMAIN s.votes : s.votes[i] = "REJECT"
    BY <1>3, <1>4, <2>1
  <2>4. (Cardinality(yes \cap reviewers) < Cardinality(reviewers)) <=> ~(reviewers \subseteq yes)
    <3>1. /\ Cardinality(yes \cap reviewers) \in Nat
          /\ Cardinality(yes \cap reviewers) <= Cardinality(reviewers)
          /\ Cardinality(reviewers) = Cardinality(yes \cap reviewers) => reviewers = yes \cap reviewers
      BY <1>1, FS_Subset, FS_CardinalityType
    <3> HIDE DEF yes, reviewers
    <3>2. (reviewers = yes \cap reviewers) <=> (reviewers \subseteq yes)
      BY SMT
    <3>3. PICK m \in Nat, n \in Nat :
            m = Cardinality(yes \cap reviewers) /\ n = Cardinality(reviewers)
      BY <1>1, <3>1
    <3>4. m <= n /\ (m = n <=> reviewers = yes \cap reviewers)
      BY <3>1, <3>3
    <3>5. (m < n) <=> ~(reviewers \subseteq yes)
      BY <3>2, <3>4
    <3> QED
      BY <3>3, <3>5
  <2>5. RecomputeR2(p) = QuorumR2(r, k, s.votes)
    <3> HIDE DEF yes, reviewers
    <3> QED
      BY <2>1, <2>2, <2>3, <2>4, Zenon DEF RecomputeR2, QuorumR2, yes, reviewers
  <2> QED
    BY <1>6, <2>5 DEF RecomputeQuorum, Quorum
<1>7. CASE r.risk = "R3"
  BY <1>2, <1>7 DEF RecomputeQuorum, Quorum, QuorumR3
<1> QED
  BY <1>5, <1>6, <1>7 DEF Deciding

(* A proof that is accepted is the one the kernel's session gives.         *)
LEMMA AcceptedIsOwn ==
  ASSUME CouncilInv, NEW r \in Decided, NEW q \in Decided,
         Eligible(OwnProof(q), sessions[r].record)
  PROVE  q = r /\ r.epoch \in DOMAIN Trusted /\ sessions[r].config = Trusted[r.epoch]
<1>1. PICK p : p = OwnProof(q)
  OBVIOUS
<1>2. p # NoProof /\ p.record = sessions[r].record /\ ConfigTrusted(p)
  BY <1>1 DEF Eligible
<1>3. p.request = q /\ p.config = sessions[q].config /\ p.record = sessions[q].record
  BY <1>1, <1>2 DEF OwnProof, BuildProof
<1>4. \A t \in Decided : t \in Request /\ sessions[t].record.id = t.id
  <2> SUFFICES ASSUME NEW t \in Decided
               PROVE  t \in Request /\ sessions[t].record.id = t.id
    OBVIOUS
  <2>1. t \in Request /\ SessionOK(t, sessions[t])
        /\ (sessions[t].state \in Ended \/ sessions[t].state \in Immediately)
    BY DecidedOK
  <2> QED
    BY <2>1 DEF SessionOK, Record
<1>5. q = r
  <2>1. /\ q \in Request /\ sessions[q].record.id = q.id
        /\ r \in Request /\ sessions[r].record.id = r.id
    BY <1>4, Zenon
  <2>2. q.id = r.id
    BY <1>2, <1>3, <2>1
  <2> QED
    BY <2>1, <2>2, CouncilAssumption
<1> QED
  BY <1>2, <1>3, <1>5 DEF ConfigTrusted

(* A decision under the trusted configuration is proved by its session.    *)
LEMMA OwnIsAccepted ==
  ASSUME CouncilInv, NEW r \in Decided, r.risk \in Deciding,
         r.epoch \in DOMAIN Trusted, sessions[r].config = Trusted[r.epoch]
  PROVE  Eligible(OwnProof(r), sessions[r].record)
<1>1. PICK s : s = sessions[r]
  OBVIOUS
<1>2. PICK d : d = s.record
  OBVIOUS
<1>3. PICK c : c = Quorum(r, s.config, s.votes)
  OBVIOUS
<1>4. /\ r \in Request /\ s.state \in Ended /\ d # None
      /\ s.config \in Config /\ ValidConfig(s.config) /\ r.epoch = s.config.epoch /\ VotesOK(s)
      /\ s.commitment \in Content /\ s.candidate = Candidate(r, s.config, s.commitment)
      /\ s.state = IF c.met THEN "DECIDED" ELSE "NO_QUORUM"
      /\ d = Record(r, s.config, s.candidate, s.votes, s.state, Disposed(r, c), c)
  <2>1. r \in Request /\ SessionOK(r, s) /\ (s.state \in Ended \/ s.state \in Immediately)
    BY <1>1, DecidedOK
  <2>2. d # None
    BY <1>1, <1>2 DEF Decided
  <2> QED
    BY <1>2, <1>3, <2>1, <2>2 DEF SessionOK
<1>5. s.candidate # None /\ s.candidate.proposer = Proposer(r, s.config)
  <2>1. Proposer(r, s.config) \in SeatIds(s.config)
    BY <1>4, SeatsAreThree
  <2>2. s.candidate \in [request : Request, proposer : UNION {SeatIds(k) : k \in Config},
                         content : Content]
    BY <1>4, <2>1 DEF Candidate
  <2> QED
    BY <1>4, <2>2, CandidateAssumption DEF Candidate
<1>6. /\ Fields(r) = Fields(d) /\ d.id = r.id /\ d.epoch = r.epoch
      /\ d.candidate = s.candidate
      /\ d.proposer = Proposer(r, s.config) /\ d.votes = Projection(s.config, s.votes)
      /\ d.state = s.state /\ d.disposition = Disposed(r, c) /\ d.detail = c
  BY <1>4, <1>5 DEF Fields, Record
<1>7. PICK p : p = OwnProof(r)
  OBVIOUS
<1>8. /\ p.request = r /\ p.config = s.config /\ p.votes = VotesOf(r, s)
      /\ p.record = d /\ p.provenance = "CONTEMPORANEOUS"
  BY <1>1, <1>2, <1>4, <1>6, <1>7 DEF OwnProof, BuildProof
<1>9. p # NoProof
  BY <1>8 DEF NoProof
<1>10. ConfigTrusted(p)
  BY <1>1, <1>4, <1>8 DEF ConfigTrusted
<1>11. p.votes = {Ballot(r, s, i) : i \in DOMAIN s.votes}
  BY <1>8 DEF VotesOf, Ballot
<1>12. Projected(p) = Projection(s.config, s.votes)
  <2>1. ASSUME NEW x \in SeatIds(s.config)
        PROVE  (IF \E v \in p.votes : v.seat = x THEN (CHOOSE v \in p.votes : v.seat = x).value
                ELSE "MISSING")
                 = IF x \in DOMAIN s.votes THEN s.votes[x] ELSE "MISSING"
    <3>0. /\ \A i \in DOMAIN s.votes : Ballot(r, s, i) \in p.votes /\ Ballot(r, s, i).seat = i
          /\ \A v \in p.votes : v.seat \in DOMAIN s.votes /\ v.value = s.votes[v.seat]
      <4>1. \A i : Ballot(r, s, i).seat = i /\ Ballot(r, s, i).value = s.votes[i]
        BY DEF Ballot
      <4> QED
        BY <1>11, <4>1
    <3>1. (\E v \in p.votes : v.seat = x) <=> x \in DOMAIN s.votes
      BY <3>0
    <3>2. ASSUME x \in DOMAIN s.votes
          PROVE  (CHOOSE v \in p.votes : v.seat = x).value = s.votes[x]
      <4>1. PICK v : v = CHOOSE w \in p.votes : w.seat = x
        OBVIOUS
      <4>2. v \in p.votes /\ v.seat = x
        BY <3>1, <3>2, <4>1
      <4> QED
        BY <3>0, <4>1, <4>2
    <3> QED
      BY <3>1, <3>2
  <2> QED
    BY <1>8, <2>1 DEF Projected, Projection
<1>13. Bindings(p, d)
  <2>1. \A v \in p.votes : /\ v.request = d.id /\ v.epoch = d.epoch /\ v.candidate = d.candidate
                           /\ v.seat \in SeatIds(p.config)
    BY <1>4, <1>6, <1>8, <1>11 DEF Ballot, VotesOK
  <2>2. \A v, w \in p.votes : v.seat = w.seat => v = w
    BY <1>11 DEF Ballot
  <2> QED
    BY <1>4, <1>6, <1>8, <1>12, <2>1, <2>2 DEF Bindings
<1>14. QuorumMatches(p, d)
  <2>1. RecomputeQuorum(p) = c
    BY <1>3, <1>4, <1>8, SameCount
  <2> QED
    BY <1>4, <1>6, <1>8, <2>1 DEF QuorumMatches, Disposed, Deciding
<1> QED
  BY <1>1, <1>2, <1>7, <1>8, <1>9, <1>10, <1>13, <1>14 DEF Eligible

(* The kernel and the verifier of quorum proofs count with code of their    *)
(* own, and always agree: a decision is proved by the votes of its session  *)
(* exactly if its configuration is the registry's for its epoch, and by no  *)
(* other session's votes.  The run shows it before the loops start; it      *)
(* holds throughout.                                                        *)
THEOREM ProofsAndDecisionsAgree == LoopSpec => []RecordsProveThemselves
<1>1. LoopInv => RecordsProveThemselves
  BY AcceptedIsOwn, OwnIsAccepted DEF LoopInv, RecordsProveThemselves, Deciding
<1> QED
  BY <1>1, LoopInvariant, PTL

-----------------------------------------------------------------------------
(* The loops, the operators and the stop use the ledger as a one-use       *)
(* ledger and in no other way, so that what a ledger that implements one   *)
(* promises holds of them.                                                 *)

UsedLedger == INSTANCE OneUseLedger WITH Envelopes <- AnyEnvelope, Needed <- NeedsHuman

(* Grants are for envelopes.                                               *)
GrantsOK == granted \subseteq AnyEnvelope

LEMMA OwnEnvelope ==
  ASSUME LoopInv, NEW r \in Request
  PROVE  Envelope(r, epoch) \in AnyEnvelope
BY DEF LoopInv, LoopTypes, Envelope, AnyEnvelope

(* A step of a loop is a use of the ledger where it passes the gate, and   *)
(* nothing to the ledger elsewhere.                                        *)
LEMMA LoopStepUses ==
  ASSUME LoopInv, NEW l \in Loop, LoopStep(l)
  PROVE  (\E v \in AnyEnvelope : UsedLedger!Consume(v)) \/ UNCHANGED theLedger
<1>1. CASE Gate(l)
  <2>1. PICK v : v = loops[l].envelope
    OBVIOUS
  <2>2. v \in AnyEnvelope
    BY <1>1, <2>1 DEF Gate, At, LoopInv, LocalOK
  <2>3. Ledger!Consume(v) => UsedLedger!Consume(v)
    BY DEF Ledger!Consume, UsedLedger!Consume, Ledger!Allowed, UsedLedger!Allowed
  <2> QED
    BY <1>1, <2>1, <2>2, <2>3 DEF Gate
<1> QED
  BY <1>1 DEF LoopStep, Evaluate, StopCheck, Dispatch

LEMMA LoopNextUses ==
  ASSUME LoopInv, GrantsOK, LoopNext
  PROVE  UsedLedger!Next \/ UNCHANGED theLedger
<1>1. ASSUME NEW r \in Decided, IssueGrant(r)
      PROVE  UsedLedger!Next
  <2>1. PICK v \in AnyEnvelope : v = Envelope(r, epoch)
    BY OwnEnvelope DEF Decided
  <2>2. UsedLedger!Issue(v)
    BY <1>1, <2>1 DEF IssueGrant, Ledger!Issue, UsedLedger!Issue
  <2> QED
    BY <2>2 DEF UsedLedger!Next
<1>2. ASSUME NEW v \in granted, RevokeGrant(v)
      PROVE  UsedLedger!Next
  BY <1>2 DEF RevokeGrant, GrantsOK, Ledger!Revoke, UsedLedger!Revoke, UsedLedger!Next
<1>3. BumpStopEpoch => UsedLedger!Next
  BY DEF BumpStopEpoch, Ledger!Bump, UsedLedger!Bump, UsedLedger!Next
<1>4. ASSUME NEW l \in Loop, LoopStep(l)
      PROVE  UsedLedger!Next \/ UNCHANGED theLedger
  BY <1>4, LoopStepUses DEF UsedLedger!Next
<1> QED
  BY <1>1, <1>2, <1>3, <1>4 DEF LoopNext, SetContext, Run

(* Every behaviour of the council, the loops and the operators is, on the   *)
(* ledger, a behaviour of the one-use ledger that LedgerIsOneUse shows the  *)
(* ledger of the code to implement.                                         *)
THEOREM LoopsUseTheLedger == LoopSpec => UsedLedger!Spec
<1>1. LoopInit => UsedLedger!Init /\ GrantsOK
  BY DEF LoopInit, Ledger!Init, UsedLedger!Init, GrantsOK
<1>2. LoopInv /\ GrantsOK /\ [LoopNext]_loopVars
        => GrantsOK' /\ [UsedLedger!Next]_(UsedLedger!ledgerVars)
  <2> SUFFICES ASSUME LoopInv, GrantsOK, [LoopNext]_loopVars
               PROVE  GrantsOK' /\ [UsedLedger!Next]_(UsedLedger!ledgerVars)
    OBVIOUS
  <2>1. UsedLedger!Next \/ UNCHANGED theLedger
    BY LoopNextUses DEF loopVars
  <2>2. CASE UNCHANGED theLedger
    BY <2>2 DEF theLedger, UsedLedger!ledgerVars, GrantsOK
  <2>3. CASE UsedLedger!Next
    BY <2>3 DEF UsedLedger!Next, UsedLedger!Bump, UsedLedger!Issue, UsedLedger!Revoke,
                UsedLedger!Consume, GrantsOK
  <2> QED
    BY <2>1, <2>2, <2>3
<1> QED
  BY <1>1, <1>2, LoopInvariant, PTL DEF LoopSpec, UsedLedger!Spec
=============================================================================
