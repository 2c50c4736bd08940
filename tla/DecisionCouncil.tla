--------------------------- MODULE DecisionCouncil ---------------------------
(***************************************************************************)
(* The decision council of scripts/dev/decision-council-kernel.mjs: a      *)
(* proposer commits to a proposal, reveals it, the kernel freezes it as    *)
(* the candidate, seats vote on it, and the votes are counted by the rule  *)
(* of the request's risk class.                                            *)
(*                                                                         *)
(* Sessions are values: an event that is rejected leaves the session as it *)
(* was, so only accepted events are steps.  A hash is what it hashes.  The *)
(* votes of a session are a function on the seats that voted; nothing      *)
(* depends on their order.  contextHash and repositoryHead are one value.  *)
(***************************************************************************)
EXTENDS Naturals, FiniteSets

CONSTANTS
  Request,     \* [id, task, risk, context, epoch, rotation]
  Config,      \* [epoch, seats]; seats is <<[id, family, model, epoch], ...>>
  Context,
  Content,     \* what can be proposed
  VoteValue,   \* the values votes take
  None

ASSUME CouncilAssumption ==
  /\ \A r \in Request : r.rotation \in Nat /\ r.risk \in {"R0", "R1", "R2", "R3", "R4"}
  /\ \A r, s \in Request : r.id = s.id => r = s
  /\ VoteValue \subseteq {"APPROVE", "REJECT", "ABSTAIN"}

VARIABLES
  sessions,    \* the session of each request, or None
  context      \* the project context

councilVars == <<sessions, context>>

Terminal == {"COUNCIL_NOT_REQUIRED", "DECIDED", "NO_QUORUM", "DENIED"}
Working == {"CREATED", "COMMITMENT_COLLECTION", "PROPOSAL_REVEAL", "CANDIDATE_FROZEN", "VOTING"}

SeatIds(k) == {k.seats[i].id : i \in 1 .. 3}
SeatOf(k, s) == k.seats[CHOOSE i \in 1 .. 3 : k.seats[i].id = s]
Proposer(r, k) == k.seats[(r.rotation % 3) + 1].id

(* What createSession admits. *)
ValidConfig(k) ==
  /\ Cardinality(SeatIds(k)) = 3
  /\ Cardinality({<<k.seats[i].family, k.seats[i].model>> : i \in 1 .. 3}) = 3
  /\ \A i \in 1 .. 3 : k.seats[i].epoch = k.epoch
Admissible(r, k) == ValidConfig(k) /\ r.epoch = k.epoch /\ r.context = context

Candidate(r, k, c) == [request |-> r, proposer |-> Proposer(r, k), content |-> c]
ASSUME CandidateAssumption ==
  None \notin [request : Request, proposer : UNION {SeatIds(k) : k \in Config}, content : Content]

(* The decision record: every seat's vote, or that it is missing. *)
Projection(k, votes) ==
  [s \in SeatIds(k) |-> IF s \in DOMAIN votes THEN votes[s] ELSE "MISSING"]

Record(r, k, candidate, votes, state, disposition, detail) ==
  [id |-> r.id, task |-> r.task, risk |-> r.risk, context |-> r.context, epoch |-> r.epoch,
   state |-> state, disposition |-> disposition, candidate |-> candidate,
   proposer |-> IF candidate = None THEN None ELSE candidate.proposer,
   votes |-> IF candidate = None THEN None ELSE Projection(k, votes),
   detail |-> detail]

-----------------------------------------------------------------------------
(* The count. *)

Approving(votes) == {s \in DOMAIN votes : votes[s] = "APPROVE"}
Families(k, seats) == {SeatOf(k, s).family : s \in seats}

(* The detail of a count, with the families if it came to count them.      *)
Counted(met, reason, n) ==
  [met |-> met, reason |-> reason, approvals |-> n, families |-> 0]
Diverse(met, reason, n, f) == [Counted(met, reason, n) EXCEPT !.families = f]

QuorumR1(k, votes) ==
  LET n == Cardinality(Approving(votes))
      f == Cardinality(Families(k, Approving(votes)))
  IN IF n < 2 THEN Counted(FALSE, "R1_INSUFFICIENT_APPROVALS", n)
     ELSE IF f < 2 THEN Diverse(FALSE, "R1_DIVERSITY_REQUIREMENT_NOT_MET", n, f)
     ELSE Diverse(TRUE, "R1_QUORUM_MET", n, f)

QuorumR2(r, k, votes) ==
  LET reviewers == SeatIds(k) \ {Proposer(r, k)}
      n == Cardinality(Approving(votes) \cap reviewers)
  IN IF \E s \in reviewers \cap DOMAIN votes : votes[s] = "REJECT"
     THEN Counted(FALSE, "R2_REVIEWER_REJECTED", n)
     ELSE IF ~(reviewers \subseteq Approving(votes))
     THEN Counted(FALSE, "R2_INSUFFICIENT_REVIEWER_APPROVALS", n)
     ELSE Counted(TRUE, "R2_QUORUM_MET", 2)

QuorumR3(votes) ==
  LET n == Cardinality(Approving(votes))
  IN IF n # 3 THEN Counted(FALSE, "R3_INSUFFICIENT_APPROVALS", n)
     ELSE Counted(TRUE, "R3_QUORUM_MET", 3)

Quorum(r, k, votes) ==
  CASE r.risk = "R1" -> QuorumR1(k, votes)
    [] r.risk = "R2" -> QuorumR2(r, k, votes)
    [] OTHER -> QuorumR3(votes)

-----------------------------------------------------------------------------
(* Events.  An artifact names the request, the council epoch and the seat  *)
(* it comes from; one that names another is rejected.                      *)

Artifact == [request : {r.id : r \in Request}, epoch : {k.epoch : k \in Config},
             seat : UNION {SeatIds(k) : k \in Config}]
Bound(r, a) == a.request = r.id /\ a.epoch = r.epoch

In(r, state) == sessions[r] # None /\ sessions[r].state = state
Enter(r, s) == sessions' = [sessions EXCEPT ![r] = s] /\ UNCHANGED context

NewSession(k, state) ==
  [state |-> state, config |-> k, commitment |-> None, proposal |-> None,
   candidate |-> None, votes |-> <<>>, record |-> None]

Immediate(r) ==
  CASE r.risk = "R0" -> "COUNCIL_NOT_REQUIRED"
    [] r.risk = "R4" -> "DENIED"
    [] OTHER -> "CREATED"

CreateSession(r, k) ==
  /\ sessions[r] = None /\ Admissible(r, k)
  /\ LET state == Immediate(r)
         s == NewSession(k, state)
     IN Enter(r, IF state = "CREATED" THEN s
                 ELSE [s EXCEPT !.record = Record(r, k, None, <<>>, state, state,
                                                  Counted(FALSE, state, 0))])

SubmitCommitment(r, a, c) ==
  /\ In(r, "CREATED") /\ Bound(r, a) /\ a.seat = Proposer(r, sessions[r].config)
  /\ Enter(r, [sessions[r] EXCEPT !.state = "COMMITMENT_COLLECTION", !.commitment = c])

RevealProposal(r, a, c) ==
  /\ In(r, "COMMITMENT_COLLECTION") /\ Bound(r, a) /\ a.seat = Proposer(r, sessions[r].config)
  /\ c = sessions[r].commitment
  /\ Enter(r, [sessions[r] EXCEPT !.state = "PROPOSAL_REVEAL", !.proposal = c])

FreezeCandidate(r) ==
  /\ In(r, "PROPOSAL_REVEAL")
  /\ LET s == sessions[r]
     IN Enter(r, [s EXCEPT !.state = "CANDIDATE_FROZEN",
                           !.candidate = Candidate(r, s.config, s.proposal)])

With(votes, seat, value) ==
  [s \in DOMAIN votes \cup {seat} |-> IF s = seat THEN value ELSE votes[s]]

CastVote(r, a, candidate, v) ==
  /\ In(r, "CANDIDATE_FROZEN") \/ In(r, "VOTING")
  /\ candidate = sessions[r].candidate /\ Bound(r, a)
  /\ a.seat \in SeatIds(sessions[r].config) \ DOMAIN sessions[r].votes
  /\ Enter(r, [sessions[r] EXCEPT !.state = "VOTING", !.votes = With(@, a.seat, v)])

Disposed(r, q) ==
  IF ~q.met THEN "NO_QUORUM"
  ELSE IF r.risk = "R3" THEN "HUMAN_APPROVAL_REQUIRED" ELSE "COUNCIL_APPROVED"

Finalize(r) ==
  /\ In(r, "VOTING")
  /\ LET s == sessions[r]
         q == Quorum(r, s.config, s.votes)
         state == IF q.met THEN "DECIDED" ELSE "NO_QUORUM"
     IN Enter(r, [s EXCEPT !.state = state,
                           !.record = Record(r, s.config, s.candidate, s.votes, state,
                                             Disposed(r, q), q)])

CouncilInit ==
  /\ sessions = [r \in Request |-> None]
  /\ context \in Context

Candidates == {sessions[r].candidate : r \in {q \in Request : sessions[q] # None}} \ {None}

(* applyEvent; nothing is accepted once the session has ended. *)
CouncilEvent(r) ==
  \/ \E a \in Artifact, c \in Content : SubmitCommitment(r, a, c) \/ RevealProposal(r, a, c)
  \/ FreezeCandidate(r)
  \/ \E a \in Artifact, d \in Candidates, v \in VoteValue : CastVote(r, a, d, v)
  \/ Finalize(r)

CouncilStep(r) ==
  \/ \E k \in Config : CreateSession(r, k)
  \/ sessions[r] # None /\ sessions[r].state \in Working /\ CouncilEvent(r)

-----------------------------------------------------------------------------
(* What the class of a request asks of those who voted for the candidate,  *)
(* as ADR-0005 puts it, independently of how it is counted.           *)
Carried(r, k, votes) ==
  LET yes == Approving(votes)
  IN CASE r.risk = "R1" -> \E s, t \in yes : SeatOf(k, s).family # SeatOf(k, t).family
       [] r.risk = "R2" -> yes \cup {Proposer(r, k)} = SeatIds(k)
       [] r.risk = "R3" -> yes = SeatIds(k)
       [] OTHER -> FALSE
=============================================================================
