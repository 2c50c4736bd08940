----------------------------- MODULE CouncilProof -----------------------------
(***************************************************************************)
(* Quorum proofs, scripts/dev/council-quorum-proof.mjs: the request, the   *)
(* configuration and the votes of a decision beside its record, for        *)
(* somebody who does not trust the kernel and counts again.                *)
(*                                                                         *)
(* A hash is what it hashes; Trusted is the configuration the verifier's   *)
(* registry has for an epoch.  The votes of a proof are a set, so that two *)
(* votes of a seat can be told from one.                                   *)
(***************************************************************************)
EXTENDS DecisionCouncil

CONSTANT Trusted

ASSUME TrustedAssumption == \A e \in DOMAIN Trusted : Trusted[e].epoch = e

Fields(x) == <<x.id, x.task, x.risk, x.context, x.epoch>>
NoProof == [provenance |-> "NONE"]

(* buildCouncilQuorumProof. *)
BuildProof(r, k, votes, d) ==
  IF d # None /\ ValidConfig(k) /\ Fields(r) = Fields(d)
  THEN [request |-> r, config |-> k, votes |-> votes, record |-> d, provenance |-> "CONTEMPORANEOUS"]
  ELSE NoProof

(* The votes of a session as the artifacts a proof carries. *)
VotesOf(r, s) ==
  {[request |-> r.id, epoch |-> r.epoch, candidate |-> s.candidate,
    seat |-> i, value |-> s.votes[i]] : i \in DOMAIN s.votes}

ConfigTrusted(p) ==
  ValidConfig(p.config) /\ p.request.epoch \in DOMAIN Trusted /\ Trusted[p.request.epoch] = p.config

Projected(p) ==
  [s \in SeatIds(p.config) |->
     IF \E v \in p.votes : v.seat = s THEN (CHOOSE v \in p.votes : v.seat = s).value
     ELSE "MISSING"]

Bindings(p, d) ==
  /\ Fields(p.request) = Fields(d) /\ p.request.epoch = p.config.epoch
  /\ \A v \in p.votes : /\ v.request = d.id /\ v.epoch = d.epoch /\ v.candidate = d.candidate
                        /\ v.seat \in SeatIds(p.config)
  /\ \A v, w \in p.votes : v.seat = w.seat => v = w
  /\ Proposer(p.request, p.config) = d.proposer
  /\ Projected(p) = d.votes

(* recomputeQuorum counts without the kernel's rules. *)
Yes(p) == {v \in p.votes : v.value = "APPROVE"}
Reviewers(p) == SeatIds(p.config) \ {Proposer(p.request, p.config)}
ReviewersYes(p) == {s \in Reviewers(p) : \E v \in Yes(p) : v.seat = s}
RecomputedFamilies(p) ==
  {SeatOf(p.config, v.seat).family : v \in {w \in Yes(p) : w.seat \in SeatIds(p.config)}}

(* Seeded fault: an abstention of a reviewer is a rejection. *)
RecomputeStrictly(p) ==
  LET n == Cardinality(ReviewersYes(p))
  IN IF n < 2 THEN Counted(FALSE, "R2_REVIEWER_REJECTED", n) ELSE Counted(TRUE, "R2_QUORUM_MET", 2)

RecomputeR2(p) ==
  LET n == Cardinality(ReviewersYes(p))
  IN IF \E v \in p.votes : v.seat \in Reviewers(p) /\ v.value = "REJECT"
     THEN Counted(FALSE, "R2_REVIEWER_REJECTED", n)
     ELSE IF n < Cardinality(Reviewers(p))
     THEN Counted(FALSE, "R2_INSUFFICIENT_REVIEWER_APPROVALS", n)
     ELSE Counted(TRUE, "R2_QUORUM_MET", 2)

RecomputeQuorum(p) ==
  LET n == Cardinality(Yes(p))
      f == Cardinality(RecomputedFamilies(p))
  IN CASE p.request.risk = "R1" ->
            IF n < 2 THEN Counted(FALSE, "R1_INSUFFICIENT_APPROVALS", n)
            ELSE IF f < 2 THEN Diverse(FALSE, "R1_DIVERSITY_REQUIREMENT_NOT_MET", n, f)
            ELSE Diverse(TRUE, "R1_QUORUM_MET", n, f)
       [] p.request.risk = "R2" -> RecomputeR2(p)
       [] OTHER ->
            IF n # 3 THEN Counted(FALSE, "R3_INSUFFICIENT_APPROVALS", n)
            ELSE Counted(TRUE, "R3_QUORUM_MET", 3)

(* expectedOutcome, and that the record has it. *)
QuorumMatches(p, d) ==
  /\ p.request.risk \in {"R1", "R2", "R3"}
  /\ LET q == RecomputeQuorum(p)
     IN /\ d.detail = q
        /\ d.state = IF q.met THEN "DECIDED" ELSE "NO_QUORUM"
        /\ d.disposition = IF ~q.met THEN "NO_QUORUM"
                           ELSE IF p.request.risk = "R3" THEN "HUMAN_APPROVAL_REQUIRED"
                           ELSE "COUNCIL_APPROVED"

(* authorizationEvidenceEligible of verifyCouncilQuorumProof. *)
Eligible(p, d) ==
  /\ p # NoProof /\ p.record = d
  /\ ConfigTrusted(p) /\ Bindings(p, d) /\ QuorumMatches(p, d)
  /\ p.provenance = "CONTEMPORANEOUS"
=============================================================================
