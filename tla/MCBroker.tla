------------------------------ MODULE MCBroker ------------------------------
(* Two grants for one branch: dFirst builds on the base and has no pull     *)
(* request, dSecond builds on dFirst's commit and has one.  Two requests    *)
(* run at once.                                                             *)
EXTENDS PublicationBroker, TLC
CONSTANTS dFirst, dSecond, base, first, second
MCTarget == [d \in Digest |-> IF d = dFirst THEN first ELSE second]
MCPredecessor == [d \in Digest |-> IF d = dFirst THEN base ELSE first]
Symmetry == Permutations(Caller) \cup Permutations(PrNumber)

(* Which grants meet in a behaviour: one alone, with revokes and expiry or  *)
(* with what others do to the branch and its pull requests after them; or   *)
(* each request has its own, up to the pull request of the second, and      *)
(* neither is revoked or expires and nobody else touches the branch.        *)
Jobs == {job[c].digest : c \in Caller}
Met == {d \in Digest : mem[d] # NoGrant} \cup lapsed \cup revoking \cup Jobs
NoPrYet == \A n \in PrNumber : prs[n] = "unused"
Undisturbed == revoking = {} /\ lapsed = {}
Together ==
  /\ outside = 0 \/ Undisturbed
  /\ \/ Met = {dFirst} /\ outside <= 1
     \/ /\ Met = {dSecond} /\ base \notin landed
        /\ outside = 2 => late = {} /\ ~NoPrYet
     \/ /\ Jobs = Digest /\ Undisturbed /\ outside = 0
        /\ \A c \in Caller : pc[c] \notin PhaseB
        /\ NoPrYet
=============================================================================
