------------------------ MODULE MCAuthorizationLedger ------------------------
(* A decision a policy satisfies and one a human must approve, of each      *)
(* every envelope is submitted; one without a quorum proof; and an envelope *)
(* that points to one decision with the hash of another.                    *)
EXTENDS AuthorizationLedger, TLC
CONSTANTS policy, human, unproven, made, other
MCOrigin == [a \in Auth |-> made]
Honest == {[ref |-> e.auth, hash |-> e] : e \in [auth : Auth \ Unproven, epoch : Epoch]}
Odd == {[ref |-> unproven, hash |-> [auth |-> unproven, epoch |-> 0]],
        [ref |-> policy, hash |-> [auth |-> human, epoch |-> 0]]}
MCSubmission == Honest \cup {s \in Odd : s.hash.auth \in Auth}
Symmetry == Permutations(Caller) \cup Permutations(Bumper)
=============================================================================
