------------------------- MODULE MCAuthorizationLoop -------------------------
(* One request of each risk class, of which two reach the council in a      *)
(* behaviour; a trusted configuration with two seats of one family and one  *)
(* that is not the registry's; two loops over one ledger.                   *)
EXTENDS AuthorizationLoop, TLC
CONSTANTS c1, c2, plan, draft, a, b, c, e1, go, l1, l2
MkSeat(i, f, m) == [id |-> i, family |-> f, model |-> m, epoch |-> e1]
KTrusted == [epoch |-> e1, seats |-> <<MkSeat(a, "f", "m1"), MkSeat(b, "f", "m2"), MkSeat(c, "g", "m1")>>]
KOther == [epoch |-> e1, seats |-> <<MkSeat(a, "f", "m1"), MkSeat(b, "h", "m2"), MkSeat(c, "g", "m1")>>]
MCConfig == {KTrusted, KOther}
MCTrusted == e1 :> KTrusted
MkRequest(i, risk) == [id |-> i, task |-> IF risk = "R0" THEN "shut" ELSE "open", risk |-> risk,
                       context |-> c1, epoch |-> e1, rotation |-> 1]
MCRequest == {MkRequest(1, "R1"), MkRequest(2, "R2"), MkRequest(3, "R3"), MkRequest(4, "R0"), MkRequest(5, "R4")}
MCTask == {[id |-> "open", blocked |-> FALSE], [id |-> "shut", blocked |-> TRUE]}
Symmetry == Permutations(Loop) \cup Permutations({plan, draft})

(* At most two sessions, of which one may be under the other configuration; *)
(* they are held before the loops run.  The loops run for one decision      *)
(* that was made or that everybody rejected; or for two that everybody      *)
(* approved, in an unchanged context.                                       *)
Held == {r \in Request : sessions[r] # None}
Two == Cardinality(Held) = 2
All(r, v) == LET s == sessions[r] IN
  s.record # None /\ DOMAIN s.votes = {a, b, c} /\ \A i \in DOMAIN s.votes : s.votes[i] = v
Settled(r) == sessions[r].state \in Terminal \ {"NO_QUORUM"} \/ All(r, "REJECT")
CouncilFirst ==
  /\ Cardinality(Held) <= 2
  /\ Two => \A r \in Held : sessions[r].config = KTrusted /\ r.risk \in {"R1", "R3"}
  /\ \/ (\A l \in Loop : At(l, "idle")) /\ epoch = 0 /\ context = c1
     \/ ~Two /\ \A r \in Held : Settled(r)
     \/ Two /\ context = c1 /\ \A r \in Held : All(r, "APPROVE")
=============================================================================
