--------------------------- MODULE MCShadowCouncil ---------------------------
(* Exercises for requests of three risk classes and several seatings.       *)
EXTENDS ShadowCouncil, TLC
CONSTANTS c1, plan, a, b, c, e1, run1, run2, task, note
MkSeat(i, f, m) == [id |-> i, family |-> f, model |-> m, epoch |-> e1]
KTrusted == [epoch |-> e1, seats |-> <<MkSeat(a, "f", "m1"), MkSeat(b, "f", "m2"), MkSeat(c, "g", "m1")>>]
MCConfig == {KTrusted}
MCTrusted == e1 :> KTrusted
MkRequest(i, risk) == [id |-> i, task |-> task, risk |-> risk, context |-> c1, epoch |-> e1, rotation |-> 0]
MCRequest == {MkRequest(1, "R1"), MkRequest(2, "R2"), MkRequest(4, "R4")}
MCSeating == {<<>>, <<b, b>>, <<b, c>>, <<a, c>>}

(* The seatings of a request; one source file is changed, or the operator   *)
(* does something during the first; another run id only at the beginning.   *)
Seatings(r) ==
  CASE r.risk = "R1" -> {<<a, c>>, <<b, b>>}
    [] r.risk = "R2" -> {<<b, c>>, <<a, c>>}
    [] OTHER -> {<<>>}
NotBoth ==
  /\ ex.request # None =>
       ex.seats \in Seatings(ex.request) /\ ex.gated = (ex.request.risk = "R2") /\ ex.final # ex.gated
  /\ Cardinality(spoiled) <= 1 /\ \A i \in spoiled : i[1] \in {"request", "assessment", "record"}
  /\ call.by = "operator" => spoiled = {} /\ ex.try = 1 /\ (call.run = run2 => acked = {})
=============================================================================
