----------------------------- MODULE MCFirewall -----------------------------
(* Two delegations, an engine of two files and two releases at a time.      *)
EXTENDS Firewall, FiniteSets, TLC
CONSTANTS d1, d2, t1
Delegations == Permutations({d1, d2})

(* Each change leaves something new, or each second one puts back what was *)
(* there.                                                                   *)
EachNew == [n \in 0 .. MaxChange |-> n]
PutBack == [n \in 0 .. MaxChange |-> n % 2]

(* The installer: a source or the commit, not both, differs from the first. *)
FewReleases ==
  /\ source.commit = 1 \/ source.files["ledger"] = 1
  /\ source.files["dispatcher"] = 1
  /\ Cardinality({a \in Address : disk[a] # Missing}) <= 2
  /\ Cardinality(backups) <= 2

(* The hooks run over one installed release: what the installer does to the *)
(* others is not seen by them.                                              *)
Settled == run = Idle /\ source = FirstSource /\ backups = {{}}
           /\ settings = [owned |-> {FirstSource}, other |-> 1]
           /\ \A a \in Address \ {FirstSource} : disk[a] = Missing
Fresh == run = Idle /\ source = FirstSource /\ backups = {} /\ settings.other = 1
OneOfThem == HooksAtRest /\ ~HooksAtRest' => Settled \/ Fresh

(* The hooks that run, and delegations that name no thread.                  *)
Running == {h \in Hooks : hook[h] # NoHook}
Unnamed == \A d \in Delegation :
             /\ "thread" \in DOMAIN tool[d] => tool[d].thread = NoThread
             /\ "id" \in DOMAIN tool[d] => tool[d].id = NoThread

(* A workspace that was put back is followed with hooks one after another,   *)
(* none cut short, and delegations that succeed and name no thread.          *)
OneByOne ==
  /\ Cardinality(Running) <= 1 /\ crashes = 0 /\ Unnamed
  /\ \A d \in Delegation : tool[d].state \notin {"denied", "failed"}

(* At most two hooks overlap, and one once a hook was cut short; threads are *)
(* named only where none was.  A ledger whose chain is broken and a turn     *)
(* that has ended are not followed further.                                  *)
TurnOpen ==
  /\ baseline = 0
  /\ work > 1 => OneByOne
  /\ IF crashes = 0 THEN Cardinality(Running) <= 2 ELSE Cardinality(Running) <= 1 /\ Unnamed
  /\ \A i \in DOMAIN store["ledger"].lines : store["ledger"].lines[i].seq = i - 1
  /\ \A i \in DOMAIN stops : stops[i].answer = "block"
  /\ Len(stops) < MaxStop
  /\ HooksAtRest \/ settings.owned # {}
=============================================================================
