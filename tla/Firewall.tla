------------------------------ MODULE Firewall ------------------------------
(***************************************************************************)
(* The orchestrator firewall: the installer registers a release in         *)
(* settings.json while sessions run, and a hook event reaches the          *)
(* dispatcher only through a registered loader that verifies its release.  *)
(* With no hook registered the host runs a delegation unrecorded.          *)
(***************************************************************************)
EXTENDS FirewallInstall, FirewallHooks

CONSTANT Overlap  \* bound: whether the installer works on once hooks have run

vars == <<installVars, hooksVars>>

Init == InstallInit /\ HooksInit

(* No delegation, stop or change of the workspace yet.                      *)
HooksAtRest == /\ tool = [d \in Delegation |-> [state |-> "new"]]
               /\ hook = [h \in Hooks |-> NoHook]
               /\ stops = <<>> /\ work = 0

Enforced == settings.owned # {} /\ \A a \in settings.owned : Verifies(a)

HookEvent == Enforced /\ HookBegins /\ UNCHANGED installVars

Unhooked(d) ==
    /\ settings.owned = {}
    /\ tool[d].state = "new"
    /\ \E role \in Role :
           tool' = [tool EXCEPT ![d] = [state |-> "running", role |-> role, thread |-> NoThread]]
    /\ UNCHANGED <<installVars, store, stops, hook, work, baseline, clock, crashes>>

Next ==
    \/ (Overlap \/ HooksAtRest) /\ InstallNext /\ UNCHANGED hooksVars
    \/ HookStep /\ UNCHANGED installVars
    \/ HookEvent
    \/ \E d \in Delegation : Unhooked(d)

Spec == Init /\ [][Next]_vars
=============================================================================
