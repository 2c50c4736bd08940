----------------------------- MODULE NightRunner -----------------------------
(***************************************************************************)
(* A night: the dry run of a queue and the execution of a single task are  *)
(* two programs that meet in one thing, the stop file, which a person      *)
(* creates and removes while they run.                                     *)
(***************************************************************************)
EXTENDS NightPlanner, NightExecutor

CONSTANT Executed  \* bound: the queues after whose report a task is executed

vars == <<stopFile, plannerVars, executorVars>>

Init == stopFile = FALSE /\ PlannerInit /\ ExecutorInit

Next ==
    \/ PlannerNext(stopFile) /\ UNCHANGED <<stopFile, executorVars>>
    \/ /\ queue \in Executed /\ plan.status \in {"OK", "REFUSED", "STOPPED_BY_KILL_SWITCH"}
       /\ (Refuse \/ Begin)
       /\ UNCHANGED plannerVars
    \/ ExecutorStep /\ UNCHANGED plannerVars
    \/ ProcessStep /\ UNCHANGED plannerVars
    \/ ToggleStop /\ UNCHANGED plannerVars

(* The event loop runs the launch and every timer that is due, and reports *)
(* a child that has closed.  The child owes nothing, and the stop file may *)
(* stay away.                                                              *)
Fairness ==
    /\ WF_vars(PlannerNext(stopFile) /\ UNCHANGED <<stopFile, executorVars>>)
    /\ WF_vars(Launch /\ UNCHANGED plannerVars)
    /\ WF_vars(Timeout /\ UNCHANGED plannerVars)
    /\ WF_vars(Close /\ UNCHANGED plannerVars)
    /\ WF_vars(Escalate /\ UNCHANGED plannerVars)
    /\ WF_vars(GraceEnds /\ UNCHANGED plannerVars)

Spec == Init /\ [][Next]_vars /\ Fairness

(* Every plan ends in a report, and every execution that began is          *)
(* answered, whatever the child does with its signals and its pipes.       *)
EveryCallAnswers ==
    /\ plan.status = "PLANNING" ~> plan.status = "OK"
    /\ exec.phase = "launch" ~> Settled
=============================================================================
