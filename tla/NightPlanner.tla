---------------------------- MODULE NightPlanner ----------------------------
(***************************************************************************)
(* The dry run of a night's queue (scripts/dev/night-runner.mjs): from a   *)
(* queue of tasks and the kill switch, the state each task would end in.   *)
(* planQueue goes through the tasks in order, with the limits that what it *)
(* has charged so far leaves; a step here is one task it passes over or    *)
(* one attempt it charges.                                                 *)
(***************************************************************************)
EXTENDS Integers, Sequences, FiniteSetsExt

CONSTANT Queue  \* the queue documents: limits, and tasks in their order

(* The limits and estimates are numbers, here integers, and the tasks an   *)
(* array; whether they make a queue that can be run, Valid has to say.     *)
ASSUME QueueAssumption ==
    \A q \in Queue :
        /\ {q.maxRuntime, q.maxTasks, q.timeout, q.maxRetries} \subseteq Int
        /\ Len(q.tasks) \in Nat /\ DOMAIN q.tasks = 1..Len(q.tasks)
        /\ \A i \in DOMAIN q.tasks : q.tasks[i].estimate \in Int

VARIABLES queue,  \* the document that is planned
          plan    \* planQueue's results so far, and what they have used

plannerVars == <<queue, plan>>

(* validateQueueStructure: every id is new, no task writes to main, and a  *)
(* dependency names an earlier task, once; the limits leave room to run.   *)
Valid(q) ==
    /\ q.maxRuntime > 0 /\ q.maxTasks > 0 /\ q.timeout > 0 /\ q.maxRetries >= 0
    /\ \A i \in DOMAIN q.tasks :
           /\ q.tasks[i].branch # "main"
           /\ q.tasks[i].estimate >= 0
           /\ \A j \in 1..(i - 1) : q.tasks[j].id # q.tasks[i].id
           /\ \A d \in q.tasks[i].depends : \E j \in 1..(i - 1) : q.tasks[j].id = d

(* An attempt is cut off at the timeout and charged no more than that.     *)
AttemptRuntime(q, t) == Min({t.estimate, q.timeout})

PlannerInit ==
    /\ queue \in Queue
    /\ plan = [status |-> "NEW", ends |-> <<>>, runs |-> <<>>, used |-> 0,
               ran |-> 0, attempts |-> 0, tripped |-> FALSE]

(* The report of a malformed queue, of one the kill switch stops, or the   *)
(* beginning of one that is gone through.                                  *)
PlanQueue(stopSwitchActive) ==
    /\ plan.status = "NEW"
    /\ plan' =
         CASE ~Valid(queue) -> [plan EXCEPT !.status = "REFUSED"]
           [] Valid(queue) /\ stopSwitchActive ->
                [plan EXCEPT !.status = "STOPPED_BY_KILL_SWITCH",
                             !.ends = [i \in DOMAIN queue.tasks |-> "STOPPED"],
                             !.runs = [i \in DOMAIN queue.tasks |-> 0]]
           [] OTHER -> [plan EXCEPT !.status = "PLANNING"]
    /\ UNCHANGED queue

Task == queue.tasks[Len(plan.ends) + 1]
Planning == plan.status = "PLANNING" /\ Len(plan.ends) < Len(queue.tasks)

(* The task that is looked at ends, after the attempts charged for it.     *)
Ended(p, end) == [p EXCEPT !.ends = Append(@, end), !.runs = Append(@, p.attempts),
                           !.attempts = 0]

Indices(ids) == {i \in DOMAIN queue.tasks : queue.tasks[i].id \in ids}

(* Seeded fault: a dependency that waits for a human does not block.       *)
BlockedUngated(t) == \E i \in Indices(t.depends) : plan.ends[i] # "READY_FOR_HUMAN"

(* A direct dependency that is not ready, or waits for a human.            *)
Blocked(t) == \E i \in Indices(t.depends) :
                  plan.ends[i] # "READY_FOR_HUMAN" \/ queue.tasks[i].gated

(* A task that is not attempted: a limit was reached before, a dependency  *)
(* or the missing authorization blocks it, or it is one task too many.     *)
MayRun(t) == ~plan.tripped /\ ~Blocked(t) /\ t.authorized
PassTask ==
    /\ Planning
    /\ plan.attempts = 0
    /\ \/ /\ plan.tripped
          /\ plan' = Ended(plan, "STOPPED")
       \/ /\ ~plan.tripped /\ ~MayRun(Task)
          /\ plan' = Ended(plan, "BLOCKED")
       \/ /\ MayRun(Task) /\ plan.ran + 1 > queue.maxTasks
          /\ plan' = Ended([plan EXCEPT !.tripped = TRUE], "STOPPED")
    /\ UNCHANGED queue

(* One more attempt, or its limit: the runtime is charged per attempt, and *)
(* a task whose estimate exceeds the timeout is retried until it fails.    *)
AttemptTask ==
    /\ Planning
    /\ \/ plan.attempts > 0
       \/ MayRun(Task) /\ plan.ran + 1 <= queue.maxTasks
    /\ LET cost == AttemptRuntime(queue, Task)
           begun == IF plan.attempts = 0 THEN [plan EXCEPT !.ran = @ + 1] ELSE plan
           charged == [begun EXCEPT !.used = @ + cost, !.attempts = @ + 1]
       IN  plan' =
             CASE plan.used + cost > queue.maxRuntime ->
                    Ended([begun EXCEPT !.tripped = TRUE], "STOPPED")
               [] plan.used + cost <= queue.maxRuntime /\ Task.estimate <= queue.timeout ->
                    Ended(charged, "READY_FOR_HUMAN")
               [] plan.used + cost <= queue.maxRuntime /\ Task.estimate > queue.timeout ->
                    IF plan.attempts < queue.maxRetries THEN charged
                    ELSE Ended(charged, "FAILED")
    /\ UNCHANGED queue

(* The report.                                                             *)
EndPlan ==
    /\ plan.status = "PLANNING"
    /\ Len(plan.ends) = Len(queue.tasks)
    /\ plan' = [plan EXCEPT !.status = "OK"]
    /\ UNCHANGED queue

PlannerNext(stopSwitchActive) == PlanQueue(stopSwitchActive) \/ PassTask \/ AttemptTask \/ EndPlan

-----------------------------------------------------------------------------
(* The tasks a task rests on, directly or through others: the least set    *)
(* that holds its dependencies and theirs.                                 *)
Upstream(t) ==
    LET closed(s) == \A i \in s : Indices(queue.tasks[i].depends) \subseteq s
        holding == {s \in SUBSET DOMAIN queue.tasks :
                       Indices(t.depends) \subseteq s /\ closed(s)}
    IN  {i \in DOMAIN queue.tasks : \A s \in holding : i \in s}

(* The sum of a sequence, and what the attempts at the tasks cost together. *)
Total(c) ==
    LET upTo[n \in 0..Len(c)] == IF n = 0 THEN 0 ELSE upTo[n - 1] + c[n]
    IN  upTo[Len(c)]
Charges(q, runs) == [i \in DOMAIN runs |-> runs[i] * AttemptRuntime(q, q.tasks[i])]

(* What a report promises.  A task that is ready is authorized, and so is  *)
(* everything upstream of it, which is ready too and waits for no human;   *)
(* all the attempts together are within the runtime and the number of      *)
(* tasks, however the retries fell; only a task that used them all failed; *)
(* and the kill switch leaves nothing to run.                              *)
PlanKeepsItsLimits ==
    /\ plan.status \in {"OK", "STOPPED_BY_KILL_SWITCH"} =>
         /\ \A i \in DOMAIN queue.tasks : plan.ends[i] = "READY_FOR_HUMAN" =>
               /\ queue.tasks[i].authorized
               /\ \A j \in Upstream(queue.tasks[i]) :
                     /\ plan.ends[j] = "READY_FOR_HUMAN"
                     /\ queue.tasks[j].authorized /\ ~queue.tasks[j].gated
         /\ DOMAIN plan.runs = DOMAIN queue.tasks
         /\ Total(Charges(queue, plan.runs)) <= queue.maxRuntime
         /\ Cardinality({i \in DOMAIN queue.tasks : plan.runs[i] > 0}) <= queue.maxTasks
         /\ \A i \in DOMAIN queue.tasks : plan.ends[i] = "FAILED" =>
               plan.runs[i] = queue.maxRetries + 1
    /\ plan.status = "STOPPED_BY_KILL_SWITCH" =>
         \A i \in DOMAIN queue.tasks : plan.runs[i] = 0
=============================================================================
