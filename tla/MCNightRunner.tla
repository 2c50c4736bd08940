---------------------------- MODULE MCNightRunner ----------------------------
(* Queues of three tasks in every shape of their dependencies; an execution *)
(* after the first of them.                                                 *)
EXTENDS NightRunner, TLC

MkTask(i, depends, authorized, gated, estimate) ==
  [id |-> i, branch |-> "task", depends |-> depends, authorized |-> authorized,
   gated |-> gated, estimate |-> estimate]
Tasks == {<<MkTask(1, {}, a[1], g[1], e[1]), MkTask(2, d2, a[2], g[2], e[2]),
            MkTask(3, d3, a[3], FALSE, e[3])>> :
            d2 \in SUBSET {1}, d3 \in SUBSET {1, 2}, a \in [1..3 -> BOOLEAN],
            g \in [1..2 -> BOOLEAN], e \in [1..3 -> {1, 3}]}
MkQueue(tasks, runtime, most, retries) ==
  [tasks |-> tasks, maxRuntime |-> runtime, maxTasks |-> most, timeout |-> 2,
   maxRetries |-> retries]
Good == {MkQueue(t, r, m, n) : t \in Tasks, r \in {3, 6}, m \in {2, 3}, n \in {0, 1}}

(* Malformed: a dependency that comes later, an id used twice, a task on main. *)
First == MkTask(1, {}, TRUE, FALSE, 1)
Bad == {MkQueue(t, 3, 3, 0) : t \in {<<MkTask(1, {2}, TRUE, FALSE, 1), MkTask(2, {}, TRUE, FALSE, 1)>>,
                                     <<First, First>>, <<First, [First EXCEPT !.branch = "main"]>>}}
MCQueue == Good \cup Bad
MCExecuted == {MkQueue(<<First, [First EXCEPT !.branch = "main"]>>, 3, 3, 0)}
=============================================================================
