----------------------------- MODULE NightProofs -----------------------------
(***************************************************************************)
(* Proofs about a night, for every queue and every order of the callbacks, *)
(* the processes and the stop file: first the execution of a task, then    *)
(* the dry run of the queue.                                               *)
(*                                                                         *)
(* What an answer says of the processes is about the past of the call: the *)
(* reason acted on first, the signal sent since, and the close that was    *)
(* seen.  The invariant ties each of these to what the group can still do. *)
(* What a report says is about sums and closures over the whole queue; the *)
(* invariant of the planner says it of the tasks it has looked at.         *)
(***************************************************************************)
EXTENDS NightRunner, FiniteSetTheorems, WellFoundedInduction, TLAPS

Cause == {"stop", "timeout"}

Call == [phase : {"idle", "launch", "running", "refused"},
         platform : {None, "posix", "win32"},
         fallback : BOOLEAN,
         asked : Seq(Cause),
         kind : Cause \cup {None},
         escalated : BOOLEAN,
         closed : {None, "zero", "other"},
         result : [outcome : {None, "REFUSED", "COMPLETED", "FAILED", "STOPPED", "TIMED_OUT"},
                   uncertain : BOOLEAN]]

Process == {"child", "helper", "stray"}

Group == [alive : SUBSET Process, pipes : SUBSET Process,
          code : {None, "zero", "other"}, signal : {None, "TERM", "KILL"},
          refused : BOOLEAN]

(* Nothing was started yet: no process, no reason to end one, no close.    *)
NotLaunched ==
  exec.phase # "running" =>
    /\ exec.phase = "launch" => exec.platform \in {"posix", "win32"}
    /\ group = NoProcess
    /\ exec.asked = <<>> /\ exec.kind = None /\ ~exec.escalated /\ exec.closed = None
    /\ Settled => exec.phase = "refused" /\ exec.result.outcome = "REFUSED"

(* The kind is the first reason that was asked for; a tree on win32 and an *)
(* escalated group have been killed.                                       *)
Asked ==
  /\ exec.kind = None => exec.asked = <<>> /\ group.signal = None /\ ~exec.escalated
  /\ exec.kind # None => exec.asked # <<>> /\ exec.asked[1] = exec.kind
  /\ exec.phase = "running" => exec.platform \in {"posix", "win32"}
  /\ exec.kind # None /\ exec.platform = "win32" => group.signal = "KILL"
  /\ exec.escalated => group.signal = "KILL"

(* A child that has closed is gone for good, and nobody holds its pipes.   *)
Gone == group.pipes = {} /\ "child" \notin group.alive
ClosedIsGone == exec.closed # None => Gone

(* What a result says.                                                     *)
Answered ==
  Settled /\ exec.phase = "running" =>
    /\ exec.kind # None =>
         /\ exec.result.outcome = TerminatedAs(exec)
         /\ group.signal = "KILL"
         /\ ~exec.result.uncertain => Gone
    /\ exec.kind = None =>
         /\ "child" \notin group.alive
         /\ exec.result.outcome = IF group.code = "zero" THEN "COMPLETED" ELSE "FAILED"

NightInv ==
  /\ exec \in Call
  /\ group \in Group
  /\ NotLaunched
  /\ Asked
  /\ ClosedIsGone
  /\ Answered

-----------------------------------------------------------------------------
(* Every step keeps it.                                                    *)

USE DEF None

LEMMA NightInit ==
  ASSUME ExecutorInit
  PROVE  NightInv
<1>1. exec \in Call /\ group \in Group
  BY DEF ExecutorInit, NotStarted, NoProcess, Call, Group
<1>2. NotLaunched /\ Asked /\ ClosedIsGone /\ Answered
  BY DEF ExecutorInit, NotStarted, NoProcess, NotLaunched, Asked, ClosedIsGone, Answered, Settled
<1> QED
  BY <1>1, <1>2 DEF NightInv

LEMMA NightStutter ==
  ASSUME NightInv, UNCHANGED executorVars
  PROVE  NightInv'
  BY DEF executorVars, NightInv, NotLaunched, Asked, ClosedIsGone, Gone, Answered, Settled, TerminatedAs

LEMMA RefuseKeeps ==
  ASSUME NightInv, Refuse
  PROVE  NightInv'
<1> USE DEF Refuse, NightInv
<1>1. exec' \in Call /\ group' \in Group
  BY DEF Call
<1>2. NotLaunched' /\ Asked' /\ ClosedIsGone' /\ Answered'
  BY DEF Call, NotLaunched, Asked, ClosedIsGone, Gone, Answered, Settled
<1> QED
  BY <1>1, <1>2

LEMMA BeginKeeps ==
  ASSUME NightInv, Begin
  PROVE  NightInv'
<1> USE DEF Begin, NightInv
<1>1. exec' \in Call /\ group' \in Group
  BY DEF Call
<1>2. NotLaunched' /\ Asked' /\ ClosedIsGone' /\ Answered'
  BY DEF Call, NotLaunched, Asked, ClosedIsGone, Gone, Answered, Settled
<1> QED
  BY <1>1, <1>2

LEMMA LaunchKeeps ==
  ASSUME NightInv, Launch
  PROVE  NightInv'
<1> USE DEF NightInv
<1>1. exec.phase = "launch" /\ group = NoProcess /\ exec.asked = <<>> /\ exec.kind = None
      /\ ~exec.escalated /\ exec.closed = None /\ ~Settled
  BY DEF Launch, NotLaunched
<1>2. CASE /\ exec' = [exec EXCEPT !.phase = "running"]
           /\ group' = [group EXCEPT !.alive = {"child"}, !.pipes = {"child"}]
  <2>1. exec' \in Call /\ group' \in Group
    BY <1>2 DEF Call, Group, Process
  <2>2. /\ exec'.phase = "running" /\ exec'.asked = <<>> /\ exec'.kind = None
        /\ exec'.closed = None /\ exec'.result = exec.result /\ exec'.platform = exec.platform
        /\ ~exec'.escalated /\ group'.signal = None
    BY <1>1, <1>2 DEF Call, Group, NoProcess
  <2>3. NotLaunched' /\ Asked' /\ ClosedIsGone' /\ Answered'
    BY <1>1, <2>2 DEF NotLaunched, Asked, ClosedIsGone, Answered, Settled
  <2> QED
    BY <2>1, <2>3
<1>3. CASE exec' = [exec EXCEPT !.fallback = TRUE] /\ UNCHANGED group
  <2>1. exec' \in Call /\ group' \in Group
    BY <1>3 DEF Call
  <2>2. NotLaunched' /\ Asked' /\ ClosedIsGone' /\ Answered'
    BY <1>1, <1>3 DEF Call, NotLaunched, Asked, ClosedIsGone, Answered, Settled
  <2> QED
    BY <2>1, <2>2
<1>4. CASE exec' = Finish([exec EXCEPT !.phase = "running"], "FAILED", FALSE) /\ UNCHANGED group
  <2>1. exec' \in Call /\ group' \in Group
    BY <1>4 DEF Call, Finish
  <2>2. /\ exec'.phase = "running" /\ exec'.asked = <<>> /\ exec'.kind = None
        /\ exec'.closed = None /\ exec'.result.outcome = "FAILED"
        /\ exec'.platform = exec.platform
        /\ ~exec'.escalated
    BY <1>1, <1>4 DEF Call, Finish
  <2>3. group'.signal = None /\ group'.code = None /\ group'.alive = {}
    BY <1>1, <1>4 DEF NoProcess
  <2>4. NotLaunched' /\ Asked' /\ ClosedIsGone' /\ Answered'
    BY <1>1, <2>2, <2>3 DEF NotLaunched, Asked, ClosedIsGone, Answered, Settled
  <2> QED
    BY <2>1, <2>4
<1> QED
  BY <1>2, <1>3, <1>4 DEF Launch

(* A timer asks to end the group: the first to ask names the result.       *)
LEMMA RequestKeeps ==
  ASSUME NightInv, Running, NEW kind \in Cause, RequestTermination(kind)
  PROVE  NightInv'
<1> USE DEF NightInv
<1>1. exec.phase = "running" /\ ~Settled /\ exec \in Call /\ group \in Group
  BY DEF Running
<1>2. PICK asked : asked = Append(exec.asked, kind)
  OBVIOUS
<1> HIDE DEF NightInv
<1>3. /\ asked \in Seq(Cause) /\ asked # <<>>
      /\ exec.asked = <<>> => asked[1] = kind
      /\ exec.asked # <<>> => asked[1] = exec.asked[1]
  <2>1. exec.asked \in Seq(Cause)
    BY <1>1 DEF Call
  <2> QED
    BY <1>2, <2>1
<1> USE DEF NightInv
<1>4. CASE exec.kind = None
  <2>1. exec' = [exec EXCEPT !.asked = asked, !.kind = kind]
    BY <1>1, <1>2, <1>4 DEF RequestTermination, Terminating, Call
  <2>2. PICK refused \in BOOLEAN :
          group' = [group EXCEPT !.signal = IF exec.platform = "win32" THEN "KILL" ELSE "TERM",
                                 !.refused = refused]
    BY <1>4 DEF RequestTermination, Terminating, Signalled, FirstSignal
  <2>3. exec' \in Call /\ group' \in Group
    BY <1>1, <1>3, <2>1, <2>2 DEF Call, Group
  <2>4. NotLaunched' /\ Asked' /\ ClosedIsGone' /\ Answered'
    BY <1>1, <1>3, <1>4, <2>1, <2>2
    DEF Call, Group, Cause, NotLaunched, Asked, ClosedIsGone, Gone, Answered, Settled
  <2> QED
    BY <2>3, <2>4
<1>5. CASE exec.kind # None
  <2>1. exec' = [exec EXCEPT !.asked = asked] /\ group' = group
    BY <1>1, <1>2, <1>5 DEF RequestTermination, Terminating, Call
  <2>2. exec' \in Call /\ group' \in Group
    BY <1>1, <1>3, <2>1 DEF Call
  <2>3. NotLaunched' /\ Asked' /\ ClosedIsGone' /\ Answered'
    BY <1>1, <1>3, <1>5, <2>1
    DEF Call, NotLaunched, Asked, ClosedIsGone, Gone, Answered, Settled
  <2> QED
    BY <2>2, <2>3
<1> QED
  BY <1>4, <1>5

(* The result e is one that the invariant allows.                          *)
LEMMA FinishKeeps ==
  ASSUME NightInv, Running, NEW e \in Call, NEW outcome, NEW uncertain \in BOOLEAN,
         exec' = Finish(e, outcome, uncertain),
         group' \in Group,
         group'.alive = group.alive /\ group'.pipes = group.pipes /\ group'.code = group.code,
         group'.signal = group.signal \/ group'.signal = "KILL",
         e.phase = exec.phase /\ e.kind = exec.kind /\ e.asked = exec.asked,
         e.platform = exec.platform,
         e.escalated => group'.signal = "KILL",
         e.closed # None => Gone,
         \/ /\ exec.kind # None /\ outcome = TerminatedAs(exec) /\ group'.signal = "KILL"
            /\ uncertain \/ Gone
         \/ /\ exec.kind = None /\ Gone /\ group' = group /\ ~e.escalated
            /\ outcome = IF group.code = "zero" THEN "COMPLETED" ELSE "FAILED"
  PROVE  NightInv'
<1> USE DEF NightInv
<1>1. exec.phase = "running" /\ exec.kind \in Cause \cup {None}
  BY DEF Running, Call
<1>2. outcome \in {"COMPLETED", "FAILED", "STOPPED", "TIMED_OUT"}
  BY DEF TerminatedAs
<1>3. exec' \in Call
  BY <1>2 DEF Finish, Call
<1>4. /\ exec'.phase = "running" /\ exec'.kind = exec.kind /\ exec'.asked = exec.asked
      /\ exec'.platform = exec.platform /\ exec'.closed = e.closed
      /\ exec'.result.outcome = outcome
  BY <1>1 DEF Finish, Call
<1>5. (exec'.escalated <=> e.escalated) /\ (exec'.result.uncertain <=> uncertain)
  BY DEF Finish, Call
<1>6. NotLaunched' /\ Asked' /\ ClosedIsGone'
  BY <1>1, <1>4, <1>5 DEF NotLaunched, Asked, ClosedIsGone, Gone
<1>7. Answered'
  BY <1>1, <1>4, <1>5 DEF Answered, Gone, TerminatedAs
<1> QED
  BY <1>3, <1>6, <1>7

LEMMA CloseKeeps ==
  ASSUME NightInv, Close
  PROVE  NightInv'
<1> USE DEF NightInv
<1> DEFINE closed == [exec EXCEPT !.closed = group.code]
<1>1. Running /\ Gone /\ UNCHANGED group /\ exec \in Call /\ group \in Group
  BY DEF Close, Gone
<1>2. /\ closed \in Call
      /\ closed.phase = exec.phase /\ closed.kind = exec.kind /\ closed.asked = exec.asked
      /\ closed.platform = exec.platform /\ closed.result = exec.result
  BY <1>1 DEF Call, Group
<1>3. closed.escalated <=> exec.escalated
  BY <1>1 DEF Call
<1>4. exec.phase = "running" /\ ~Settled /\ exec.platform \in {"posix", "win32"}
  BY <1>1 DEF Running, Asked
<1>5. CASE exec' = closed
  <2> HIDE DEF closed
  <2>1. NotLaunched' /\ Asked' /\ ClosedIsGone' /\ Answered'
    BY <1>1, <1>2, <1>3, <1>4, <1>5
    DEF NotLaunched, Asked, ClosedIsGone, Gone, Answered, Settled
  <2> QED
    BY <1>1, <1>2, <1>5, <2>1
<1>6. CASE /\ exec.kind # None
           /\ (exec.platform = "win32" \/ exec.escalated)
           /\ exec' = Finish(closed, TerminatedAs(exec), FALSE)
  <2>1. group.signal = "KILL"
    BY <1>6 DEF Asked
  <2>2. TerminatedAs(closed) = TerminatedAs(exec)
    BY <1>2 DEF TerminatedAs
  <2> HIDE DEF closed
  <2> QED
    BY <1>1, <1>2, <1>3, <1>6, <2>1, <2>2, FinishKeeps
<1>7. CASE /\ exec.kind = None
           /\ exec' = Finish(closed, IF group.code = "zero" THEN "COMPLETED" ELSE "FAILED", FALSE)
  <2>1. ~closed.escalated
    BY <1>3, <1>7 DEF Asked
  <2> HIDE DEF closed
  <2> QED
    BY <1>1, <1>2, <1>7, <2>1, FinishKeeps
<1>8. exec' = CASE Terminating /\ exec.platform = "posix" /\ ~exec.escalated -> closed
              [] Terminating /\ (exec.platform = "win32" \/ exec.escalated) ->
                   Finish(closed, TerminatedAs(closed), FALSE)
              [] OTHER -> Finish(closed, IF group.code = "zero" THEN "COMPLETED" ELSE "FAILED", FALSE)
  BY <1>2 DEF Close, TerminatedAs
<1>9. TerminatedAs(closed) = TerminatedAs(exec)
  BY <1>2 DEF TerminatedAs
<1> HIDE DEF closed
<1> QED
  BY <1>4, <1>5, <1>6, <1>7, <1>8, <1>9 DEF Terminating

LEMMA EscalateKeeps ==
  ASSUME NightInv, Escalate
  PROVE  NightInv'
<1> USE DEF NightInv
<1>1. /\ Running /\ exec \in Call /\ group \in Group
      /\ exec.kind # None /\ exec.platform = "posix" /\ ~exec.escalated
      /\ \E refused \in BOOLEAN : group' = [group EXCEPT !.signal = "KILL", !.refused = refused]
  BY DEF Escalate, Terminating, Signalled
<1>2. /\ group' \in Group /\ group'.signal = "KILL"
      /\ group'.alive = group.alive /\ group'.pipes = group.pipes /\ group'.code = group.code
  BY <1>1 DEF Group
<1> DEFINE escalated == [exec EXCEPT !.escalated = TRUE]
<1>3. /\ escalated \in Call
      /\ escalated.phase = exec.phase /\ escalated.kind = exec.kind
      /\ escalated.asked = exec.asked /\ escalated.platform = exec.platform
      /\ escalated.closed = exec.closed /\ escalated.result = exec.result
  BY <1>1 DEF Call
<1>4. TerminatedAs(exec) = TerminatedAs(escalated)
  BY <1>3 DEF TerminatedAs
<1>5. CASE exec.closed = None
  <2>1. exec' = escalated
    BY <1>5 DEF Escalate
  <2> HIDE DEF escalated
  <2>2. NotLaunched' /\ Asked' /\ ClosedIsGone' /\ Answered'
    BY <1>1, <1>2, <1>3, <1>5, <2>1
    DEF NotLaunched, Asked, ClosedIsGone, Answered, Settled, Running
  <2> QED
    BY <1>2, <1>3, <2>1, <2>2
<1>6. CASE exec.closed # None
  <2>1. exec' = Finish(escalated, TerminatedAs(exec), FALSE)
    BY <1>6 DEF Escalate
  <2>2. Gone
    BY <1>6 DEF ClosedIsGone
  <2> HIDE DEF escalated
  <2> QED
    BY <1>1, <1>2, <1>3, <2>1, <2>2, FinishKeeps
<1> QED
  BY <1>5, <1>6

(* The grace period ends with the group killed, whatever is left of it.    *)
LEMMA GraceEndsKeeps ==
  ASSUME NightInv, GraceEnds
  PROVE  NightInv'
<1> USE DEF NightInv
<1>1. /\ Running /\ exec \in Call /\ group \in Group /\ exec.kind # None
      /\ exec.platform = "posix" => exec.escalated
      /\ exec' = Finish(exec, TerminatedAs(exec), TRUE) /\ group' = group
  BY DEF GraceEnds, Terminating
<1>2. group.signal = "KILL"
  BY <1>1 DEF Running, Asked
<1>3. exec.closed # None => Gone
  BY DEF ClosedIsGone
<1> QED
  BY <1>1, <1>2, <1>3, FinishKeeps

-----------------------------------------------------------------------------
(* What the processes do cannot make an answer untrue.                     *)

LEMMA ForkKeeps ==
  ASSUME NightInv, Fork
  PROVE  NightInv'
<1> USE DEF NightInv
<1>1. PICK p \in {"helper", "stray"}, holds \in BOOLEAN :
        group' = [group EXCEPT !.alive = @ \cup {p},
                               !.pipes = IF holds THEN @ \cup {p} ELSE @]
  BY DEF Fork
<1>2. exec' = exec /\ "child" \in group.alive
  BY DEF Fork
<1>3. /\ group' \in Group /\ "child" \in group'.alive
      /\ group'.signal = group.signal /\ group'.code = group.code
  BY <1>1, <1>2 DEF Group, Process
<1>4. exec.phase = "running"
  BY <1>2 DEF NotLaunched, NoProcess
<1>5. NotLaunched' /\ Asked' /\ ClosedIsGone' /\ Answered'
  BY <1>2, <1>3, <1>4 DEF NotLaunched, Asked, ClosedIsGone, Gone, Answered, Settled
<1> QED
  BY <1>2, <1>3, <1>5

LEMMA ProcessEndsKeeps ==
  ASSUME NightInv, ProcessEnds
  PROVE  NightInv'
<1> USE DEF NightInv
<1>1. PICK p \in group.alive, code \in {"zero", "other"} :
        group' = [group EXCEPT !.alive = @ \ {p}, !.pipes = @ \ {p},
                               !.code = IF p = "child" THEN code ELSE @]
  BY DEF ProcessEnds
<1>2. exec' = exec
  BY DEF ProcessEnds
<1>3. /\ group' \in Group /\ group'.signal = group.signal
      /\ group'.alive \subseteq group.alive /\ group'.pipes \subseteq group.pipes
      /\ "child" \notin group.alive => group'.code = group.code
  BY <1>1 DEF Group, Process
<1>4. exec.phase = "running"
  BY <1>1 DEF NotLaunched, NoProcess
<1>5. Gone => Gone'
  BY <1>3 DEF Gone
<1>6. NotLaunched' /\ Asked' /\ ClosedIsGone'
  BY <1>2, <1>3, <1>4, <1>5 DEF NotLaunched, Asked, ClosedIsGone
<1>7. Answered'
  BY <1>2, <1>3, <1>4, <1>5 DEF Answered, Settled, TerminatedAs
<1> QED
  BY <1>2, <1>3, <1>6, <1>7

-----------------------------------------------------------------------------
(* The night.                                                              *)

LEMMA NightStep ==
  ASSUME NightInv, [Next]_vars
  PROVE  NightInv'
<1>1. CASE UNCHANGED executorVars
  BY <1>1, NightStutter
<1>2. CASE Refuse \/ Begin
  BY <1>2, RefuseKeeps, BeginKeeps
<1>3. CASE ExecutorStep
  <2>1. ASSUME Timeout
        PROVE  NightInv'
    BY <2>1, RequestKeeps DEF Timeout, Cause
  <2>2. ASSUME PollStop
        PROVE  NightInv'
    BY <2>2, RequestKeeps DEF PollStop, Cause
  <2> QED
    BY <1>3, <2>1, <2>2, LaunchKeeps, CloseKeeps, EscalateKeeps, GraceEndsKeeps DEF ExecutorStep
<1>4. CASE ProcessStep
  BY <1>4, ForkKeeps, ProcessEndsKeeps DEF ProcessStep
<1> QED
  BY <1>1, <1>2, <1>3, <1>4 DEF Next, vars, ToggleStop, executorVars

(* The inductive invariant, for every queue and whatever it is that the    *)
(* plan reported before the task is executed.                              *)
THEOREM NightInvariant == Spec => []NightInv
<1>1. Init => NightInv
  BY NightInit DEF Init
<1>2. NightInv /\ [Next]_vars => NightInv'
  BY NightStep
<1> QED
  BY <1>1, <1>2, PTL DEF Spec

(* An execution that was stopped or timed out is answered only once        *)
(* SIGKILL was sent to its group, and no answer that calls the end certain *)
(* leaves the child alive or its pipes held: finish after escalate, close  *)
(* and the end of the grace period, in whatever order they come, and       *)
(* whichever signal the system refuses.                                    *)
THEOREM NoAnswerBeforeTheKill == Spec => []TerminatedGroupIsKilled
<1>1. NightInv => TerminatedGroupIsKilled
  <2> SUFFICES ASSUME NightInv, Settled, exec.result.outcome \in {"STOPPED", "TIMED_OUT"}
               PROVE  /\ group.signal = "KILL"
                      /\ ~exec.result.uncertain => Gone
    BY DEF TerminatedGroupIsKilled, Gone
  <2>1. exec.phase = "running"
    BY DEF NightInv, NotLaunched
  <2>2. exec.kind # None
    BY <2>1 DEF NightInv, Answered
  <2> QED
    BY <2>1, <2>2 DEF NightInv, Answered
<1> QED
  BY <1>1, NightInvariant, PTL

(* The answer names the first of the stop file and the timeout that        *)
(* requestTermination acted on, however often it is asked again and        *)
(* whatever the child answers meanwhile; without one, the code of the      *)
(* child, which nothing changes after it has ended.                        *)
THEOREM TheFirstCauseIsAnswered == Spec => []OutcomeIsTheFirstCause
<1>1. NightInv => OutcomeIsTheFirstCause
  <2> SUFFICES ASSUME NightInv, Settled, exec.phase = "running"
               PROVE  exec.result.outcome =
                        CASE exec.asked # <<>> /\ exec.asked[1] = "stop" -> "STOPPED"
                          [] exec.asked # <<>> /\ exec.asked[1] = "timeout" -> "TIMED_OUT"
                          [] OTHER -> IF group.code = "zero" THEN "COMPLETED" ELSE "FAILED"
    BY DEF OutcomeIsTheFirstCause
  <2>1. CASE exec.kind = None
    BY <2>1 DEF NightInv, Answered, Asked
  <2>2. CASE exec.kind # None
    <3>1. exec.kind \in Cause
      BY <2>2 DEF NightInv, Call
    <3>2. exec.asked # <<>> /\ exec.asked[1] = exec.kind
      BY <2>2 DEF NightInv, Asked
    <3>3. exec.result.outcome = IF exec.kind = "stop" THEN "STOPPED" ELSE "TIMED_OUT"
      BY <2>2 DEF NightInv, Answered, TerminatedAs
    <3> QED
      BY <3>1, <3>2, <3>3 DEF Cause
  <2> QED
    BY <2>1, <2>2
<1> QED
  BY <1>1, NightInvariant, PTL
-----------------------------------------------------------------------------
(* Sums.  The naturals are well-founded, so that the sums of the prefixes  *)
(* of a sequence exist and are what their equations say.                   *)

Smaller == {p \in Nat \X Nat : p[1] < p[2]}

LEMMA LeastNatural ==
  ASSUME NEW S \in SUBSET Nat, S # {}
  PROVE  \E n \in S : \A m \in S : n <= m
<1>1. IsWellFoundedOn(Smaller, Nat)
  BY NatLessThanWellFounded, Zenon DEF OpToRel, Smaller
<1>2. PICK n \in S : \A m \in S : ~ <<m, n>> \in Smaller
  BY <1>1, WFMin
<1>3. ASSUME NEW m \in S
      PROVE  n <= m
  <2>1. <<m, n>> \notin Smaller /\ m \in Nat /\ n \in Nat
    BY <1>2
  <2> QED
    BY <2>1 DEF Smaller
<1> QED
  BY <1>3

(* The sums f of the first prefixes of c, as far as n.                     *)
SumsOf(f, c, n) ==
  /\ f \in [0..n -> Int]
  /\ f[0] = 0
  /\ \A i \in 1..n : f[i] = f[i - 1] + c[i]

LEMMA SumsExist ==
  ASSUME NEW c \in Seq(Int), NEW n \in 0..Len(c)
  PROVE  \E f : SumsOf(f, c, n)
<1> DEFINE Missing == {k \in 0..Len(c) : ~ \E f : SumsOf(f, c, k)}
<1> SUFFICES ASSUME Missing # {} PROVE FALSE
  OBVIOUS
<1>1. PICK k \in Missing : \A m \in Missing : k <= m
  <2>1. Missing \in SUBSET Nat
    OBVIOUS
  <2> HIDE DEF Missing
  <2> QED
    BY <2>1, LeastNatural
<1>2. k # 0
  <2>1. SumsOf([i \in 0..0 |-> 0], c, 0)
    BY DEF SumsOf
  <2> QED
    BY <2>1
<1>3. k - 1 \in 0..Len(c) /\ k \in 1..Len(c) /\ k - 1 \notin Missing
  <2>1. k - 1 \in 0..Len(c) /\ k \in 1..Len(c) /\ ~(k <= k - 1)
    BY <1>2
  <2> HIDE DEF Missing
  <2> QED
    BY <1>1, <2>1
<1>4. PICK f : SumsOf(f, c, k - 1)
  BY <1>3
<1>5. PICK g : g = [i \in 0..k |-> IF i = k THEN f[k - 1] + c[k] ELSE f[i]]
  OBVIOUS
<1>6. c[k] \in Int /\ f \in [0..(k - 1) -> Int]
  BY <1>3, <1>4 DEF SumsOf
<1>7. g \in [0..k -> Int]
  BY <1>3, <1>5, <1>6
<1>8. g[0] = 0
  BY <1>3, <1>4, <1>5 DEF SumsOf
<1>9. ASSUME NEW i \in 1..k
      PROVE  g[i] = g[i - 1] + c[i]
  <2>1. g[i - 1] = f[i - 1]
    BY <1>3, <1>5
  <2>2. CASE i = k
    BY <1>3, <1>5, <2>1, <2>2
  <2>3. CASE i # k
    <3>1. i \in 1..(k - 1)
      BY <1>3, <2>3
    <3>2. f[i] = f[i - 1] + c[i]
      BY <1>4, <3>1 DEF SumsOf
    <3> QED
      BY <1>3, <1>5, <2>1, <2>3, <3>2
  <2> QED
    BY <2>2, <2>3
<1>10. SumsOf(g, c, k)
  BY <1>7, <1>8, <1>9 DEF SumsOf
<1> QED
  BY <1>10

LEMMA SumsUnique ==
  ASSUME NEW c, NEW d, NEW n \in Nat, NEW f, NEW g, NEW m \in 0..n,
         SumsOf(f, c, n), SumsOf(g, d, m), \A i \in 1..m : c[i] = d[i]
  PROVE  f[m] = g[m]
<1> DEFINE Apart == {k \in 0..m : f[k] # g[k]}
<1> SUFFICES ASSUME Apart # {} PROVE FALSE
  OBVIOUS
<1>1. PICK k \in Apart : \A j \in Apart : k <= j
  <2>1. Apart \in SUBSET Nat
    OBVIOUS
  <2> HIDE DEF Apart
  <2> QED
    BY <2>1, LeastNatural
<1>2. k # 0
  BY DEF SumsOf
<1>3. k - 1 \in 0..m /\ k \in 1..m /\ k \in 1..n /\ k - 1 \notin Apart
  BY <1>1, <1>2
<1>4. f[k] = f[k - 1] + c[k] /\ g[k] = g[k - 1] + d[k]
  BY <1>3 DEF SumsOf
<1> QED
  BY <1>3, <1>4

(* The function of the definition is the one of the equations.             *)
LEMMA TotalIsSum ==
  ASSUME NEW c \in Seq(Int)
  PROVE  \E f : SumsOf(f, c, Len(c)) /\ Total(c) = f[Len(c)]
<1> DEFINE Holds(f) == f = [n \in 0..Len(c) |-> IF n = 0 THEN 0 ELSE f[n - 1] + c[n]]
           upTo == CHOOSE f : Holds(f)
<1>0. Len(c) \in Nat
  OBVIOUS
<1>1. PICK f : SumsOf(f, c, Len(c))
  BY <1>0, SumsExist
<1>2. Holds(f)
  <2>1. \A n \in 0..Len(c) : f[n] = IF n = 0 THEN 0 ELSE f[n - 1] + c[n]
    BY <1>0, <1>1 DEF SumsOf
  <2>2. f = [n \in 0..Len(c) |-> f[n]]
    BY <1>1 DEF SumsOf
  <2> QED
    BY <2>1, <2>2
<1>3. Holds(upTo)
  <2> HIDE DEF Holds
  <2> QED
    BY <1>2
<1>4. Total(c) = upTo[Len(c)]
  BY DEF Total
<1> HIDE DEF upTo
<1>5. upTo[0] = 0 /\ \A n \in 1..Len(c) : upTo[n] = upTo[n - 1] + c[n]
  BY <1>0, <1>3
<1>6. \A n \in 0..Len(c) : upTo[n] = f[n]
  <2> DEFINE Apart == {k \in 0..Len(c) : upTo[k] # f[k]}
  <2> SUFFICES ASSUME Apart # {} PROVE FALSE
    OBVIOUS
  <2>1. PICK k \in Apart : \A j \in Apart : k <= j
    <3>1. Apart \in SUBSET Nat
      OBVIOUS
    <3> HIDE DEF Apart
    <3> QED
      BY <3>1, LeastNatural
  <2>2. k # 0
    BY <1>1, <1>5 DEF SumsOf
  <2>3. k - 1 \in 0..Len(c) /\ k \in 1..Len(c) /\ k - 1 \notin Apart
    BY <1>0, <2>1, <2>2
  <2> QED
    BY <1>1, <1>5, <2>3 DEF SumsOf
<1> QED
  BY <1>0, <1>1, <1>4, <1>6

LEMMA TotalEmpty == Total(<<>>) = 0
<1>1. <<>> \in Seq(Int) /\ Len(<<>>) = 0
  OBVIOUS
<1>2. PICK f : SumsOf(f, <<>>, 0) /\ Total(<<>>) = f[0]
  BY <1>1, TotalIsSum
<1> QED
  BY <1>2 DEF SumsOf

LEMMA TotalAppend ==
  ASSUME NEW c \in Seq(Int), NEW x \in Int
  PROVE  Total(c) \in Int /\ Total(Append(c, x)) = Total(c) + x
<1>1. PICK d : d = Append(c, x)
  OBVIOUS
<1>2. /\ d \in Seq(Int) /\ Len(c) \in Nat /\ Len(d) = Len(c) + 1 /\ d[Len(d)] = x
      /\ \A i \in 1..Len(c) : d[i] = c[i]
  BY <1>1
<1>3. PICK f : SumsOf(f, c, Len(c)) /\ Total(c) = f[Len(c)]
  BY TotalIsSum
<1>4. PICK g : SumsOf(g, d, Len(d)) /\ Total(d) = g[Len(d)]
  BY <1>2, TotalIsSum
<1>5. g[Len(c)] = f[Len(c)]
  <2>1. Len(c) \in 0..Len(d) /\ Len(d) \in Nat
    BY <1>2
  <2>2. \A i \in 1..Len(c) : d[i] = c[i]
    BY <1>2
  <2>3. ASSUME NEW n \in Nat, NEW m \in 0..n, n = Len(d), m = Len(c)
        PROVE  g[m] = f[m]
    <3>1. SumsOf(g, d, n) /\ SumsOf(f, c, m)
      BY <1>3, <1>4, <2>3
    <3>2. \A i \in 1..m : d[i] = c[i]
      BY <2>2, <2>3
    <3> QED
      BY <3>1, <3>2, SumsUnique
  <2> QED
    BY <2>1, <2>3
<1>6. g[Len(d)] = g[Len(d) - 1] + d[Len(d)]
  <2>1. Len(d) \in 1..Len(d)
    BY <1>2
  <2> QED
    BY <1>4, <2>1 DEF SumsOf
<1>7. f[Len(c)] \in Int
  <2>1. f \in [0..Len(c) -> Int] /\ Len(c) \in 0..Len(c)
    BY <1>2, <1>3 DEF SumsOf
  <2> QED
    BY <2>1
<1> QED
  BY <1>1, <1>2, <1>3, <1>4, <1>5, <1>6, <1>7

LEMMA TotalOfNothing ==
  ASSUME NEW c \in Seq(Int), \A i \in 1..Len(c) : c[i] = 0
  PROVE  Total(c) = 0
<1>0. Len(c) \in Nat
  OBVIOUS
<1>1. PICK f : SumsOf(f, c, Len(c)) /\ Total(c) = f[Len(c)]
  BY TotalIsSum
<1>2. PICK g : g = [i \in 0..Len(c) |-> 0]
  OBVIOUS
<1>3. SumsOf(g, c, Len(c))
  BY <1>0, <1>2 DEF SumsOf
<1>4. f[Len(c)] = g[Len(c)]
  BY <1>0, <1>1, <1>3, SumsUnique
<1> QED
  BY <1>0, <1>1, <1>2, <1>4

-----------------------------------------------------------------------------
(* What planQueue knows between two of its steps.                          *)

End == {"READY_FOR_HUMAN", "BLOCKED", "FAILED", "STOPPED"}

Plan == [status : {"NEW", "REFUSED", "STOPPED_BY_KILL_SWITCH", "PLANNING", "OK"},
         ends : Seq(End), runs : Seq(Nat), used : Int, ran : Nat, attempts : Nat,
         tripped : BOOLEAN]

PlanTypes ==
  /\ queue \in Queue /\ plan \in Plan
  /\ Len(plan.ends) = Len(plan.runs) /\ Len(plan.runs) <= Len(queue.tasks)
  /\ plan.status \in {"OK", "STOPPED_BY_KILL_SWITCH"} => Len(plan.ends) = Len(queue.tasks)
  /\ plan.status \notin {"NEW", "REFUSED"} => Valid(queue)

NothingYet ==
  plan.status = "NEW" =>
    /\ plan.ends = <<>> /\ plan.runs = <<>>
    /\ plan.used = 0 /\ plan.ran = 0 /\ plan.attempts = 0

Looked == 1..Len(plan.ends)

(* A ready task rests on earlier ones that are ready and wait for nobody.  *)
Rests(i) ==
  /\ queue.tasks[i].authorized
  /\ \A j \in Indices(queue.tasks[i].depends) :
        j \in 1..(i - 1) /\ plan.ends[j] = "READY_FOR_HUMAN" /\ ~queue.tasks[j].gated

EndsMean ==
  \A i \in Looked :
    /\ plan.ends[i] = "READY_FOR_HUMAN" => Rests(i)
    /\ plan.ends[i] = "FAILED" => plan.runs[i] = queue.maxRetries + 1
    /\ plan.status = "STOPPED_BY_KILL_SWITCH" => plan.ends[i] = "STOPPED" /\ plan.runs[i] = 0

Cost == AttemptRuntime(queue, Task)
Attempted == {i \in Looked : plan.runs[i] > 0}

(* What was used is what the tasks looked at and the one in hand were      *)
(* charged; who was attempted was counted.                                 *)
Accounts ==
  plan.status \in {"PLANNING", "OK"} =>
    /\ plan.used = Total(Charges(queue, plan.runs))
                     + (IF plan.attempts = 0 THEN 0 ELSE plan.attempts * Cost)
    /\ plan.used <= queue.maxRuntime
    /\ Cardinality(Attempted) + (IF plan.attempts = 0 THEN 0 ELSE 1) <= plan.ran
    /\ plan.ran <= queue.maxTasks
    /\ plan.attempts <= queue.maxRetries

InHand == plan.attempts # 0 => Planning /\ MayRun(Task)

PlanInv ==
  /\ PlanTypes
  /\ NothingYet
  /\ EndsMean
  /\ Accounts
  /\ InHand

-----------------------------------------------------------------------------
(* What a task and a queue may cost, and what a task may depend on.        *)

LEMMA CostIsNumber ==
  ASSUME NEW q \in Queue, NEW i \in DOMAIN q.tasks
  PROVE  AttemptRuntime(q, q.tasks[i]) \in Int
<1>1. q.tasks[i].estimate \in Int /\ q.timeout \in Int
  BY QueueAssumption
<1>2. ASSUME NEW a \in Int, NEW b \in Int
      PROVE  Min({a, b}) \in Int
  <2>1. \E x \in {a, b} : \A y \in {a, b} : x <= y
    OBVIOUS
  <2> QED
    BY <2>1 DEF Min
<1> QED
  BY <1>1, <1>2 DEF AttemptRuntime

LEMMA ChargesAre ==
  ASSUME NEW q \in Queue, NEW runs \in Seq(Nat), Len(runs) <= Len(q.tasks)
  PROVE  /\ Charges(q, runs) \in Seq(Int) /\ Len(Charges(q, runs)) = Len(runs)
         /\ \A i \in 1..Len(runs) :
              Charges(q, runs)[i] = runs[i] * AttemptRuntime(q, q.tasks[i])
<1>1. Len(runs) \in Nat /\ DOMAIN runs = 1..Len(runs) /\ DOMAIN q.tasks = 1..Len(q.tasks)
      /\ Len(q.tasks) \in Nat
  BY QueueAssumption
<1>2. ASSUME NEW i \in 1..Len(runs)
      PROVE  runs[i] * AttemptRuntime(q, q.tasks[i]) \in Int
  <2>1. AttemptRuntime(q, q.tasks[i]) \in Int
    BY <1>1, CostIsNumber
  <2> QED
    BY <2>1
<1>3. Charges(q, runs) = [i \in 1..Len(runs) |-> runs[i] * AttemptRuntime(q, q.tasks[i])]
  BY <1>1 DEF Charges
<1> QED
  BY <1>1, <1>2, <1>3

(* One more task is charged for.                                           *)
LEMMA ChargesAppend ==
  ASSUME NEW q \in Queue, NEW runs \in Seq(Nat), NEW n \in Nat, Len(runs) < Len(q.tasks)
  PROVE  /\ Total(Charges(q, runs)) \in Int
         /\ Total(Charges(q, Append(runs, n)))
              = Total(Charges(q, runs)) + n * AttemptRuntime(q, q.tasks[Len(runs) + 1])
<1>1. Len(runs) \in Nat /\ DOMAIN q.tasks = 1..Len(q.tasks) /\ Len(q.tasks) \in Nat
  BY QueueAssumption
<1>2. PICK c : c = AttemptRuntime(q, q.tasks[Len(runs) + 1])
  OBVIOUS
<1>3. c \in Int
  BY <1>1, <1>2, CostIsNumber
<1>4. PICK more : more = Append(runs, n)
  OBVIOUS
<1>5. /\ more \in Seq(Nat) /\ Len(more) = Len(runs) + 1 /\ more[Len(more)] = n
      /\ \A i \in 1..Len(runs) : more[i] = runs[i]
  BY <1>4
<1>6. PICK a : a = Charges(q, runs)
  OBVIOUS
<1>7. PICK b : b = Charges(q, more)
  OBVIOUS
<1>8. /\ a \in Seq(Int) /\ Len(a) = Len(runs)
      /\ \A i \in 1..Len(runs) : a[i] = runs[i] * AttemptRuntime(q, q.tasks[i])
  BY <1>1, <1>6, ChargesAre
<1>9. /\ b \in Seq(Int) /\ Len(b) = Len(more)
      /\ \A i \in 1..Len(more) : b[i] = more[i] * AttemptRuntime(q, q.tasks[i])
  BY <1>1, <1>5, <1>7, ChargesAre
<1>10. n * c \in Int
  BY <1>3
<1>11. b = Append(a, n * c)
  <2>1. PICK longer : longer = Append(a, n * c)
    OBVIOUS
  <2>2. longer \in Seq(Int) /\ Len(longer) = Len(b)
    BY <1>1, <1>5, <1>8, <1>9, <1>10, <2>1
  <2>3. ASSUME NEW i \in 1..Len(b)
        PROVE  b[i] = longer[i]
    <3>1. CASE i \in 1..Len(a)
      <4>1. longer[i] = a[i]
        BY <1>8, <1>10, <2>1, <3>1
      <4>2. i \in 1..Len(runs) /\ i \in 1..Len(more)
        BY <1>1, <1>5, <1>8, <3>1
      <4>3. b[i] = more[i] * AttemptRuntime(q, q.tasks[i]) /\ more[i] = runs[i]
            /\ a[i] = runs[i] * AttemptRuntime(q, q.tasks[i])
        BY <1>5, <1>8, <1>9, <4>2
      <4> QED
        BY <4>1, <4>3
    <3>2. CASE i = Len(a) + 1
      <4>1. b[i] = n * c
        BY <1>1, <1>2, <1>5, <1>8, <1>9, <3>2
      <4>2. longer[i] = n * c
        BY <1>8, <1>10, <2>1, <3>2
      <4> QED
        BY <4>1, <4>2
    <3> QED
      BY <1>1, <1>5, <1>8, <1>9, <3>1, <3>2
  <2>4. b = longer
    <3>1. b = [i \in 1..Len(b) |-> b[i]] /\ longer = [i \in 1..Len(longer) |-> longer[i]]
      BY <1>9, <2>2
    <3> QED
      BY <2>2, <2>3, <3>1
  <2> QED
    BY <2>1, <2>4
<1>12. Total(a) \in Int /\ Total(b) = Total(a) + n * c
  BY <1>8, <1>10, <1>11, TotalAppend
<1> QED
  BY <1>2, <1>4, <1>6, <1>7, <1>12

(* In a valid queue what a task depends on comes before it.                *)
LEMMA DependsOnEarlier ==
  ASSUME queue \in Queue, Valid(queue), NEW i \in DOMAIN queue.tasks
  PROVE  Indices(queue.tasks[i].depends) \subseteq 1..(i - 1)
<1>1. DOMAIN queue.tasks = 1..Len(queue.tasks) /\ Len(queue.tasks) \in Nat
  BY QueueAssumption
<1>2. SUFFICES ASSUME NEW k \in Indices(queue.tasks[i].depends)
               PROVE  k \in 1..(i - 1)
  OBVIOUS
<1>3. k \in DOMAIN queue.tasks /\ queue.tasks[k].id \in queue.tasks[i].depends
  BY DEF Indices
<1>4. PICK j \in 1..(i - 1) : queue.tasks[j].id = queue.tasks[k].id
  BY <1>3 DEF Valid
<1>5. j \in DOMAIN queue.tasks /\ j \in Int /\ k \in Int
  BY <1>1, <1>3
<1>6. ~(j \in 1..(k - 1)) /\ ~(k \in 1..(j - 1))
  BY <1>3, <1>4, <1>5 DEF Valid
<1> QED
  BY <1>1, <1>3, <1>4, <1>5, <1>6

(* A task ends.                                                            *)
LEMMA EndedIs ==
  ASSUME NEW p \in Plan, NEW end \in End
  PROVE  /\ Ended(p, end) \in Plan
         /\ Ended(p, end).ends = Append(p.ends, end)
         /\ Ended(p, end).runs = Append(p.runs, p.attempts)
         /\ Ended(p, end).status = p.status /\ Ended(p, end).attempts = 0
         /\ Ended(p, end).used = p.used /\ Ended(p, end).ran = p.ran
<1>1. PICK k : k = Ended(p, end)
  OBVIOUS
<1>2. p = [status |-> p.status, ends |-> p.ends, runs |-> p.runs, used |-> p.used,
           ran |-> p.ran, attempts |-> p.attempts, tripped |-> p.tripped]
  BY DEF Plan
<1>3. k = [status |-> p.status, ends |-> Append(p.ends, end),
           runs |-> Append(p.runs, p.attempts), used |-> p.used,
           ran |-> p.ran, attempts |-> 0, tripped |-> p.tripped]
  BY <1>1, <1>2 DEF Ended
<1>4. Append(p.ends, end) \in Seq(End) /\ Append(p.runs, p.attempts) \in Seq(Nat)
  BY DEF Plan
<1>5. k \in Plan
  BY <1>3, <1>4 DEF Plan
<1> QED
  BY <1>1, <1>3, <1>5

(* It ends as planQueue may say it does, after n attempts in all.          *)
LEMMA EndKeeps ==
  ASSUME PlanInv, Planning, queue' = queue, plan' \in Plan,
         NEW end \in End, NEW n \in Nat,
         plan'.status = "PLANNING" /\ plan'.attempts = 0,
         plan'.ends = Append(plan.ends, end) /\ plan'.runs = Append(plan.runs, n),
         plan'.used = Total(Charges(queue, plan.runs)) + n * Cost,
         plan'.used <= queue.maxRuntime,
         plan'.ran <= queue.maxTasks,
         Cardinality(Attempted) + (IF n = 0 THEN 0 ELSE 1) <= plan'.ran,
         end = "READY_FOR_HUMAN" => MayRun(Task),
         end = "FAILED" => n = queue.maxRetries + 1
  PROVE  PlanInv'
<1> USE DEF PlanInv
<1>1. /\ queue \in Queue /\ Valid(queue) /\ plan.status = "PLANNING"
      /\ plan.ends \in Seq(End) /\ plan.runs \in Seq(Nat)
      /\ Len(plan.ends) = Len(plan.runs) /\ Len(plan.ends) < Len(queue.tasks)
      /\ DOMAIN queue.tasks = 1..Len(queue.tasks) /\ Len(queue.tasks) \in Nat
  BY QueueAssumption DEF PlanTypes, Planning, Plan
<1>2. PICK last : last = Len(plan.ends) + 1
  OBVIOUS
<1>3. /\ Len(plan.ends) \in Nat /\ last \in 1..Len(queue.tasks)
      /\ Looked = 1..(last - 1) /\ Looked' = 1..last /\ last \notin Looked
      /\ Looked' = Looked \cup {last}
      /\ Len(plan'.ends) = last /\ Len(plan'.runs) = last
      /\ plan'.ends[last] = end /\ plan'.runs[last] = n
  <2>1. Len(plan.ends) \in Nat /\ last \in 1..Len(queue.tasks)
    BY <1>1, <1>2
  <2>2. /\ Len(plan'.ends) = last /\ Len(plan'.runs) = last
        /\ plan'.ends[last] = end /\ plan'.runs[last] = n
    BY <1>1, <1>2
  <2> QED
    BY <1>2, <2>1, <2>2 DEF Looked
<1>4. \A i \in Looked : plan'.ends[i] = plan.ends[i] /\ plan'.runs[i] = plan.runs[i]
  BY <1>1, <1>2, <1>3
<1>5. PlanTypes'
  BY <1>1, <1>3 DEF PlanTypes
<1>6. queue.maxTasks \in Int /\ queue.maxRetries \in Int /\ queue.maxRetries >= 0
  BY <1>1, QueueAssumption DEF Valid
<1>7. EndsMean'
  <2>1. ASSUME NEW i \in Looked, plan'.ends[i] = "READY_FOR_HUMAN"
        PROVE  Rests(i)'
    <3>1. Rests(i)
      BY <1>4, <2>1 DEF EndsMean
    <3>2. \A j \in 1..(i - 1) : j \in Looked
      BY <1>3
    <3> QED
      BY <1>4, <3>1, <3>2 DEF Rests, Indices
  <2>2. ASSUME end = "READY_FOR_HUMAN"
        PROVE  Rests(last)'
    <3>1. Task = queue.tasks[last] /\ Task.authorized /\ ~Blocked(Task)
      BY <1>2, <2>2 DEF Task, MayRun
    <3>2. Indices(Task.depends) \subseteq Looked
      BY <1>1, <1>3, <3>1, DependsOnEarlier
    <3>3. \A j \in Indices(Task.depends) :
             plan.ends[j] = "READY_FOR_HUMAN" /\ ~queue.tasks[j].gated
      BY <3>1 DEF Blocked
    <3> QED
      BY <1>3, <1>4, <3>1, <3>2, <3>3 DEF Rests, Indices
  <2>3. ASSUME NEW i \in Looked'
        PROVE  /\ plan'.ends[i] = "READY_FOR_HUMAN" => Rests(i)'
               /\ plan'.ends[i] = "FAILED" => plan'.runs[i] = queue'.maxRetries + 1
    <3>1. CASE i \in Looked
      BY <1>4, <2>1, <3>1 DEF EndsMean
    <3>2. CASE i = last
      BY <1>3, <2>2, <3>2
    <3> QED
      BY <1>3, <2>3, <3>1, <3>2
  <2> QED
    BY <2>3 DEF EndsMean
<1>8. Total(Charges(queue', plan'.runs)) = plan'.used
  BY <1>1, <1>2, ChargesAppend DEF Cost, Task
<1>9. Cardinality(Attempted') <= plan'.ran /\ Cardinality(Attempted') \in Nat
  <2>1. IsFiniteSet(Attempted) /\ Cardinality(Attempted) \in Nat
    <3>1. IsFiniteSet(Looked)
      BY <1>3, FS_Interval DEF Looked
    <3>2. IsFiniteSet(Attempted)
      BY <3>1, FS_Subset DEF Attempted
    <3> QED
      BY <3>2, FS_CardinalityType
  <2>2. CASE n = 0
    <3>1. Attempted' = Attempted
      BY <1>3, <1>4, <2>2 DEF Attempted
    <3> QED
      BY <2>1, <2>2, <3>1
  <2>3. CASE n # 0
    <3>1. Attempted' = Attempted \cup {last}
      BY <1>3, <1>4, <2>3 DEF Attempted
    <3>2. last \notin Attempted
      BY <1>3 DEF Attempted
    <3>3. Cardinality(Attempted \cup {last}) = Cardinality(Attempted) + 1
      BY <2>1, <3>2, FS_AddElement
    <3> QED
      BY <2>1, <2>3, <3>1, <3>3
  <2> QED
    BY <2>2, <2>3
<1>10. Accounts'
  <2>1. plan'.used \in Int
    BY DEF Plan
  <2>2. plan'.used = Total(Charges(queue', plan'.runs)) + 0
    BY <1>8, <2>1
  <2>3. Cardinality(Attempted') + 0 <= plan'.ran
    BY <1>9
  <2> QED
    BY <1>6, <2>2, <2>3 DEF Accounts
<1>11. InHand' /\ NothingYet'
  BY DEF InHand, NothingYet
<1> QED
  BY <1>5, <1>7, <1>10, <1>11

-----------------------------------------------------------------------------
(* Every step of the planner keeps it.                                     *)

LEMMA PlannerInitKeeps ==
  ASSUME PlannerInit
  PROVE  PlanInv
<1>1. queue \in Queue /\ Len(queue.tasks) \in Nat
  BY QueueAssumption DEF PlannerInit
<1>2. /\ plan.status = "NEW" /\ plan.ends = <<>> /\ plan.runs = <<>> /\ plan.attempts = 0
      /\ plan \in Plan
  BY DEF PlannerInit, Plan
<1>3. NothingYet
  BY DEF PlannerInit, NothingYet
<1>4. PlanTypes /\ EndsMean /\ Accounts /\ InHand
  BY <1>1, <1>2 DEF PlanTypes, EndsMean, Looked, Accounts, InHand
<1> QED
  BY <1>3, <1>4 DEF PlanInv

LEMMA PlannerStutter ==
  ASSUME PlanInv, UNCHANGED plannerVars
  PROVE  PlanInv'
<1>1. queue' = queue /\ plan' = plan
  BY DEF plannerVars
<1>2. PlanTypes' /\ NothingYet'
  BY <1>1 DEF PlanInv, PlanTypes, NothingYet
<1>3. EndsMean'
  BY <1>1 DEF PlanInv, EndsMean, Looked, Rests, Indices
<1>4. Accounts'
  BY <1>1 DEF PlanInv, Accounts, Cost, Task, Attempted, Looked
<1>5. InHand'
  BY <1>1 DEF PlanInv, InHand, Planning, MayRun, Blocked, Indices, Task
<1> QED
  BY <1>2, <1>3, <1>4, <1>5 DEF PlanInv

LEMMA PlanQueueKeeps ==
  ASSUME PlanInv, NEW stopped, PlanQueue(stopped)
  PROVE  PlanInv'
<1> USE DEF PlanInv
<1>1. /\ queue \in Queue /\ queue' = queue /\ plan \in Plan /\ plan.status = "NEW"
      /\ DOMAIN queue.tasks = 1..Len(queue.tasks) /\ Len(queue.tasks) \in Nat
      /\ plan.ends = <<>> /\ plan.runs = <<>>
      /\ plan.used = 0 /\ plan.ran = 0 /\ plan.attempts = 0
  BY QueueAssumption DEF PlanQueue, PlanTypes, NothingYet
<1>2. plan = [status |-> "NEW", ends |-> <<>>, runs |-> <<>>, used |-> 0,
              ran |-> 0, attempts |-> 0, tripped |-> plan.tripped]
  BY <1>1 DEF Plan
<1>3. CASE plan' = [plan EXCEPT !.status = "REFUSED"]
  <2>1. plan' \in Plan /\ plan'.status = "REFUSED" /\ plan'.attempts = 0
        /\ plan'.ends = <<>> /\ plan'.runs = <<>>
    BY <1>1, <1>3 DEF Plan
  <2>2. PlanTypes' /\ NothingYet' /\ EndsMean' /\ Accounts' /\ InHand'
    BY <1>1, <2>1 DEF PlanTypes, NothingYet, EndsMean, Looked, Accounts, InHand
  <2> QED
    BY <2>2
<1>4. CASE /\ Valid(queue)
           /\ plan' = [plan EXCEPT !.status = "STOPPED_BY_KILL_SWITCH",
                                   !.ends = [i \in DOMAIN queue.tasks |-> "STOPPED"],
                                   !.runs = [i \in DOMAIN queue.tasks |-> 0]]
  <2>1. PICK ends : ends = [i \in 1..Len(queue.tasks) |-> "STOPPED"]
    OBVIOUS
  <2>2. PICK runs : runs = [i \in 1..Len(queue.tasks) |-> 0]
    OBVIOUS
  <2>3. ends \in Seq(End) /\ runs \in Seq(Nat)
        /\ Len(ends) = Len(queue.tasks) /\ Len(runs) = Len(queue.tasks)
    BY <1>1, <2>1, <2>2 DEF End
  <2>4. plan' = [plan EXCEPT !.status = "STOPPED_BY_KILL_SWITCH", !.ends = ends, !.runs = runs]
    BY <1>1, <1>4, <2>1, <2>2
  <2>5. plan' = [status |-> "STOPPED_BY_KILL_SWITCH", ends |-> ends, runs |-> runs, used |-> 0,
                 ran |-> 0, attempts |-> 0, tripped |-> plan.tripped]
    <3>1. plan' = [[status |-> "NEW", ends |-> <<>>, runs |-> <<>>, used |-> 0, ran |-> 0,
                    attempts |-> 0, tripped |-> plan.tripped]
                     EXCEPT !.status = "STOPPED_BY_KILL_SWITCH", !.ends = ends, !.runs = runs]
      BY <1>2, <2>4, Zenon
    <3> QED
      BY <3>1
  <2>6. plan' \in Plan /\ plan'.attempts = 0 /\ plan'.status = "STOPPED_BY_KILL_SWITCH"
        /\ plan'.ends = ends /\ plan'.runs = runs
    BY <1>1, <2>3, <2>5 DEF Plan
  <2>7. PlanTypes' /\ NothingYet' /\ Accounts' /\ InHand'
    BY <1>1, <1>4, <2>3, <2>6 DEF PlanTypes, NothingYet, Accounts, InHand
  <2>8. EndsMean'
    BY <1>1, <2>1, <2>2, <2>3, <2>6 DEF EndsMean, Looked
  <2> QED
    BY <2>7, <2>8
<1>5. CASE Valid(queue) /\ plan' = [plan EXCEPT !.status = "PLANNING"]
  <2>1. plan' \in Plan /\ plan'.status = "PLANNING" /\ plan'.attempts = 0
        /\ plan'.used = 0 /\ plan'.ran = 0 /\ plan'.ends = <<>> /\ plan'.runs = <<>>
    BY <1>1, <1>5 DEF Plan
  <2>2. PlanTypes' /\ NothingYet' /\ EndsMean' /\ InHand'
    BY <1>1, <1>5, <2>1 DEF PlanTypes, NothingYet, EndsMean, Looked, InHand
  <2>3. Total(Charges(queue', plan'.runs)) = 0
    <3>1. Charges(queue', <<>>) \in Seq(Int) /\ Len(Charges(queue', <<>>)) = 0
      <4>1. <<>> \in Seq(Nat) /\ Len(<<>>) = 0 /\ Len(<<>>) <= Len(queue'.tasks)
        BY <1>1
      <4>2. queue' \in Queue
        BY <1>1
      <4> QED
        BY <4>1, <4>2, ChargesAre
    <3>2. Charges(queue', <<>>) = <<>>
      BY <3>1
    <3> QED
      BY <2>1, <3>2, TotalEmpty
  <2>4. Cardinality(Attempted') = 0
    <3>1. Attempted' = {}
      BY <2>1 DEF Attempted, Looked
    <3> QED
      BY <3>1, FS_EmptySet
  <2>5. queue.maxRuntime \in Int /\ queue.maxRuntime > 0 /\ queue.maxTasks \in Int
        /\ queue.maxTasks > 0 /\ queue.maxRetries \in Int /\ queue.maxRetries >= 0
    BY <1>1, <1>5, QueueAssumption DEF Valid
  <2>6. Accounts'
    BY <1>1, <2>1, <2>3, <2>4, <2>5 DEF Accounts
  <2> QED
    BY <2>2, <2>6
<1> QED
  BY <1>3, <1>4, <1>5 DEF PlanQueue

(* What is known while there is a task to look at.                         *)
LEMMA WhilePlanning ==
  ASSUME PlanInv, Planning
  PROVE  /\ queue \in Queue /\ plan \in Plan /\ plan.status = "PLANNING" /\ Cost \in Int
         /\ plan.used = Total(Charges(queue, plan.runs))
                           + (IF plan.attempts = 0 THEN 0 ELSE plan.attempts * Cost)
         /\ Total(Charges(queue, plan.runs)) \in Int
         /\ plan.used <= queue.maxRuntime
         /\ Cardinality(Attempted) + (IF plan.attempts = 0 THEN 0 ELSE 1) <= plan.ran
         /\ plan.ran <= queue.maxTasks
         /\ plan.attempts <= queue.maxRetries
         /\ Cardinality(Attempted) \in Nat
         /\ {queue.maxRuntime, queue.maxTasks, queue.maxRetries} \subseteq Int
<1>1. /\ queue \in Queue /\ plan \in Plan /\ plan.status = "PLANNING"
      /\ plan.runs \in Seq(Nat) /\ Len(plan.ends) = Len(plan.runs) /\ Len(plan.ends) \in Nat
      /\ Len(plan.runs) < Len(queue.tasks)
      /\ DOMAIN queue.tasks = 1..Len(queue.tasks) /\ Len(queue.tasks) \in Nat
      /\ {queue.maxRuntime, queue.maxTasks, queue.maxRetries} \subseteq Int
  BY QueueAssumption DEF PlanInv, PlanTypes, Planning, Plan
<1>2. Cost \in Int
  <2>1. Len(plan.ends) + 1 \in DOMAIN queue.tasks
    BY <1>1
  <2> QED
    BY <1>1, <2>1, CostIsNumber DEF Cost, Task
<1>3. Total(Charges(queue, plan.runs)) \in Int
  <2>1. 0 \in Nat
    OBVIOUS
  <2> QED
    BY <1>1, <2>1, ChargesAppend
<1>4. Cardinality(Attempted) \in Nat
  <2>1. IsFiniteSet(Looked)
    BY <1>1, FS_Interval DEF Looked
  <2>2. IsFiniteSet(Attempted)
    BY <2>1, FS_Subset DEF Attempted
  <2> QED
    BY <2>2, FS_CardinalityType
<1> QED
  BY <1>1, <1>2, <1>3, <1>4 DEF PlanInv, Accounts

LEMMA PassTaskKeeps ==
  ASSUME PlanInv, PassTask
  PROVE  PlanInv'
<1>1. Planning /\ queue' = queue /\ plan.attempts = 0
  BY DEF PassTask
<1>2. PICK p \in Plan, end \in {"STOPPED", "BLOCKED"} :
        /\ plan' = Ended(p, end)
        /\ p.ends = plan.ends /\ p.runs = plan.runs /\ p.status = plan.status
        /\ p.attempts = plan.attempts /\ p.used = plan.used /\ p.ran = plan.ran
  <2>1. PICK p : p = [plan EXCEPT !.tripped = TRUE]
    OBVIOUS
  <2>2. /\ p \in Plan
        /\ p.ends = plan.ends /\ p.runs = plan.runs /\ p.status = plan.status
        /\ p.attempts = plan.attempts /\ p.used = plan.used /\ p.ran = plan.ran
    BY <1>1, <2>1, WhilePlanning DEF Plan
  <2>3. plan \in Plan
    BY <1>1, WhilePlanning
  <2>4. \/ plan' = Ended(plan, "STOPPED")
        \/ plan' = Ended(plan, "BLOCKED")
        \/ plan' = Ended(p, "STOPPED")
    BY <2>1 DEF PassTask
  <2> QED
    BY <2>2, <2>3, <2>4
<1>3. end \in End
  BY DEF End
<1>4. /\ plan' \in Plan /\ plan'.status = "PLANNING" /\ plan'.attempts = 0
      /\ plan'.ends = Append(plan.ends, end) /\ plan'.runs = Append(plan.runs, 0)
      /\ plan'.used = plan.used /\ plan'.ran = plan.ran
  <2>1. /\ plan' = Ended(p, end) /\ plan' \in Plan
        /\ plan'.ends = Append(p.ends, end) /\ plan'.runs = Append(p.runs, p.attempts)
        /\ plan'.status = p.status /\ plan'.attempts = 0
        /\ plan'.used = p.used /\ plan'.ran = p.ran
    BY <1>2, <1>3, EndedIs
  <2> QED
    BY <1>1, <1>2, <2>1, WhilePlanning
<1>5. /\ plan'.used = Total(Charges(queue, plan.runs)) + 0 * Cost
      /\ plan'.used <= queue.maxRuntime /\ plan'.ran <= queue.maxTasks
      /\ Cardinality(Attempted) + (IF 0 = 0 THEN 0 ELSE 1) <= plan'.ran
  BY <1>1, <1>4, WhilePlanning
<1>6. end # "READY_FOR_HUMAN" /\ end # "FAILED" /\ 0 \in Nat
  OBVIOUS
<1> QED
  BY <1>1, <1>3, <1>4, <1>5, <1>6, EndKeeps

(* An attempt, or the limit on the runtime that keeps it from being made.  *)
LEMMA AttemptTaskKeeps ==
  ASSUME PlanInv, AttemptTask
  PROVE  PlanInv'
<1>1. /\ Planning /\ queue' = queue /\ MayRun(Task)
      /\ plan.attempts = 0 => plan.ran + 1 <= queue.maxTasks
  BY DEF AttemptTask, PlanInv, InHand
<1>2. /\ plan \in Plan /\ plan.status = "PLANNING" /\ Cost \in Int /\ plan.used \in Int
      /\ plan.attempts \in Nat /\ plan.ran \in Nat
  BY <1>1, WhilePlanning DEF Plan
<1>3. PICK begun : begun = IF plan.attempts = 0 THEN [plan EXCEPT !.ran = @ + 1] ELSE plan
  OBVIOUS
<1>4. PICK ran : ran = IF plan.attempts = 0 THEN plan.ran + 1 ELSE plan.ran
  OBVIOUS
<1>5. /\ ran \in Nat /\ ran <= queue.maxTasks
      /\ Cardinality(Attempted) + 1 <= ran
  BY <1>1, <1>2, <1>4, WhilePlanning
<1>6. /\ begun \in Plan
      /\ begun.ends = plan.ends /\ begun.runs = plan.runs /\ begun.status = plan.status
      /\ begun.attempts = plan.attempts /\ begun.used = plan.used /\ begun.ran = ran
      /\ begun.tripped = plan.tripped
  BY <1>2, <1>3, <1>4, <1>5 DEF Plan
<1>7. PICK charged : charged = [begun EXCEPT !.used = @ + Cost, !.attempts = @ + 1]
  OBVIOUS
<1>8. /\ charged \in Plan
      /\ charged.ends = plan.ends /\ charged.runs = plan.runs /\ charged.status = plan.status
      /\ charged.attempts = plan.attempts + 1 /\ charged.used = plan.used + Cost
      /\ charged.ran = ran /\ charged.tripped = plan.tripped
  <2>1. begun = [status |-> begun.status, ends |-> begun.ends, runs |-> begun.runs,
                 used |-> begun.used, ran |-> begun.ran, attempts |-> begun.attempts,
                 tripped |-> begun.tripped]
    BY <1>6 DEF Plan
  <2>2. charged = [status |-> begun.status, ends |-> begun.ends, runs |-> begun.runs,
                   used |-> begun.used + Cost, ran |-> begun.ran,
                   attempts |-> begun.attempts + 1, tripped |-> begun.tripped]
    BY <1>7, <2>1
  <2>3. begun.used + Cost \in Int /\ begun.attempts + 1 \in Nat
    BY <1>2, <1>6
  <2>4. charged \in Plan
    BY <1>6, <2>2, <2>3 DEF Plan
  <2> QED
    BY <1>6, <2>2, <2>4
<1>9. charged.used = Total(Charges(queue, plan.runs)) + (plan.attempts + 1) * Cost
  <2>1. (plan.attempts + 1) * Cost = plan.attempts * Cost + Cost
    BY <1>2
  <2>2. plan.used = Total(Charges(queue, plan.runs)) + plan.attempts * Cost
    BY <1>1, <1>2, WhilePlanning
  <2>3. plan.attempts * Cost \in Int /\ Total(Charges(queue, plan.runs)) \in Int
    BY <1>1, <1>2, WhilePlanning
  <2> QED
    BY <1>2, <1>8, <2>1, <2>2, <2>3
<1>10. \/ /\ plan.used + Cost > queue.maxRuntime
          /\ plan' = Ended([begun EXCEPT !.tripped = TRUE], "STOPPED")
       \/ /\ plan.used + Cost <= queue.maxRuntime
          /\ \/ plan' = Ended(charged, "READY_FOR_HUMAN")
             \/ plan' = charged /\ plan.attempts < queue.maxRetries
             \/ plan' = Ended(charged, "FAILED") /\ ~(plan.attempts < queue.maxRetries)
  <2>1. Task.estimate \in Int /\ queue.timeout \in Int /\ plan.used + Cost \in Int
        /\ queue.maxRuntime \in Int
    <3>1. Len(plan.ends) + 1 \in DOMAIN queue.tasks
      BY <1>1, <1>2, QueueAssumption DEF PlanInv, PlanTypes, Planning, Plan
    <3>2. queue \in Queue /\ queue.maxRuntime \in Int
      BY <1>1, WhilePlanning
    <3>3. Task.estimate \in Int /\ queue.timeout \in Int
      BY <3>1, <3>2, QueueAssumption DEF Task
    <3> QED
      BY <1>2, <3>2, <3>3
  <2> DEFINE one == IF plan.attempts = 0 THEN [plan EXCEPT !.ran = @ + 1] ELSE plan
             more == [one EXCEPT !.used = @ + Cost, !.attempts = @ + 1]
  <2>2. plan' = CASE plan.used + Cost > queue.maxRuntime ->
                       Ended([one EXCEPT !.tripped = TRUE], "STOPPED")
                  [] plan.used + Cost <= queue.maxRuntime /\ Task.estimate <= queue.timeout ->
                       Ended(more, "READY_FOR_HUMAN")
                  [] plan.used + Cost <= queue.maxRuntime /\ Task.estimate > queue.timeout ->
                       IF plan.attempts < queue.maxRetries THEN more
                       ELSE Ended(more, "FAILED")
    BY DEF AttemptTask, Cost
  <2>3. one = begun /\ more = charged
    BY <1>3, <1>7
  <2> HIDE DEF one, more
  <2>4. plan' = CASE plan.used + Cost > queue.maxRuntime ->
                       Ended([begun EXCEPT !.tripped = TRUE], "STOPPED")
                  [] plan.used + Cost <= queue.maxRuntime /\ Task.estimate <= queue.timeout ->
                       Ended(charged, "READY_FOR_HUMAN")
                  [] plan.used + Cost <= queue.maxRuntime /\ Task.estimate > queue.timeout ->
                       IF plan.attempts < queue.maxRetries THEN charged
                       ELSE Ended(charged, "FAILED")
    BY <2>2, <2>3
  <2>5. \/ plan.used + Cost > queue.maxRuntime
        \/ plan.used + Cost <= queue.maxRuntime /\ Task.estimate <= queue.timeout
        \/ plan.used + Cost <= queue.maxRuntime /\ Task.estimate > queue.timeout
    BY <2>1
  <2> QED
    BY <2>4, <2>5
<1>11. CASE plan' = Ended([begun EXCEPT !.tripped = TRUE], "STOPPED")
  <2>1. PICK p : p = [begun EXCEPT !.tripped = TRUE]
    OBVIOUS
  <2>2. /\ p \in Plan
        /\ p.ends = plan.ends /\ p.runs = plan.runs /\ p.status = plan.status
        /\ p.attempts = plan.attempts /\ p.used = plan.used /\ p.ran = ran
    BY <1>6, <2>1 DEF Plan
  <2>3. /\ plan' \in Plan /\ plan'.status = "PLANNING" /\ plan'.attempts = 0
        /\ plan'.ends = Append(plan.ends, "STOPPED")
        /\ plan'.runs = Append(plan.runs, plan.attempts)
        /\ plan'.used = plan.used /\ plan'.ran = ran
    <3>1. plan' = Ended(p, "STOPPED") /\ "STOPPED" \in End
      BY <1>11, <2>1 DEF End
    <3>2. /\ plan' \in Plan /\ plan'.ends = Append(p.ends, "STOPPED")
          /\ plan'.runs = Append(p.runs, p.attempts)
          /\ plan'.status = p.status /\ plan'.attempts = 0
          /\ plan'.used = p.used /\ plan'.ran = p.ran
      BY <2>2, <3>1, EndedIs
    <3> QED
      BY <1>2, <2>2, <3>2
  <2>4. plan.used = Total(Charges(queue, plan.runs)) + plan.attempts * Cost
    BY <1>1, <1>2, WhilePlanning
  <2>5. Cardinality(Attempted) + (IF plan.attempts = 0 THEN 0 ELSE 1) <= ran
    BY <1>1, <1>5, WhilePlanning
  <2>6. plan.used <= queue.maxRuntime /\ "STOPPED" \in End
    BY <1>1, WhilePlanning DEF End
  <2> QED
    BY <1>1, <1>2, <1>5, <2>3, <2>4, <2>5, <2>6, EndKeeps
<1>12. CASE plan.used + Cost <= queue.maxRuntime
  <2>1. /\ plan.attempts + 1 \in Nat /\ plan.attempts + 1 # 0
        /\ Cardinality(Attempted) + (IF plan.attempts + 1 = 0 THEN 0 ELSE 1) <= ran
    BY <1>2, <1>5
  <2>2. ASSUME NEW end \in {"READY_FOR_HUMAN", "FAILED"}, plan' = Ended(charged, end),
               end = "FAILED" => ~(plan.attempts < queue.maxRetries)
        PROVE  PlanInv'
    <3>1. end \in End
      BY DEF End
    <3>2. /\ plan' \in Plan /\ plan'.status = "PLANNING" /\ plan'.attempts = 0
          /\ plan'.ends = Append(plan.ends, end)
          /\ plan'.runs = Append(plan.runs, plan.attempts + 1)
          /\ plan'.used = charged.used /\ plan'.ran = ran
      <4>1. /\ plan' \in Plan /\ plan'.ends = Append(charged.ends, end)
            /\ plan'.runs = Append(charged.runs, charged.attempts)
            /\ plan'.status = charged.status /\ plan'.attempts = 0
            /\ plan'.used = charged.used /\ plan'.ran = charged.ran
        BY <1>8, <2>2, <3>1, EndedIs
      <4> QED
        BY <1>2, <1>8, <4>1
    <3>3. end = "FAILED" => plan.attempts + 1 = queue.maxRetries + 1
      BY <1>1, <1>2, <2>2, WhilePlanning
    <3> QED
      BY <1>1, <1>5, <1>8, <1>9, <1>12, <2>1, <3>1, <3>2, <3>3, EndKeeps
  <2>3. ASSUME plan' = charged, plan.attempts < queue.maxRetries
        PROVE  PlanInv'
    <3>1. PlanTypes' /\ NothingYet'
      BY <1>1, <1>2, <1>8, <2>3 DEF PlanInv, PlanTypes, NothingYet
    <3>2. EndsMean'
      BY <1>1, <1>2, <1>8, <2>3 DEF PlanInv, EndsMean, Looked, Rests, Indices
    <3>3. Attempted' = Attempted /\ Cost' = Cost
      BY <1>1, <1>8, <2>3 DEF Attempted, Looked, Cost, Task
    <3>4. Accounts'
      BY <1>1, <1>2, <1>5, <1>8, <1>9, <1>12, <2>1, <2>3, <3>3, WhilePlanning DEF Accounts
    <3>5. InHand'
      BY <1>1, <1>8, <2>3 DEF InHand, Planning, MayRun, Blocked, Indices, Task
    <3> QED
      BY <3>1, <3>2, <3>4, <3>5 DEF PlanInv
  <2>4. "READY_FOR_HUMAN" \in {"READY_FOR_HUMAN", "FAILED"}
        /\ "FAILED" \in {"READY_FOR_HUMAN", "FAILED"} /\ "READY_FOR_HUMAN" # "FAILED"
    OBVIOUS
  <2>5. plan.used + Cost \in Int /\ queue.maxRuntime \in Int
    BY <1>1, <1>2, WhilePlanning
  <2> QED
    BY <1>10, <1>11, <2>2, <2>3, <2>4
<1> QED
  BY <1>10, <1>11, <1>12

LEMMA EndPlanKeeps ==
  ASSUME PlanInv, EndPlan
  PROVE  PlanInv'
<1>1. /\ queue' = queue /\ plan \in Plan /\ plan.status = "PLANNING"
      /\ Len(plan.ends) = Len(queue.tasks) /\ plan' = [plan EXCEPT !.status = "OK"]
      /\ plan.attempts = 0
  BY QueueAssumption DEF PlanInv, PlanTypes, EndPlan, InHand, Planning
<1>2. /\ plan' \in Plan /\ plan'.status = "OK"
      /\ plan'.ends = plan.ends /\ plan'.runs = plan.runs /\ plan'.attempts = 0
      /\ plan'.used = plan.used /\ plan'.ran = plan.ran
  BY <1>1 DEF Plan
<1>3. PlanTypes' /\ NothingYet' /\ InHand'
  BY <1>1, <1>2 DEF PlanInv, PlanTypes, NothingYet, InHand
<1>4. EndsMean'
  BY <1>1, <1>2 DEF PlanInv, EndsMean, Looked, Rests, Indices
<1>5. Attempted' = Attempted
  BY <1>2 DEF Attempted, Looked
<1>6. Accounts'
  BY <1>1, <1>2, <1>5 DEF PlanInv, Accounts
<1> QED
  BY <1>3, <1>4, <1>6 DEF PlanInv

LEMMA PlanStep ==
  ASSUME PlanInv, [Next]_vars
  PROVE  PlanInv'
<1>1. CASE UNCHANGED plannerVars
  BY <1>1, PlannerStutter
<1>2. CASE PlannerNext(stopFile)
  BY <1>2, PlanQueueKeeps, PassTaskKeeps, AttemptTaskKeeps, EndPlanKeeps DEF PlannerNext
<1> QED
  BY <1>1, <1>2 DEF Next, vars

(* The inductive invariant of the planner, for every queue.                *)
THEOREM PlanInvariant == Spec => []PlanInv
<1>1. Init => PlanInv
  BY PlannerInitKeeps DEF Init
<1>2. PlanInv /\ [Next]_vars => PlanInv'
  BY PlanStep
<1> QED
  BY <1>1, <1>2, PTL DEF Spec

(* What everything upstream of a task is, if what the task and each of     *)
(* them depends on is so.                                                  *)
LEMMA UpstreamWithin ==
  ASSUME NEW t, NEW S \in SUBSET DOMAIN queue.tasks,
         Indices(t.depends) \subseteq S,
         \A i \in S : Indices(queue.tasks[i].depends) \subseteq S
  PROVE  Upstream(t) \subseteq S
BY DEF Upstream

(* A report keeps the promises of planQueue for every queue: what is ready *)
(* is authorized and rests, however indirectly, on ready tasks that wait   *)
(* for no human; the attempts keep within the runtime and the number of    *)
(* tasks; what failed was retried as often as it may be; and a night that  *)
(* is stopped by the kill switch attempts nothing.                         *)
THEOREM PlansKeepTheirLimits == Spec => []PlanKeepsItsLimits
<1>1. ASSUME PlanInv
      PROVE  PlanKeepsItsLimits
  <2> USE DEF PlanInv
  <2>1. /\ queue \in Queue /\ plan \in Plan
        /\ DOMAIN queue.tasks = 1..Len(queue.tasks) /\ Len(queue.tasks) \in Nat
        /\ plan.runs \in Seq(Nat) /\ Len(plan.ends) = Len(plan.runs)
    BY <1>1, QueueAssumption DEF PlanTypes, Plan
  <2>2. ASSUME plan.status = "STOPPED_BY_KILL_SWITCH"
        PROVE  \A i \in DOMAIN queue.tasks : plan.ends[i] = "STOPPED" /\ plan.runs[i] = 0
    BY <1>1, <2>1, <2>2 DEF PlanTypes, EndsMean, Looked
  <2>3. ASSUME plan.status \in {"OK", "STOPPED_BY_KILL_SWITCH"}
        PROVE  /\ DOMAIN queue.tasks = Looked /\ DOMAIN plan.runs = DOMAIN queue.tasks
               /\ {i \in DOMAIN queue.tasks : plan.runs[i] > 0} = Attempted
    BY <1>1, <2>1, <2>3 DEF PlanTypes, Looked, Attempted
  <2>4. ASSUME plan.status \in {"OK", "STOPPED_BY_KILL_SWITCH"},
               NEW i \in DOMAIN queue.tasks, plan.ends[i] = "READY_FOR_HUMAN"
        PROVE  /\ queue.tasks[i].authorized
               /\ \A j \in Upstream(queue.tasks[i]) :
                     /\ plan.ends[j] = "READY_FOR_HUMAN"
                     /\ queue.tasks[j].authorized /\ ~queue.tasks[j].gated
    <3> DEFINE S == {j \in DOMAIN queue.tasks :
                       plan.ends[j] = "READY_FOR_HUMAN" /\ ~queue.tasks[j].gated}
    <3>1. ASSUME NEW k \in DOMAIN queue.tasks, plan.ends[k] = "READY_FOR_HUMAN"
          PROVE  queue.tasks[k].authorized /\ Indices(queue.tasks[k].depends) \subseteq S
      <4>1. Rests(k)
        BY <1>1, <2>3, <2>4, <3>1 DEF EndsMean
      <4> QED
        BY <4>1 DEF Rests, Indices
    <3>2. \A k \in S : Indices(queue.tasks[k].depends) \subseteq S
      BY <3>1
    <3>3. Indices(queue.tasks[i].depends) \subseteq S /\ S \in SUBSET DOMAIN queue.tasks
      BY <2>4, <3>1
    <3>4. Upstream(queue.tasks[i]) \subseteq S
      <4> HIDE DEF S
      <4> QED
        BY <3>2, <3>3, UpstreamWithin
    <3> QED
      BY <2>4, <3>1, <3>4
  <2>5. ASSUME plan.status = "OK"
        PROVE  Total(Charges(queue, plan.runs)) <= queue.maxRuntime
    <3>1. plan.attempts = 0
      BY <1>1, <2>5 DEF InHand, Planning
    <3>2. Total(Charges(queue, plan.runs)) \in Int
      <4>1. Charges(queue, plan.runs) \in Seq(Int)
        BY <1>1, <2>1, ChargesAre DEF PlanTypes
      <4> QED
        BY <4>1, TotalAppend
    <3> QED
      BY <1>1, <2>5, <3>1, <3>2 DEF Accounts
  <2>6. ASSUME plan.status = "OK"
        PROVE  Cardinality(Attempted) <= queue.maxTasks
    <3>1. IsFiniteSet(Looked)
      BY <2>1, FS_Interval DEF Looked
    <3>2. Cardinality(Attempted) \in Nat
      BY <3>1, FS_Subset, FS_CardinalityType DEF Attempted
    <3>3. plan.attempts = 0 /\ queue.maxTasks \in Int /\ plan.ran \in Nat
      BY <1>1, <2>1, <2>6, QueueAssumption DEF InHand, Planning, Plan
    <3> QED
      BY <1>1, <2>6, <3>2, <3>3 DEF Accounts
  <2>7. ASSUME plan.status = "STOPPED_BY_KILL_SWITCH"
        PROVE  /\ Total(Charges(queue, plan.runs)) <= queue.maxRuntime
               /\ Cardinality(Attempted) <= queue.maxTasks
    <3>1. queue.maxRuntime \in Int /\ queue.maxRuntime > 0
          /\ queue.maxTasks \in Int /\ queue.maxTasks > 0
      BY <1>1, <2>1, <2>7, QueueAssumption DEF PlanTypes, Valid
    <3>2. \A i \in 1..Len(plan.runs) : Charges(queue, plan.runs)[i] = 0
      <4>1. ASSUME NEW i \in 1..Len(plan.runs)
            PROVE  Charges(queue, plan.runs)[i] = 0
        <5>1. plan.runs[i] = 0 /\ AttemptRuntime(queue, queue.tasks[i]) \in Int
          BY <1>1, <2>1, <2>2, <2>7, CostIsNumber DEF PlanTypes
        <5>2. Charges(queue, plan.runs)[i] = plan.runs[i] * AttemptRuntime(queue, queue.tasks[i])
          BY <1>1, <2>1, ChargesAre DEF PlanTypes
        <5> QED
          BY <5>1, <5>2
      <4> QED
        BY <4>1
    <3>3. Total(Charges(queue, plan.runs)) = 0
      <4>1. Charges(queue, plan.runs) \in Seq(Int)
            /\ Len(Charges(queue, plan.runs)) = Len(plan.runs)
        BY <1>1, <2>1, ChargesAre DEF PlanTypes
      <4> QED
        BY <3>2, <4>1, TotalOfNothing
    <3>4. Attempted = {}
      BY <2>1, <2>2, <2>3, <2>7 DEF Attempted
    <3>5. Cardinality(Attempted) = 0
      BY <3>4, FS_EmptySet
    <3> QED
      BY <3>1, <3>3, <3>5
  <2>8. \A i \in DOMAIN queue.tasks : plan.status \in {"OK", "STOPPED_BY_KILL_SWITCH"}
          /\ plan.ends[i] = "FAILED" => plan.runs[i] = queue.maxRetries + 1
    BY <1>1, <2>3 DEF EndsMean
  <2> QED
    BY <2>2, <2>3, <2>4, <2>5, <2>6, <2>7, <2>8 DEF PlanKeepsItsLimits
<1> QED
  BY <1>1, PlanInvariant, PTL
=============================================================================
