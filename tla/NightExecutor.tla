---------------------------- MODULE NightExecutor ----------------------------
(***************************************************************************)
(* The executor of one task (scripts/dev/night-runner-executor.mjs): a     *)
(* model process in a process group of its own, and the callbacks that     *)
(* settle the one result of the call: its close and error events, the poll *)
(* of the stop file, the timeout, the escalation to SIGKILL and the end of *)
(* the grace period.  The callbacks run one at a time in any order the     *)
(* event loop allows; the processes run, fork and end by themselves.       *)
(*                                                                         *)
(* close comes when the child is gone and no process holds its pipes.  A   *)
(* helper is a descendant in the group, which may have given up the pipes; *)
(* a stray has left the group and holds them, out of reach of the signals. *)
(* A signal is delivered whenever the processes get to it: SIGTERM may be  *)
(* ignored, SIGKILL may not.  The system may refuse to send one, and       *)
(* taskkill may not start; terminateProcessTree swallows that, and what is *)
(* left to the executor is the end of the grace period.                    *)
(***************************************************************************)
EXTENDS Integers, Sequences

VARIABLES stopFile,  \* whether .project/STOP is there
          exec,      \* the call: what executeTask has closed over
          group      \* the processes it has started

executorVars == <<exec, group>>

None == "none"
NotStarted == [phase |-> "idle", platform |-> None, fallback |-> FALSE,
               asked |-> <<>>, kind |-> None, escalated |-> FALSE,
               closed |-> None, result |-> [outcome |-> None, uncertain |-> FALSE]]
NoProcess == [alive |-> {}, pipes |-> {}, code |-> None, signal |-> None, refused |-> FALSE]

ExecutorInit == exec = NotStarted /\ group = NoProcess

Settled == exec.result.outcome # None
Running == exec.phase = "running" /\ ~Settled
Terminating == exec.kind # None

(* finish: the first result stands, and the timers are cleared.            *)
Finish(e, outcome, uncertain) ==
    [e EXCEPT !.result = [outcome |-> outcome, uncertain |-> uncertain]]
TerminatedAs(e) == IF e.kind = "stop" THEN "STOPPED" ELSE "TIMED_OUT"

-----------------------------------------------------------------------------
(* The checks before anything is started: the workspace, the stop file,    *)
(* the descriptor and the options, and the model's command line.           *)
Refuse ==
    /\ exec.phase = "idle"
    /\ exec' = [exec EXCEPT !.phase = "refused",
                            !.result = [outcome |-> "REFUSED", uncertain |-> FALSE]]
    /\ UNCHANGED <<stopFile, group>>

Begin ==
    /\ exec.phase = "idle"
    /\ ~stopFile
    /\ \E platform \in {"posix", "win32"} :
           exec' = [exec EXCEPT !.phase = "launch", !.platform = platform]
    /\ UNCHANGED <<stopFile, group>>

(* launch.  A command that is not found is looked up and launched again,   *)
(* once; spawn says so at once or by an error event before any timer runs. *)
Launch ==
    /\ exec.phase = "launch"
    /\ \/ /\ exec' = [exec EXCEPT !.phase = "running"]
          /\ group' = [group EXCEPT !.alive = {"child"}, !.pipes = {"child"}]
       \/ /\ ~exec.fallback
          /\ exec' = [exec EXCEPT !.fallback = TRUE]
          /\ UNCHANGED group
       \/ /\ exec' = Finish([exec EXCEPT !.phase = "running"], "FAILED", FALSE)
          /\ UNCHANGED group
    /\ UNCHANGED stopFile

(* terminateProcessTree: a signal to the group, refused or not.            *)
Signalled(signal, refused) == [group EXCEPT !.signal = signal, !.refused = refused]
FirstSignal == IF exec.platform = "win32" THEN "KILL" ELSE "TERM"

(* Seeded fault: a later reason replaces the first.                        *)
RequestAgain(kind) ==
    /\ exec' = [exec EXCEPT !.asked = Append(@, kind), !.kind = kind]
    /\ \E refused \in BOOLEAN : group' = Signalled(FirstSignal, refused)

(* requestTermination: the first reason counts.  taskkill ends the tree    *)
(* outright; a process group is asked first.                               *)
RequestTermination(kind) ==
    /\ exec' = [exec EXCEPT !.asked = Append(@, kind),
                            !.kind = IF Terminating THEN @ ELSE kind]
    /\ \E refused \in BOOLEAN :
           group' = IF Terminating THEN group ELSE Signalled(FirstSignal, refused)

(* The timer of the timeout fires once, the poll of the stop file again    *)
(* and again; what a later one asks for changes nothing and is left out    *)
(* after the first that does so.                                           *)
Timeout ==
    /\ Running
    /\ "timeout" \notin {exec.asked[i] : i \in DOMAIN exec.asked}
    /\ RequestTermination("timeout")
    /\ UNCHANGED stopFile

PollStop ==
    /\ Running
    /\ stopFile
    /\ "stop" \notin {exec.asked[i] : i \in DOMAIN exec.asked}
    /\ RequestTermination("stop")
    /\ UNCHANGED stopFile

(* Seeded fault: the close of the child answers for its group.             *)
CloseAtOnce ==
    /\ Running
    /\ exec.closed = None
    /\ "child" \notin group.alive
    /\ group.pipes = {}
    /\ exec' = Finish([exec EXCEPT !.closed = group.code],
                      IF Terminating THEN TerminatedAs(exec)
                      ELSE IF group.code = "zero" THEN "COMPLETED" ELSE "FAILED", FALSE)
    /\ UNCHANGED <<stopFile, group>>

(* The close event.  A group that is being terminated is not answered for  *)
(* before what is left of it has been sent SIGKILL.                        *)
Close ==
    /\ Running
    /\ exec.closed = None
    /\ "child" \notin group.alive
    /\ group.pipes = {}
    /\ LET closed == [exec EXCEPT !.closed = group.code]
       IN  exec' = CASE Terminating /\ exec.platform = "posix" /\ ~exec.escalated -> closed
                     [] Terminating /\ (exec.platform = "win32" \/ exec.escalated) ->
                          Finish(closed, TerminatedAs(exec), FALSE)
                     [] OTHER -> Finish(closed, IF group.code = "zero" THEN "COMPLETED" ELSE "FAILED", FALSE)
    /\ UNCHANGED <<stopFile, group>>

Escalate ==
    /\ Running
    /\ Terminating /\ exec.platform = "posix" /\ ~exec.escalated
    /\ \E refused \in BOOLEAN : group' = Signalled("KILL", refused)
    /\ LET escalated == [exec EXCEPT !.escalated = TRUE]
       IN  exec' = IF exec.closed = None THEN escalated
                   ELSE Finish(escalated, TerminatedAs(exec), FALSE)
    /\ UNCHANGED stopFile

(* Seeded fault: the grace period ends only for a child that has closed.   *)
GraceEndsClosed ==
    /\ Running
    /\ Terminating /\ exec.closed # None
    /\ exec.platform = "posix" => exec.escalated
    /\ exec' = Finish(exec, TerminatedAs(exec), TRUE)
    /\ UNCHANGED <<stopFile, group>>

(* The end of the grace period, which is due after the escalation.         *)
GraceEnds ==
    /\ Running
    /\ Terminating
    /\ exec.platform = "posix" => exec.escalated
    /\ exec' = Finish(exec, TerminatedAs(exec), TRUE)
    /\ UNCHANGED <<stopFile, group>>

ExecutorStep == Launch \/ Timeout \/ PollStop \/ Close \/ Escalate \/ GraceEnds

-----------------------------------------------------------------------------
(* The processes: the child starts others, keeping its pipes or not, ends  *)
(* by itself or by a signal; so do they.                                   *)
Fork ==
    /\ "child" \in group.alive
    /\ group.signal = "KILL" => group.refused
    /\ \E p \in {"helper", "stray"} \ group.alive, holds \in BOOLEAN :
           /\ p = "stray" => holds
           /\ group' = [group EXCEPT !.alive = @ \cup {p},
                                     !.pipes = IF holds THEN @ \cup {p} ELSE @]
    /\ UNCHANGED <<stopFile, exec>>

ProcessEnds ==
    /\ \E p \in group.alive, code \in {"zero", "other"} :
           group' = [group EXCEPT !.alive = @ \ {p}, !.pipes = @ \ {p},
                                  !.code = IF p = "child" THEN code ELSE @]
    /\ UNCHANGED <<stopFile, exec>>

ProcessStep == Fork \/ ProcessEnds

(* A person creates or removes the stop file.                              *)
ToggleStop == stopFile' = ~stopFile /\ UNCHANGED <<exec, group>>

-----------------------------------------------------------------------------
(* An execution that was stopped or timed out is answered only once the    *)
(* signal that cannot be ignored was sent to its whole group, even when    *)
(* the child closed before; and one whose end is called certain is over    *)
(* and holds no pipe, also when the system refused the signal.             *)
TerminatedGroupIsKilled ==
    Settled /\ exec.result.outcome \in {"STOPPED", "TIMED_OUT"} =>
        /\ group.signal = "KILL"
        /\ ~exec.result.uncertain => group.pipes = {} /\ "child" \notin group.alive

(* The outcome names what came first: the first of the stop file and the   *)
(* timeout that was acted on, or the end of the child if neither was.      *)
OutcomeIsTheFirstCause ==
    Settled /\ exec.phase = "running" =>
        exec.result.outcome =
            CASE exec.asked # <<>> /\ exec.asked[1] = "stop" -> "STOPPED"
              [] exec.asked # <<>> /\ exec.asked[1] = "timeout" -> "TIMED_OUT"
              [] OTHER -> IF group.code = "zero" THEN "COMPLETED" ELSE "FAILED"
=============================================================================
