---------------------------- MODULE FirewallHooks ----------------------------
(***************************************************************************)
(* The hooks of the orchestrator firewall (bin/mihver-firewall.mjs) over   *)
(* their receipt ledgers (src/ledger.mjs) and the gate they decide with    *)
(* (src/stopgate.mjs), for one prompt of one session.                      *)
(*                                                                         *)
(* The host starts one process per hook event and does not order them: the *)
(* pre-tool and post-tool hooks of concurrent delegations and the stop     *)
(* hook of the main thread overlap.  Each process reads, verifies and      *)
(* appends with no lock, in the file operations modelled here one by one.  *)
(* A hook that crashes or exceeds the host's 10 seconds gives no answer,   *)
(* and the host goes on as if it had allowed.                              *)
(*                                                                         *)
(* A record's hash is its place in its file, so that prevHash says what    *)
(* seq says.  The head anchor is the length the last writer wrote; between *)
(* the append of a record and the write of its anchor it does not match.   *)
(* What the workspace was at a time is written as the number of changes    *)
(* there had been; a change may put back what was there before, and the    *)
(* fingerprint tells contents apart, not times.  The clock that stamps     *)
(* completions may give two of them the same millisecond.                  *)
(***************************************************************************)
EXTENDS Naturals, Sequences, SequencesExt

CONSTANTS Delegation,  \* the delegations of the prompt, by toolUseId
          Role,        \* IMPLEMENTER, VERIFIER
          MaxChange,   \* bound: changes of the workspace
          Content,     \* what the workspace holds after so many changes
          MaxStop,     \* bound: stop events of the prompt
          MaxCrash,    \* bound: hooks that crash or time out
          Thread,      \* the thread ids Codex answers with; it may repeat one
          NoThread     \* no thread: a creation, or an answer without an id

ASSUME HooksAssumption == /\ {"IMPLEMENTER", "VERIFIER"} \subseteq Role
                          /\ NoThread \notin Thread /\ "stop" \notin Delegation
                          /\ DOMAIN Content = 0 .. MaxChange
                          /\ MaxChange \in Nat /\ MaxStop \in Nat /\ MaxCrash \in Nat

Stores == {"ledger", "threads"}

VARIABLES store,   \* the two hash-chained files: lines and head anchor
          tool,    \* the delegations: what the host has done with them
          stops,   \* the answers of the stop hooks that ended
          baseline, \* what userPrompt recorded of it when the prompt began
          hook,    \* the running hook processes, by delegation or "stop"
          work,    \* the workspace: how often it was changed
          clock,   \* the last time stamp
          crashes  \* the hooks that were cut short

hooksVars == <<store, tool, stops, hook, work, baseline, clock, crashes>>

NoFingerprint == MaxChange + 1  \* equal to no fingerprint: none was taken

(* Their fingerprints are equal.                                           *)
Same(f, g) == f = g \/ (NoFingerprint \notin {f, g} /\ Content[f] = Content[g])

Hooks == Delegation \cup {"stop"}
NoHook == [pc |-> "none"]

HooksInit ==
    /\ store = [s \in Stores |-> [lines |-> <<>>, head |-> 0]]
    /\ tool = [d \in Delegation |-> [state |-> "new"]]
    /\ stops = <<>>
    /\ hook = [h \in Hooks |-> NoHook]
    /\ work = 0
    /\ baseline \in {0, NoFingerprint}
    /\ clock = 0
    /\ crashes = 0

-----------------------------------------------------------------------------
(* verifyChain: every record is where its sequence number says, and the    *)
(* anchor names the last one.                                              *)
Verified(s) == /\ \A i \in DOMAIN store[s].lines : store[s].lines[i].seq = i - 1
               /\ store[s].head = Len(store[s].lines)

Records(s) == ToSet(store[s].lines)

(* Seeded fault: any STARTED record will do.                               *)
StartedByAny(d) == \E r \in Records("ledger") : r.status = "STARTED"

Started(d) == \E r \in Records("ledger") : r.status = "STARTED" /\ r.tool = d
Terminal(d) == \E r \in Records("ledger") :
                   r.status \in {"COMPLETED", "FAILED"} /\ r.tool = d

(* Seeded fault: a bound thread may change its role.                       *)
MayReplyAnyRole(thread, role) ==
    \E r \in Records("threads") : r.thread = thread /\ r.status = "BOUND"

(* findThreadBinding and the comparison of its authority with the reply's. *)
MayReply(thread, role) ==
    /\ \A r \in Records("threads") :
           r.thread = thread => r.status # "THREAD_BINDING_CONFLICT"
    /\ \E r \in Records("threads") :
           r.thread = thread /\ r.status = "BOUND" /\ r.role = role

(* The status appendThreadBinding gives a binding of this thread.          *)
BindingOf(thread) ==
    CASE thread = NoThread -> "UNBOUND"
      [] thread # NoThread /\ \E r \in Records("threads") :
            r.thread = thread /\ r.status \in {"BOUND", "THREAD_BINDING_CONFLICT"}
         -> "THREAD_BINDING_CONFLICT"
      [] OTHER -> "BOUND"

(* appendRecord: verify the file and take the next sequence number, append *)
(* the line, write the anchor.  An invalid file is not appended to: the    *)
(* process throws.  Appending is a process that is about to take a number, *)
(* for a record whose seq is 0 until then; Numbered is one that has it.    *)
Appending(s, record, then) ==
    [pc |-> "verify", store |-> s, then |-> then, record |-> record]
Numbered(s, record, then) ==
    [pc |-> "line", store |-> s, then |-> then,
     record |-> [record EXCEPT !.seq = Len(store[s].lines)]]

TakeNumber(h) ==
    /\ hook[h].pc = "verify"
    /\ Verified(hook[h].store)
    /\ hook' = [hook EXCEPT ![h].pc = "line",
                            ![h].record.seq = Len(store[hook[h].store].lines)]
    /\ UNCHANGED <<store, tool, stops, work, baseline, clock, crashes>>

AppendLine(h) ==
    /\ hook[h].pc = "line"
    /\ store' = [store EXCEPT ![hook[h].store].lines = Append(@, hook[h].record)]
    /\ hook' = [hook EXCEPT ![h].pc = "head"]
    /\ UNCHANGED <<tool, stops, work, baseline, clock, crashes>>

WriteHead(h) ==
    /\ hook[h].pc = "head"
    /\ store' = [store EXCEPT ![hook[h].store].head = hook[h].record.seq + 1]
    /\ hook' = [hook EXCEPT ![h] = IF hook[h].then \in {"allow", "end"} THEN NoHook
                                   ELSE [@ EXCEPT !.pc = hook[h].then]]
    /\ tool' = IF hook[h].then = "allow" THEN [tool EXCEPT ![h].state = "running"] ELSE tool
    /\ UNCHANGED <<stops, work, baseline, clock, crashes>>

StopEnds(gate, answer) ==
    stops' = Append(stops, [gate |-> gate, answer |-> answer, work |-> hook["stop"].work])

RefuseAppend(h) ==
    /\ hook[h].pc = "verify"
    /\ ~Verified(hook[h].store)
    /\ hook' = [hook EXCEPT ![h] = NoHook]
    /\ IF h = "stop" THEN StopEnds("block", "nothing") ELSE UNCHANGED stops
    /\ UNCHANGED <<store, tool, work, baseline, clock, crashes>>

StartedRecord(d, role, thread) ==
    [seq |-> 0, status |-> "STARTED", tool |-> d, role |-> role, thread |-> thread]
InvalidRecord(d) == [seq |-> 0, status |-> "DELEGATION_METADATA_INVALID", tool |-> d]

-----------------------------------------------------------------------------
(* preTool.  A delegation of bad parameters, by the wrong identity, or     *)
(* replying on a thread that is not bound to its role is denied; one whose *)
(* metadata does not parse is recorded and denied; any other is recorded   *)
(* as started and let run.  An error, an invalid ledger among them, denies.*)
DenyTool(d) ==
    /\ tool[d].state = "new"
    /\ tool' = [tool EXCEPT ![d].state = "denied"]
    /\ UNCHANGED <<store, stops, hook, work, baseline, clock, crashes>>

PreTool(d) ==
    /\ tool[d].state = "new"
    /\ Verified("ledger")
    /\ \E role \in Role, thread \in Thread \cup {NoThread} :
           /\ tool' = [tool EXCEPT ![d] = [state |-> "asked", role |-> role, thread |-> thread]]
           /\ \/ hook' = [hook EXCEPT ![d] = Numbered("ledger", InvalidRecord(d), "deny")]
              \/ /\ \/ thread = NoThread
                    \/ Verified("threads") /\ MayReply(thread, role)
                 /\ hook' = [hook EXCEPT ![d] =
                        Numbered("ledger", StartedRecord(d, role, thread), "allow")]
    /\ UNCHANGED <<store, stops, work, baseline, clock, crashes>>

Deny(d) ==
    /\ hook[d].pc = "deny"
    /\ hook' = [hook EXCEPT ![d] = NoHook]
    /\ tool' = [tool EXCEPT ![d].state = "denied"]
    /\ UNCHANGED <<store, stops, work, baseline, clock, crashes>>

(* The host: a delegation returns, with a thread if it created one, or     *)
(* fails; and the workspace changes, by delegations or by anyone.          *)
Return(d) ==
    /\ tool[d].state = "running"
    /\ \E state \in {"returned", "failed"}, id \in Thread \cup {NoThread} :
           /\ tool[d].thread # NoThread \/ state = "failed" => id = NoThread
           /\ tool' = [tool EXCEPT ![d] = [state |-> state, role |-> @.role,
                          thread |-> @.thread, id |-> id, work |-> work, posted |-> NoFingerprint]]
    /\ UNCHANGED <<store, stops, hook, work, baseline, clock, crashes>>

ChangeWorkspace ==
    /\ work < MaxChange
    /\ work' = work + 1
    /\ UNCHANGED <<store, tool, stops, hook, baseline, clock, crashes>>

(* postTool: a delegation without a STARTED record mints no receipt; the   *)
(* fingerprint is taken of the workspace as it is now.  posted is what the *)
(* workspace was when the host ran the hook.                               *)
PostTool(d) ==
    /\ tool[d].state \in {"returned", "failed"}
    /\ tool[d].posted = NoFingerprint
    /\ tool' = [tool EXCEPT ![d].posted = work]
    /\ hook' = [hook EXCEPT ![d] = IF Verified("ledger") /\ Started(d)
                                   THEN [pc |-> "correlate", work |-> work] ELSE NoHook]
    /\ UNCHANGED <<store, stops, work, baseline, clock, crashes>>

(* appendCompletion: the records are read again, and the completion is     *)
(* stamped with the time it is written, not the time of the return.        *)
Correlate(d) ==
    /\ hook[d].pc = "correlate"
    /\ clock' \in {clock, clock + 1}
    /\ IF Verified("ledger") /\ Started(d) /\ ~Terminal(d)
       THEN hook' = [hook EXCEPT ![d] = Numbered("ledger",
               [seq |-> 0, status |-> IF tool[d].state = "returned" THEN "COMPLETED" ELSE "FAILED",
                tool |-> d, role |-> tool[d].role, at |-> clock', work |-> @.work],
               IF tool[d].state = "returned" /\ tool[d].thread = NoThread
               THEN "bind" ELSE "end")]
       ELSE hook' = [hook EXCEPT ![d] = NoHook]
    /\ UNCHANGED <<store, tool, stops, work, baseline, crashes>>

(* appendThreadBinding, for the thread a creation answered with.           *)
BindThread(d) ==
    /\ hook[d].pc = "bind"
    /\ IF Verified("threads")
       THEN hook' = [hook EXCEPT ![d] = Appending("threads",
               [seq |-> 0, status |-> BindingOf(tool[d].id), thread |-> tool[d].id,
                role |-> tool[d].role], "end")]
       ELSE hook' = [hook EXCEPT ![d] = NoHook]
    /\ UNCHANGED <<store, tool, stops, work, baseline, clock, crashes>>

-----------------------------------------------------------------------------
(* Seeded fault: the verifier's fingerprint is not compared.               *)
DecideStopStale(current, records) ==
    LET done(role) == {r \in records : r.status = "COMPLETED" /\ r.role = role}
    IN  IF \/ Same(current, baseline)
           \/ /\ done("IMPLEMENTER") # {}
              /\ \E v \in done("VERIFIER") : \A i \in done("IMPLEMENTER") : v.at > i.at
        THEN "allow" ELSE "block"

(* decideStop: an unchanged workspace needs nothing; a changed one needs a *)
(* completed implementer and a verifier completed after the last of them,  *)
(* whose fingerprint is the present one.                                   *)
DecideStop(current, records) ==
    LET done(role) == {r \in records : r.status = "COMPLETED" /\ r.role = role}
        later == {v \in done("VERIFIER") : \A i \in done("IMPLEMENTER") : v.at > i.at}
        last == CHOOSE v \in later : \A o \in later :
                    v.at > o.at \/ (v.at = o.at /\ v.seq >= o.seq)
        changed == ~Same(current, baseline)
    IN  CASE ~changed -> "allow"
          [] changed /\ done("IMPLEMENTER") = {} -> "block"
          [] changed /\ done("IMPLEMENTER") # {} /\ later = {} -> "block"
          [] OTHER -> IF Same(last.work, current) THEN "allow" ELSE "block"

(* The turn goes on, to stop again, only when the last stop was blocked.   *)
Stop ==
    /\ hook["stop"] = NoHook
    /\ Len(stops) < MaxStop
    /\ \A i \in DOMAIN stops : stops[i].answer = "block"
    /\ hook' = [hook EXCEPT !["stop"] = [pc |-> "decide", work |-> work]]
    /\ UNCHANGED <<store, tool, stops, work, baseline, clock, crashes>>

(* An invalid ledger counts as one without records.                        *)
Decide ==
    /\ hook["stop"].pc = "decide"
    /\ LET gate == DecideStop(hook["stop"].work,
                              IF Verified("ledger") THEN Records("ledger") ELSE {})
       IN  IF gate = "allow"
           THEN /\ StopEnds("allow", "allow")
                /\ hook' = [hook EXCEPT !["stop"] = NoHook]
           ELSE /\ hook' = [hook EXCEPT !["stop"] =
                       [pc |-> "verify", store |-> "ledger", then |-> "block", work |-> @.work,
                        record |-> [seq |-> 0, status |-> "STOP_BLOCKED", tool |-> "stop"]]]
                /\ UNCHANGED stops
    /\ UNCHANGED <<store, tool, work, baseline, clock, crashes>>

Block ==
    /\ hook["stop"].pc = "block"
    /\ StopEnds("block", "block")
    /\ hook' = [hook EXCEPT !["stop"] = NoHook]
    /\ UNCHANGED <<store, tool, work, baseline, clock, crashes>>

(* A hook crashes or times out.  The host goes on without its answer.      *)
HookCrash(h) ==
    /\ hook[h] # NoHook
    /\ crashes < MaxCrash
    /\ crashes' = crashes + 1
    /\ hook' = [hook EXCEPT ![h] = NoHook]
    /\ IF h = "stop" THEN StopEnds("none", "crashed") ELSE UNCHANGED stops
    /\ tool' = IF h \in Delegation /\ tool[h].state = "asked"
               THEN [tool EXCEPT ![h].state = "running"] ELSE tool
    /\ UNCHANGED <<store, work, baseline, clock>>

(* What goes on in the hooks that have begun, and around them.             *)
HookStep ==
    \/ \E h \in Hooks : \/ TakeNumber(h) \/ AppendLine(h) \/ WriteHead(h)
                       \/ RefuseAppend(h) \/ HookCrash(h)
    \/ \E d \in Delegation : \/ Deny(d) \/ Return(d)
                            \/ Correlate(d) \/ BindThread(d)
    \/ Decide
    \/ Block
    \/ ChangeWorkspace

HookBegins == Stop \/ \E d \in Delegation : DenyTool(d) \/ PreTool(d) \/ PostTool(d)

-----------------------------------------------------------------------------
(* A terminal receipt is true of its delegation: one per delegation, after *)
(* its STARTED record, of the outcome it had, with a fingerprint the       *)
(* workspace had once it had returned.                                     *)
ReceiptsAreTrue ==
    \A i \in DOMAIN store["ledger"].lines :
        LET r == store["ledger"].lines[i]
        IN  r.status \in {"COMPLETED", "FAILED"} =>
            /\ tool[r.tool].state = IF r.status = "COMPLETED" THEN "returned" ELSE "failed"
            /\ r.work >= tool[r.tool].work
            /\ \E j \in 1..(i - 1) : /\ store["ledger"].lines[j].status = "STARTED"
                                    /\ store["ledger"].lines[j].tool = r.tool
                                    /\ store["ledger"].lines[j].role = r.role
            /\ \A j \in 1..(i - 1) : store["ledger"].lines[j].tool = r.tool =>
                   store["ledger"].lines[j].status \notin {"COMPLETED", "FAILED"}

(* A reply is started only on a thread that a delegation of its own role   *)
(* created and really returned with.                                       *)
RepliesKeepAuthority ==
    \A r \in Records("ledger") :
        r.status = "STARTED" /\ r.thread # NoThread =>
            \E d \in Delegation : /\ tool[d].state = "returned"
                                 /\ tool[d].id = r.thread
                                 /\ tool[d].role = r.role

(* A stop the gate allowed on a changed workspace was earned: an           *)
(* implementer and a verifier really returned, and the workspace the gate  *)
(* saw holds what it held when the host ran that verifier's post-tool      *)
(* hook: nothing was changed since, or all of it was put back, whatever    *)
(* was recorded, lost or cut short.                                        *)
AllowedWasEarned ==
    \A i \in DOMAIN stops :
        stops[i].answer = "allow" /\ ~Same(stops[i].work, baseline) =>
            \E implementer, verifier \in Delegation :
                /\ tool[implementer].state = "returned"
                /\ tool[implementer].role = "IMPLEMENTER"
                /\ tool[verifier].state = "returned"
                /\ tool[verifier].role = "VERIFIER"
                /\ Same(tool[verifier].posted, stops[i].work)

(* "Stop never self-releases": a stop hook that was not cut short and      *)
(* whose gate said block has answered block.                               *)
StopNeverSelfReleases ==
    \A i \in DOMAIN stops : stops[i].gate = "block" => stops[i].answer = "block"
=============================================================================
