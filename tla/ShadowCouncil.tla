---------------------------- MODULE ShadowCouncil ----------------------------
(***************************************************************************)
(* A shadow council exercise, scripts/dev/shadow-council-harness.mjs with  *)
(* shadow-council-run-bundle-evidence.mjs: model processes propose and     *)
(* vote, the kernel decides, and every packet, attestation, assessment and *)
(* failure is in the run bundle before the exercise goes on; at the end    *)
(* the record and a quorum proof made from the files alone.                *)
(*                                                                         *)
(* It composes the council and the run bundle.  The exercise is one        *)
(* synchronous process and its kernel session a value of that process.  An *)
(* operator may call the compiler for the same bundle between two of its   *)
(* appends; either may crash; source files may be changed by others.       *)
(***************************************************************************)
EXTENDS CouncilProof, RunBundle

CONSTANTS
  Seating,      \* opts.seatIds: who is asked to vote, in which order
  Note,         \* the evidence entries of the operator
  TheRun, TheTask,
  MaxTry        \* bound on the exercises that are started

VARIABLE ex     \* the exercise

exerciseVars == <<councilVars, bundleVars, ex>>

(* An entry's id is made from its content: two exercises for one request   *)
(* write the same request, configuration and packets, while the rest       *)
(* carries what a process answered, which no other answers again.          *)
Same == {"request", "config", "spec", "packet"}
Entry(kind, seat, data) ==
  [id |-> <<kind, seat, IF kind \in Same THEN 0 ELSE ex.try, data>>,
   kind |-> kind, seat |-> seat, try |-> ex.try, data |-> data]

Out(try) == [pc |-> "idle", try |-> try, request |-> None, seats |-> <<>>, at |-> 0,
             vote |-> None, todo |-> <<>>, gated |-> FALSE, final |-> FALSE]

Kernel == sessions[ex.request]
ProposerSeat == Proposer(ex.request, Kernel.config)
Seat == IF ex.at = 0 THEN ProposerSeat ELSE ex.seats[ex.at]
Voting == ex.at > 0
Frozen == IF Kernel.candidate = None THEN None ELSE Kernel.candidate.content
Packet(seat, content) == Entry("packet", seat, content)

Ready(pc) == ex.pc = pc /\ ex.todo = <<>>
Goes(pc, todo) == ex' = [ex EXCEPT !.pc = pc, !.todo = todo]
Throws == Goes("thrown", <<>>)
Captures(stage) == Goes("thrown", <<Entry("failure", Seat, stage)>>)

-----------------------------------------------------------------------------
(* The durable appends, made one at a time from todo.                      *)

DurableAppend ==
  /\ ex.todo # <<>>
  /\ Open("exercise", TheRun, TheTask, {Head(ex.todo)}, FALSE)
  /\ spoiled' = spoiled \ {Head(ex.todo).id}      \* the source file is written first
  /\ UNCHANGED <<councilVars, ex>>

(* A rejected attestation that cannot be appended does not hide why it was *)
(* rejected.                                                               *)
Appended ==
  /\ call.by = "exercise" /\ call.pc \in {"ok", "blocked"} /\ ex.pc # "finalizing"
  /\ IF call.pc = "ok" \/ Head(ex.todo).kind = "rejected"
     THEN ex' = [ex EXCEPT !.todo = Tail(@)]
     ELSE Throws
  /\ call' = NoCall
  /\ UNCHANGED <<councilVars, files, spoiled, reader, reports, acked>>

-----------------------------------------------------------------------------
(* The exercise.                                                           *)

Starts(r, k, seats, gated, final) ==
  /\ ex.pc = "idle" /\ ex.try <= MaxTry
  /\ k = Trusted[r.epoch]             \* assertCanonicalShadowCouncilConfig
  /\ CreateSession(r, k)
  /\ ex' = [Out(ex.try) EXCEPT
       !.pc = "invoke", !.request = r, !.seats = seats, !.gated = gated, !.final = final,
       !.todo = <<Entry("request", None, r.id), Entry("config", None, k.epoch)>>
                \o (IF gated THEN <<Entry("spec", None, r.id)>> ELSE <<>>)
                \o <<Packet(Proposer(r, k), None)>>]
  /\ UNCHANGED bundleVars

(* The process of a seat: it is not admitted, or is, or nothing comes.      *)
Invoke ==
  /\ Ready("invoke")
  /\ \/ Captures("INVOCATION")
     \/ Goes("thrown", <<Entry("rejected", Seat, Voting), Entry("failure", Seat, "ADMISSION")>>)
     \/ Goes("answered", <<Entry("attestation", Seat, Voting)>>)
  /\ UNCHANGED <<councilVars, bundleVars>>

(* Seeded fault: the hook that appends an assessment is not called.        *)
AnswerUndocumented ==
  /\ Ready("answered")
  /\ \/ Captures("RESPONSE")
     \/ ~Voting /\ Goes("submit", <<>>)
     \/ Voting /\ \E v \in VoteValue : ex' = [ex EXCEPT !.pc = "vote", !.vote = v]
  /\ UNCHANGED <<councilVars, bundleVars>>

Answer ==
  /\ Ready("answered")
  /\ \/ Captures("RESPONSE")
     \/ /\ ~Voting
        /\ Goes("submit", IF ex.gated THEN <<Entry("unfrozen", Seat, None)>> ELSE <<>>)
     \/ /\ Voting
        /\ \E v \in VoteValue :
             ex' = [ex EXCEPT !.pc = "vote", !.vote = v, !.todo = <<Entry("assessment", Seat, v)>>]
  /\ UNCHANGED <<councilVars, bundleVars>>

Sent == [request |-> ex.request.id, epoch |-> ex.request.epoch, seat |-> Seat]

(* A proposal that does not meet the requirement spec goes no further.  An  *)
(* event the kernel takes, or the failure that it did not.                  *)
Propose(c) ==
  /\ \/ Ready("submit") /\ ex.gated /\ Captures("CANDIDATE_GATE") /\ UNCHANGED councilVars
     \/ /\ Ready("submit")
        /\ \/ SubmitCommitment(ex.request, Sent, c) /\ Goes("reveal", <<>>)
           \/ ~In(ex.request, "CREATED") /\ Captures("KERNEL_EVENT") /\ UNCHANGED councilVars
     \/ Ready("reveal") /\ RevealProposal(ex.request, Sent, c) /\ Goes("freeze", <<>>)
     \/ Ready("freeze") /\ FreezeCandidate(ex.request) /\ Goes("next", <<>>)
  /\ UNCHANGED bundleVars

NextSeat ==
  /\ Ready("next")
  /\ IF ex.at = 0 /\ ex.request.risk = "R2" /\ \E i \in DOMAIN ex.seats : ex.seats[i] = ProposerSeat
     THEN Throws                                   \* PROPOSER_CANNOT_VOTE
     ELSE IF ex.at = Len(ex.seats) THEN Goes("count", <<>>)
     ELSE ex' = [ex EXCEPT !.pc = "invoke", !.at = @ + 1,
                           !.todo = <<Packet(ex.seats[ex.at + 1], Frozen)>>]
  /\ UNCHANGED <<councilVars, bundleVars>>

Vote ==
  /\ Ready("vote")
  /\ \/ CastVote(ex.request, Sent, Kernel.candidate, ex.vote) /\ Goes("next", <<>>)
     \/ /\ Seat \notin SeatIds(Kernel.config) \ DOMAIN Kernel.votes
        /\ Captures("KERNEL_EVENT") /\ UNCHANGED councilVars
  /\ UNCHANGED bundleVars

Count ==
  /\ Ready("count")
  /\ \/ Finalize(ex.request) /\ Goes("counted", <<>>)
     \/ Kernel.votes = <<>> /\ Captures("KERNEL_EVENT") /\ UNCHANGED councilVars
  /\ UNCHANGED bundleVars

(* The postcondition: a seat that proposed and voted was one executable.   *)
Counts ==
  /\ Ready("counted")
  /\ \/ Goes("prove", <<Entry("record", None, Kernel.record)>>)
     \/ ProposerSeat \in DOMAIN Kernel.votes /\ Captures("RUN_POSTCONDITION")
  /\ UNCHANGED <<councilVars, bundleVars>>

(* The proof is made from the source files of this exercise's entries.     *)
Mine == {e \in Entries : e.try = ex.try /\ e.kind # "note"}
DurableVotes ==
  {[request |-> ex.request.id, epoch |-> ex.request.epoch, candidate |-> Kernel.candidate,
    seat |-> e.seat, value |-> e.data] : e \in {f \in Mine : f.kind = "assessment"}}
Read == {e \in Mine : e.kind \in {"request", "config", "record", "assessment"}}
DurableProof == BuildProof(ex.request, Kernel.config, DurableVotes, Kernel.record)

Prove ==
  /\ Ready("prove")
  /\ IF Sound(Read) /\ DurableVotes = VotesOf(ex.request, Kernel) /\ Eligible(DurableProof, Kernel.record)
     THEN Goes("proved", <<Entry("proof", None, DurableProof)>>)
     ELSE Throws
  /\ UNCHANGED <<councilVars, bundleVars>>

Concludes ==
  /\ Ready("proved")
  /\ IF ex.final THEN Open("exercise", TheRun, TheTask, {}, TRUE) /\ Goes("finalizing", <<>>)
     ELSE Goes("done", <<>>) /\ UNCHANGED <<files, call, reader, reports, acked>>
  /\ UNCHANGED <<councilVars, spoiled>>

(* Seeded fault: the answer of the finalizing call is not looked at.        *)
ConcludedHopefully ==
  /\ ex.pc = "finalizing" /\ call.by = "exercise" /\ call.pc \in {"ok", "blocked"}
  /\ Goes("done", <<>>) /\ call' = NoCall
  /\ UNCHANGED <<councilVars, files, spoiled, reader, reports, acked>>

Concluded ==
  /\ ex.pc = "finalizing" /\ call.by = "exercise" /\ call.pc \in {"ok", "blocked"}
  /\ IF call.pc = "ok" THEN Goes("done", <<>>) ELSE Throws
  /\ call' = NoCall
  /\ UNCHANGED <<councilVars, files, spoiled, reader, reports, acked>>

(* The process is gone, by itself or before its time, and its session and  *)
(* a call of the compiler with it.                                         *)
Gone ==
  /\ sessions' = [r \in Request |-> None]
  /\ ex' = Out(ex.try + 1)
  /\ UNCHANGED <<context, files, spoiled, reader, reports, acked>>
Exits == ex.pc \in {"thrown", "done"} /\ ex.todo = <<>> /\ Gone /\ UNCHANGED call
Crash ==
  /\ ex.pc \notin {"idle", "done"} /\ Gone
  /\ call' = IF call.by = "exercise" THEN NoCall ELSE call

Exercise ==
  \/ DurableAppend \/ Appended
  \/ \E r \in Request, k \in Config, s \in Seating, g, f \in BOOLEAN : Starts(r, k, s, g, f)
  \/ Invoke \/ Answer \/ (\E c \in Content : Propose(c)) \/ NextSeat \/ Vote \/ Count \/ Counts
  \/ Prove \/ Concludes \/ Concluded \/ Exits \/ Crash

-----------------------------------------------------------------------------
(* The operator with the command line, and the others.                     *)

NoteEntry(n) == [id |-> <<"note", n, 0, None>>, kind |-> "note", seat |-> None, try |-> 0, data |-> n]

Operator ==
  \/ \E run \in Run, t \in TaskRecord, n \in SUBSET Note, final \in BOOLEAN :
       /\ Open("operator", run, t, {NoteEntry(m) : m \in n}, final)
       /\ UNCHANGED <<councilVars, ex, spoiled>>
  \/ /\ call.by = "operator"            \* it returns, or is gone
     /\ call' = NoCall
     /\ UNCHANGED <<councilVars, ex, files, spoiled, reader, reports, acked>>

Spoils == \E e \in Entries : Spoil(e.id)

ShadowInit == CouncilInit /\ BundleInit /\ ex = Out(1)

ShadowNext ==
  \/ Exercise \/ Operator
  \/ (Bundle \/ ReadManifest \/ RenderReport \/ Spoils) /\ UNCHANGED <<councilVars, ex>>

ShadowSpec == ShadowInit /\ [][ShadowNext]_exerciseVars

-----------------------------------------------------------------------------
(* Properties.                                                             *)

Has(E, try, kind, seat) == \E e \in E : e.try = try /\ e.kind = kind /\ e.seat = seat

Configs(E, try) == {e \in E : e.kind = "config" /\ e.try = try}

Documented(E, d) ==
  /\ \A e \in E : e.kind \notin {"note", "request"} =>
       \E c \in Configs(E, e.try) : c.data = d.data.epoch => e.try = d.try
  /\ \E c \in Configs(E, d.try) : c.data = d.data.epoch
  /\ Has(E, d.try, "request", None)
  /\ \A kind \in {"packet", "attestation"} : Has(E, d.try, kind, d.data.proposer)
  /\ \A s \in DOMAIN d.data.votes :
       LET cast == {e.data : e \in {f \in E : /\ f.kind = "assessment"
                                              /\ f.try = d.try /\ f.seat = s}}
       IN /\ cast = {d.data.votes[s]} \ {"MISSING"}
          /\ cast # {} => Has(E, d.try, "packet", s) /\ Has(E, d.try, "attestation", s)

(* Beside a decision in a bundle is everything it rests on, from the same  *)
(* exercise: the request, the configuration of its council epoch, the      *)
(* packet and attestation of its proposer, and the packet, attestation and *)
(* assessment behind each vote that was counted.  Of another exercise of   *)
(* the same council epoch nothing is there but, at most, its request.      *)
DecisionsAreDocumented ==
  Whole => \A d \in Entries : d.kind = "record" => Documented(Entries, d)

(* An exercise that returns leaves a decision that a verifier of its proof *)
(* accepts, and one that was to finalize the bundle has.                   *)
ReturnsMeanProved ==
  ex.pc = "done" =>
    /\ \E p, d \in Entries :
         p.kind = "proof" /\ d.kind = "record" /\ p.try = ex.try /\ Eligible(p.data, d.data)
    /\ ex.final => Finalized
=============================================================================
