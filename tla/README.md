# Formal model of mihver

TLA+ modules, model-checking configurations and machine-checked proofs for the
stateful parts of this repository. Paths are relative to the repository root.
`PROJECT.json` lists every run, the source lines each definition models, the
hazards, the seeded faults that show each property can fail, and the theorems.

    cd tla
    tlc -workers 2 -config MCBroker.cfg MCBroker.tla
    tlapm GrantStoreProofs.tla

## 1. The system

mihver lets language-model workers prepare changes to a repository and lets
nothing leave the machine without a decision a human or a council made. It has
a Go daemon, the publication broker, a set of JavaScript tools under
`scripts/dev`, and a hook program that supervises an orchestrating model.

### Publication broker (`tools/publication-broker`)

| Part | State | Operations | Interacts with |
|---|---|---|---|
| Grant store, `internal/grant` | grants by request digest, the store file, pending terminal facts, one phase gate per grant | Create, Revoke; BeginOrResume, AdmitPublicationPhase, MarkPublished, MarkBlocked, MarkBlockedInPhase, RecordRemoteHead; Open | called by every connection; one mutex for the data, one gate per grant held across remote calls |
| Orchestrator, `internal/server/orchestrate.go` | the locals of each request | Orchestrate: begin, import, verify, phase A (branch), phase B (pull request), block | store, git remote, GitHub API, audit log |
| Git remote client, `internal/gitremote` | none; the remote has the branch | RemoteHead, Push with an exact lease | git, a remote other people write to |
| Pull request client, `internal/githubapp` | none; GitHub has the pull requests | find by head, create, update; token minting | GitHub API |
| Audit log, `internal/audit` | the file, `lastHash`, a mutex | Open, Append, Verify, ReadAll | every handler appends |
| Listeners, `internal/server/listener.go` | connections | one request per connection, no queue; deadlines of 2 min and 30 s cut the answer off, not the work | starts Orchestrate and the admin calls |
| Import, verifier, protocol, identity, config, git sandbox | scratch directories | pure checks of documents and commits | orchestrator |

What is hard here: requests for one grant run concurrently with each other and
with an admin's revoke; the remote effect and the store write cannot be one
atomic step; either can fail after it happened; answers get lost and clients
retry; other people move the branch and edit the pull request; and the broker
may stop anywhere. What makes it correct: no effect after an acknowledged
revoke; no branch move from a head the human did not authorize; no PUBLISHED
without the commit on the branch; no final answer that a restart or a failed
write takes back; no wait that never ends.

### Development tools (`scripts/dev`)

| Part | State | What is hard | What makes it correct |
|---|---|---|---|
| Decision council, quorum proof | sessions, commitments, votes | the verifier of a proof counts again, with code of its own | a decision needs the quorum of its risk class; kernel and verifier agree |
| Authorization ledger simulator | grants, context, stop epoch, consumption, two kinds of promise locks | calls that suspend at locks and at a hook | a decision is consumed once, under the epoch and context it was bound to |
| Authorization binder, verifier, loop | the loop's iteration and its own list of used ids | several loops over one ledger; a stop between use and execution | nothing is executed twice or without what it needs; a use that executed nothing is reported |
| Run bundle, report | three files written one after the other | crashes and failing writes between them; a reader beside a writer | nothing acknowledged is lost, a report is true, a broken bundle is left alone |
| Shadow council | an exercise of model processes whose evidence goes into a run bundle | every invocation may fail at several stages; a failed exercise is repeated on the same bundle | a decision in a bundle has all it rests on beside it and can be proved from the files |
| Night runner | the queue's plan; the executor's child process, timers and stop file | timeout, stop, escalation, grace period and close race for one result; retries eat a shared budget | every call is answered once, for its first cause, and leaves no process group behind unkilled |
| Publication builder | the git index | one process and many git commands | the index is put back on any failure, or the failure says it was not |
| Project context and consistency | none | | |

### Orchestrator firewall (`tools/orchestrator-firewall`)

The installer copies the engine into a release directory named by its content
and registers it in `settings.json`, which others edit and restore. The host
then starts one process per hook event: pre-tool and post-tool hooks of
concurrent delegations and the stop hook of the main thread. They read, verify
and extend two hash-chained files without a lock, may be cut short, and an
unanswered hook counts as consent. A registered hook must always pass its
loader's check; a receipt must be true of its delegation; a stop may be allowed
only on a workspace a verifier has seen.

How the parts meet: a council's record and proof become an envelope by the
binder, the ledger lets it be used, the loop executes it. The broker's grant is
the human's decision for one publication. Run bundles carry the evidence of
shadow exercises. The stop file `.project/STOP` ends nights.

## 2. Modules

    GrantLifecycle   <-refines-  GrantStore  <-  GrantStoreProofs
                                 GrantStore  <-EXTENDS-  PublicationBroker  <-  MCBroker
                                 GrantStoreProofs, PublicationBroker  <-  BrokerProofs
    AuditLog  <-  MCAuditLog, AuditLogProofs
    OneUseLedger     <-refines-  AuthorizationLedger  <-  AuthorizationLedgerProofs
         |                       AuthorizationLedger  <-  MCAuthorizationLedger
         +--INSTANCE--------------------------v
    DecisionCouncil  <-  CouncilProof  <-  AuthorizationLoop  <-  MCAuthorizationLoop
                                           AuthorizationLoop  <-  LoopProofs
                         CouncilProof  <-  ShadowCouncil  ->  RunBundle
                                           ShadowCouncil  <-  MCShadowCouncil, ShadowProofs
    FirewallInstall, FirewallHooks  <-  Firewall  <-  FirewallProofs
                                        Firewall  <-  MCFirewall
    NightPlanner, NightExecutor  <-  NightRunner  <-  MCNightRunner, NightProofs

### GrantStore

Each method runs under `Store.mu`, and the two that also take a phase gate and
return it (Revoke, MarkBlocked) do nothing else while they hold it, so a method
is one action. The gate AdmitPublicationPhase hands out outlives the call and is
the variable `gate`. `mem` is `byDigest`, `disk` what `Open` would load from the
file, `pending` the set of the same name. A write replaces the whole file, so
one that succeeds makes every pending fact durable, whoever wrote
(`persistLockedAcknowledging`). A write fails or succeeds at the environment's
choice. `Restart` is `Open`: memory from the file, fresh gates, nothing pending.
A reply is the sentinel error's name or, on success, the state shown. `acked` is
a history variable: which terminal states anybody was told of. A `GrantID` is
random and one to one with its digest, so the digest names the grant.

The file is what a restarted process reads. The code renames and does not fsync;
a host that loses renamed data is outside the model.

### PublicationBroker

A request is a process with a program counter; each step is what happens
between two points where the code calls the store, the remote or the API.

| pc | Code |
|---|---|
| idle, checking, rejecting, converging | `Orchestrate` up to the first phase; `blockGrantResult` without a lease |
| admitA, observe, check, push, pushed, pushFailed, record, publishA | `runRemotePublicationPhase`; check to pushFailed are the steps of `gitremote.Push` |
| handover, admitB, find, create, update, publishB | the gap and `runPRFinalizationPhase` |
| block | `blockGrantResult` with the phase's lease |
| return | the deferred release and the answer |

A push may be carried out with a good or a bad answer, be rejected, never
arrive, or arrive later (`late`), also after the broker that sent it has
crashed. The remote compares and swaps (`Swap`), which is what
`--force-with-lease` with an explicit value asks of it. Others may move, delete
or create the branch and open, close or retarget pull requests; a closed one
keeps the base it had (`PrState`). `CheckPr` looks at base and head commit of
the pull request GitHub answers with, and not at whether it is open, as the code
does. `shown` is a history variable: the pull request of GitHub's last answer to
each grant's creation or update, if that answer had the authorized base and
commit. A pull request is opened at the call or not at all, a closed one is not
opened again, and the head of a closed one is taken to be the branch's.
`Target` and
`Predecessor` are what the envelope and the receipt bind; that they differ is
checked by `verifier.VerifyCommit`, which requires the predecessor as the parent.
Failures that change nothing are one answer, "TRANSIENT".
`moves`, `landed`, `opened` and `answered` are history variables.

### AuditLog

`Append` is lock, write, update; a hash is the sequence of what it hashes, so it
is injective. A write is complete, fails, or, when `Tear` says so, leaves a part
of its line or the whole line without its newline.

### AuthorizationLedger

One JavaScript thread runs every call, so a call is overtaken only where it
awaits: in the line of its authorization's `PromiseMutex` (`mutex`), in the
queue of the epoch's readers-writer lock (`queue`, `readers`, `writer`, with
`Drain` for `#drain`), and at the hook in the middle of `checkAndConsume`.
`Submit` and `RequestBump` are the synchronous beginnings of the calls, `Lock`
the passage from the mutex to the epoch lock, `Issue`, `Revoke`, `Derive`,
`Consume` and `Bump` what is done under the locks; giving both back belongs to
the last step of a call. `setCurrentContext` takes no lock. Decision records,
task records and quorum proofs are fixed when the simulation is constructed, so
what `rederiveEnvelope` makes of them is constant: an envelope is its decision
and the epoch it is bound to, and `Human`, `Refused` and `Unproven` say which
decisions need a grant, are blocked, or lack an eligible proof. A grant may be
found expired. `allowed` and `fenced` are history variables.

`OneUseLedger` is what a ledger promises its users, without locks: a decision is
used once, under the epoch in force, and by its human grant where one is
needed. `OneUseSpec` is the refinement: the steps inside a call stutter, the
step under its locks is the abstract one.

### DecisionCouncil, CouncilProof, AuthorizationLoop

A session is a value and an event that is rejected leaves it as it was, so only
accepted events are steps; a hash is what it hashes. `CouncilProof` is the
verifier's independent count (`RecomputeQuorum`), written from
`council-quorum-proof.mjs` and not from the kernel's `quorum`.
`AuthorizationLoop` composes them: `Enveloped` is the binder as an operator on
record, task, context and proof; a loop is a process with the states of
`LOOP_STATES`, overtaken where it awaits, at the ledger and at the stop check.
Its ledger is an instance of `OneUseLedger`, which the detailed ledger
implements, so that two levels of the same component are used where each is
enough. That ledger takes for itself only what it can derive again from the
context in force (`Derivable`), whatever context the loop was given. Reasons of
a denial are not told apart. A count carries the approvals and, where it came to
count them, the families, which the record's verifier compares.

### RunBundle, ShadowCouncil

`Open` is the gate of `writeRunBundle`, `Verify` everything up to the first
write, `Write` one document: created, then filled, since the target is created
exclusively. A crash or a failing write may come between any two, and the
documents then are of different calls. `Absent` and `Torn` stand for a file that
is not there and one that was created and not filled. `ShadowCouncil` runs an
exercise over the council kernel, which it uses as the harness does, and
appends each packet, attestation, assessment and failure through `RunBundle`
before it goes on. An operator may call the compiler between two appends. Calls
of the compiler do not overlap: there is no lock, and
`docs/development/RUN_BUNDLE.md` leaves concurrent changes of the directory out.

### FirewallInstall, FirewallHooks, Firewall

Bytes are versions and a digest is the bytes, so an address *is* the content of
its release, as the code intends with its 12 hex digits. Every file operation
of `install` is a step of its own: staging of each file, backup of the
settings, each rename, the comparison of the settings and the rename after it,
which nothing ties together; an uninstallation saves the settings before it replaces
them (`BackupRemoved`, `RemoveHooks`). A hook reads and verifies a chain, takes a
number, appends its line and writes the anchor in separate steps, because
other processes do the same. Verification and the taking of the number are one
step except where the code reads the file a second time (the stop gate and the
thread binding). A record's hash is its place, so that `prevHash` says what
`seq` says. The clock that stamps completions may stand still. A state of the
workspace is the number of changes before it, and `Content` says what it then
held, which is all a fingerprint tells (`Same`): a change may put back what was
there. `Firewall` adds
the loader: a hook event reaches the dispatcher through a registered release
that verifies, and with no hook registered the host runs a delegation
unrecorded.

### NightPlanner, NightExecutor, NightRunner

`planQueue` is one synchronous function; a step of `NightPlanner` is a task it
passes over or an attempt it charges, so that its limits are seen between
retries. `NightExecutor` is `executeTask`: `exec` is what its callbacks close
over, `group` the processes of the child. `close` comes when the child is gone
and nobody holds its pipes; a *helper* is a descendant in the group, a *stray*
has left the group and holds the pipes, out of reach of every signal. Signals
are delivered when the processes get to it; SIGTERM may be ignored, and the
system may refuse to deliver either, which the executor swallows (`refused`).
After the first poll of the stop file that asks for termination, later ones
change nothing and are left out. The two programs share the stop file only.

## 3. Runs

| Run | Question | Distinct states |
|---|---|---|
| grant_store | any callers, any order, failing writes, restarts, two grants | 17 thousand |
| broker | two requests at once, for one grant with or without a pull request, or for two stacked on one branch | 199 thousand |
| broker_live | every request and revoke is answered, under fairness | 19 thousand |
| audit_log | concurrent appends, failed and torn writes, stops and restarts | 3 thousand |
| authorization_ledger | two calls at once on three authorizations, one bump at a time; refinement of the one-use ledger | 832 thousand |
| authorization_loop | from votes to executed actions: five risk classes, two configurations, two loops | 230 thousand |
| shadow_council | two exercises after one another into one bundle, an operator, crashes, a report | 455 thousand |
| firewall | installations, removals and roll-backs; then two delegations and a stop with one hook cut short, or over a workspace that is changed and put back | 1.2 million, about 140 s |
| night_runner | every queue of three tasks; one execution with all its races, and its answer under fairness | 240 thousand |
| push_race, bump_race, stop_released | three findings, section 6 | stops at the counterexample |

Bounds, and why they are enough:

- Two callers: what happens to a grant is decided between the holder of its gate
  and one other. A third would wait like the second.
- The broker run explores three groups of behaviours (`Together` in `MCBroker`):
  the first grant alone, with revokes and expiry or one foreign change of the
  branch; the second, which has a pull request, alone, with revokes and expiry or
  two foreign changes of branch and pull requests; and one request for each, the
  second stacked on the first, without revokes and foreign changes and up to the
  pull request. A foreign change may follow a revoke that was answered, and none
  is awaited beside one. Grants meet only in the store file, which grant_store
  covers with two, and on a shared branch, which is the third group.
- `Commit` has the predecessor, the target and one foreign commit, the three
  cases of the decision table; `MaxOutside = 2` allows a foreign move and a move
  back, the shortest way to fool a check made at two moments. Two pull request
  numbers are what an ambiguity and a duplicate need.
- broker_live has one grant, one pull request number and no interference, for
  the size of its liveness graph; interference only makes a request end sooner.
- Two calls are what a race for one authorization needs; a decision a policy
  satisfies, one a human must approve and one without a proof are the cases of
  `checkAndConsume`. One bump is in progress at a time, with `MaxEpoch = 1`,
  since two are the finding bump_race makes with `MaxEpoch = 2`.
- `MaxEntries = 5` gives an entry before, at and after any failure.
- The council has three seats in two families, the least at which the rules of
  R2 and R3 differ from a majority, and a second configuration the registry
  does not trust. Sessions are held before the loops run (`CouncilFirst`): they
  share nothing with them but the finished record. Two decisions are followed in
  an unchanged context; the context changes beside loops over one.
- `MaxTry = 2` exercises: the second meets what the first left. In one behaviour
  either a source file is changed, or the operator acts, during the first
  (`NotBoth`).
- The firewall's installer is explored up to two releases on the disk and two
  saved settings, before any hook runs (`Overlap = FALSE`); the hooks then run
  over one installed release or over none, since they read nothing else of the
  installation (`OneOfThem`). Two delegations, an implementer and a verifier,
  one stop, at most two hooks at a time, or one once a hook was cut short, after
  which no delegation names a thread; a chain that two hooks broke and a turn
  that has ended are not followed further (`TurnOpen`): a broken chain refuses
  every append. Of three changes of the workspace every second one puts back
  what was there (`PutBack`): one to be implemented, one that undoes it, so that
  the workspace is the prompt's first again, and one that redoes it, so that a
  verifier's fingerprint of before fits again. What was put back is followed with
  hooks one after another, none cut short, and delegations that succeed and name
  no thread (`OneByOne`). The theorems of section 5 have none of these bounds.
- The night's queues have three tasks, the least with an indirect dependency,
  estimates below and above the timeout, and limits that a retry can exhaust.
  The executor is explored after one of them (`Executed`); it depends on none.

Callers, pull request numbers and, in the store, digests and reasons, threads of
the log, loops and delegations are interchangeable, so safety runs use symmetry;
liveness runs do not. Deadlock is not checked where the system comes to rest:
a log that reached `MaxEntries`, loops, exercises, turns and nights that ended.

**Fairness.** In the broker, `RequestStep(c)` and `AnswerRevoke(d)` are strongly
fair. Each goroutine is scheduled, and every remote call returns, with an error
or without: this is an assumption, since the code sets no deadline on git or
HTTP. A waiter for a gate competes with requests that keep taking it, so it is
only infinitely often enabled; `sync.Mutex` hands over to a waiter that has
waited for a millisecond, which makes the fairness strong. Nothing is assumed of
clients, admins, foreign writers, late pushes or the crash. In the night runner
the launch, the timeout, the close event, the escalation and the grace timer are
weakly fair, which is what the event loop gives a timer that is due; the child,
its helpers and the person with the stop file owe nothing, so that
`EveryCallAnswers` holds for a child that never ends.

## 4. Properties

Store: `StoreTypeOK`, `AckedIsDurable` (what anybody was told is what the file
says, for ever), `PendingIsUnsaved` and `MemoryIsSavedOrPending` (exactly how
memory may run ahead of the file), `HeldGateIsLive`, `TerminalIsFinal`, and the
refinement `LifecycleSpec`.

Broker: `AdmittedPhaseIsLive` (nothing is done for a grant somebody was told is
revoked or finished), `MovesAreAuthorized`, `PublishedIsTrue` (the commit was on
the branch; the pull request is the one GitHub last answered with, and that
answer had the authorized base and commit, whoever closes or retargets it or
moves the branch meanwhile), `AnswersAreTrue`, `OneOpenPrPerGrant`, `RequestsEnd`,
`RevokesEnd`. `DefensiveCodesNeverAnswered` (the branches the comments call
unreachable are) is proved and not run.

Audit log: `ChainVerifiesUpToDamage` (up to the first damaged line the file is
one chain), `LoggedIsReadable`.

Authorization ledger: `ReadersSeeTheEpoch` (what was read before the hook is in
force after it), `ConsumedOnce`, `FencedNeverAllowed` (nothing is consumed under
an epoch a bump has ended), `GrantsMatchLedger`, `GrantsMoveForward`,
`OneUseSpec`.

Council and loop: `RecordsProveThemselves` (kernel and verifier count alike, and
a proof fits one decision only), `ExecutedWasCarried` (what is executed was
carried by those who had to, for the proposal that was committed to, with a
human where one is needed), `UsedWhileCurrent` (a decision is used in the
context it was made in, by a loop that was given that context and the epoch in
force, whatever changed since its evaluation), `ExecutedOnce`,
`UnusedIsReported`.

Bundle and exercise: `AckedIsKept`, `ReportsAreTrue`, `FailsClosed` (a bundle a
crash left in between is never written to again), `DecisionsAreDocumented` (a
decision has everything it rests on beside it, all from its own exercise, and no
other exercise of its epoch got past its request),
`ReturnsMeanProved`.

Firewall: `InstalledIsEnforceable`, `ReceiptsAreTrue`, `RepliesKeepAuthority` (a
reply runs only on a thread a delegation of its own role created),
`AllowedWasEarned` (a stop on a changed workspace needs an implementer and a
verifier that really returned, and holds what it held at the verifier's hook).

Night: `PlanKeepsItsLimits`, `TerminatedGroupIsKilled`,
`OutcomeIsTheFirstCause`, `EveryCallAnswers`.

Each definition marked "Seeded fault" is a plausible bug in the definition
after it; `PROJECT.json` names, for each property, one that breaks it.

## 5. Proofs

`GrantStoreProofs` proves, for every set of digests, callers, reasons, commits
and pull request numbers, the store's type invariant, its four state invariants,
`TerminalIsFinal` and the refinement. The only assumption is `StoreAssumption`:
"nobody", "no reason", "no commit" and "no number" are none of the real ones.

The inductive invariant `IInv` is the conjunction of the type invariant and the
four state invariants; none is inductive alone. That an acknowledged outcome is
durable needs that nothing acknowledged is pending and that memory agrees with
the file; that memory agrees needs to know what may be pending; and since any
grant's successful write flushes all of memory, the step of one grant must be
shown harmless for every other one, which is what `PendingIsUnsaved` says about
the file's side. The steps fall into four kinds (nothing changed, saved, kept
unsaved, repaired), each with one lemma, and each action cites its kind. The
refinement follows from the invariant: a save moves a record along an arrow of
the lifecycle because memory was equal to the file or ahead of it by one arrow.

`BrokerProofs` proves the broker's six safety properties for every set of
requests, grants, commits and branches, from `StoreAssumption` and
`BrokerAssumption` (the constants have their types, and a target differs from
its predecessor, as `VerifyCommit` sees to). A step of the broker is at most one call
of the store, so that `IInv` is kept as the store's own proofs have it and the
store's theorems hold of the broker (`BrokerUsesStore`); the lifecycle follows.
`BrokerInv` adds what a request knows at each of its program counters (`JobOK`:
what a phase has admitted, read and found is still so, since the gate is in its
hands), and for each history variable what it records of the grant. The
difficult step is the push: what the remote does late, after a crash or beside
another request, must still be what some admitted phase asked for, which is why
the invariant speaks of `late` and of records rather than of requests. The run's
constraint `Together` has no counterpart here: the theorems have no bound.

`AuthorizationLedgerProofs` proves all safety properties of the ledger, for every
set of authorizations, submissions, calls and bumps, from `LedgerAssumption`
(calls and bumps are different things, and constants have their types). The
invariant `LInv` adds to them who is in a mutex line and at its head, without
which the step that leaves the line could not be typed, and that no writer holds
the epoch lock beside readers. The latter is a fact about `Drain`, whose longest
run of readers exists because the naturals are well-founded (`LongestLead`).
`FencedNeverAllowed` is proved under the further assumption that there is at
most one bump at a time; without it the code does not have the property.

`LedgerIsOneUse` is the refinement `OneUseSpec`, under the same further
assumption. Each step under the locks is mapped to the abstract one and the
others to stuttering. On the other side, `LoopsUseTheLedger` (in `LoopProofs`)
shows that the loops do to that abstract ledger only what it allows: whatever a
loop does is one use of it or none. The two together are what the composition
of loop and ledger rests on.

`LoopProofs` proves the loop's five properties for every set of requests,
configurations, votes, tasks and loops, from the assumptions of the council
(`CouncilAssumption`, `CandidateAssumption`), of the registry of trusted
configurations (`TrustedAssumption`) and of the loop (`LoopAssumption`), without
the run's order of council before loops. What a session holds follows from its
state, and a session that has a record stays as it is. Two results connect the
kernel with its readers: a quorum that is met is a decision that was carried by
those its risk class demands (`MetIsCarried`, one case for each rule), and the
verifier's count over the artifacts of a proof is the kernel's over the votes of
its session, since the approving artifacts and the approving seats correspond
one to one. `LoopInv` then says of each loop what of this it has already checked
at its state, and of the ledger which loop used a decision up.

`FirewallProofs` proves `InstalledIsEnforceable` for every engine, every number
of versions and whatever the hooks do, from `InstallAssumption` (the value that
stands for a missing file is neither a version nor a manifest). The property is
not inductive: it says nothing of the releases that may be registered next. The
invariant `InstallInv` adds what makes it so. A release with a manifest is
complete, because the manifest is written last; it stays complete, because an
address is the content of its release and every later installation of it
writes the same bytes; and the settings, the backups and what a running
installer has read of the settings name complete releases only, so that a
roll-back or a stale write registers nothing else.

The hooks' three properties have an invariant of their own, `HookInv`, and hold
for every set of delegations and threads and any number of changes, stops,
crashes and hooks at once, from `HooksAssumption` (a delegation is not "stop").
It says of each kind of record that it was made by the one process its
delegation has at that moment, of facts the host does not take back: a thread
that was created, a turn that completed, a workspace that changed. It says
nothing of the chain, so that the theorems also cover the chains that two hooks
broke and the turns that ended, which the run does not follow. `AllowedIsEarned`
needs a last completion among those that count, which exists because the
naturals are well-founded.

`AuditLogProofs` proves both properties of the audit log for any number of
goroutines and of appends, whatever of the torn writes can happen, from
`AuditAssumption` ("nobody" is not a goroutine). `AuditInv` says who holds the
mutex and what the holder knows: between the reading of `lastHash` and its
update the entry in hand carries the hash of the last line and a number above
every number in the file. This holds while the file is `Clean`, and the case
that needs care is the file that is not: bytes without a newline swallow the next
line, which then does not parse, so that no readable entry ever stands behind
damage (`WriteKeeps`, `TornKeeps`). A stop forgets `lastHash`, and Open finds it
again from the last line.

`NightProofs` proves `TerminatedGroupIsKilled` and `OutcomeIsTheFirstCause` for
every queue and every behaviour of the child. `NightInv` says what each phase of
an execution has behind it: nothing ran before the launch, a close event means
that the child is gone, the causes asked for stand in the order in which they
asked, and an answer names the first of them and comes after its group was
killed.

It also proves `PlanKeepsItsLimits`, for queues of any length, from
`QueueAssumption` (limits and estimates are integers, tasks a finite list; the
code admits other JavaScript numbers, which the model does not have). `PlanInv`
says of the tasks looked at so far what the report says of all: how each ended
and why, what its dependencies had ended as, and that the time and the tasks
charged are the sums over the attempts made. The sum is a recursive function
over the list; that it exists, is unique and grows by its last element
(`SumsExist`, `SumsUnique`, `TotalAppend`) is shown with the least number at
which it would not, which exists because the naturals are well-founded. What is
upstream of a task is the least set closed under dependencies, so that a ready
task's upstream lies within the ready ones because those are closed
(`UpstreamWithin`).

`ShadowProofs` proves the five properties of run bundles and exercises for any
run ids, task records, notes, requests, seatings, council epochs and number of
exercises, from the council's three assumptions and none about bundles; the run's
constraint `NotBoth` has no counterpart. There are three invariants.
`BundleInv` says that documents come into being in order, that a writing call
knows the bundle it opened and which documents it has replaced, and that of a
finalized bundle every document fits and only a call that has written it is still
on its way. That a report read in two steps is true, and that a bundle left in
between is never written to, follow from it. `ExerciseInv` says what has been
acknowledged at each place of an exercise (what it rests on), what is still to be
appended there, and that the compiler's call in progress is for the first of it,
or finalizes. Entries that others append only add to this, so that steps of the
bundle need one lemma (`MoreAcked`). `EvidenceInv` is about the file itself,
where entries stand before they are acknowledged, and whose they are: an
exercise's configuration has the same entry id as any other of its epoch, so
that a second exercise is refused there, and no vote is ever added beside the
decision of its own exercise.

The three properties the code violates (section 6) are proved under a hypothesis
that excludes no more than the cause the finding names:

- `OnlyOthersMakeARace`: `PublishedIsNotARace` holds if only a grant's own push,
  while its request waits for it, puts the branch on the grant's commit: nobody
  else does, no push lands late, and no two grants are for one commit. Failed
  calls, crashes and every other interference with the branch remain.
- `BumpsIncreaseAlone`: `BumpsIncrease` holds if at most one bump is in progress
  at a time, for any number of other calls.
- `StopsHoldInTurn`: `StopNeverSelfReleases` holds if the hooks append to one
  file one at a time and none is cut short between its line and its anchor.
  Hooks may overlap otherwise, and be cut short anywhere else.

Left to TLC is liveness (`RequestsEnd`, `RevokesEnd`, `EveryCallAnswers`), which
is outside the prover's reach.

## 6. Findings

1. *A published commit reported as a race* (run push_race). `Push` checks the
   head before pushing and answers `ErrRemoteHeadChanged` for any head but the
   expected one, the target included. If a cut-off push of the same commit lands
   between the observation and this check, the grant is permanently BLOCKED
   although its commit is published. The comment in the failed-push branch calls
   precisely this outcome incorrect.
2. *Concurrent bumps lower the stop epoch* (run bump_race). `bumpStopEpoch`
   compares the new epoch before it waits for the write lock and does not compare
   again, so of two bumps called together the lower may be carried out last,
   where its error message demands a strict increase.
3. *A stop that was to be blocked releases itself* (run stop_released).
   `docs/development/ORCHESTRATOR_FIREWALL.md` says "Stop never self-releases."
   The dispatcher records the block before it answers, and the recording throws
   when the chain does not verify, which it does not while another hook is
   between its record and its anchor; the error is swallowed, and no answer is
   consent.

Two more facts the models show without a run of their own: an audit write that
ends early leaves bytes that the next entry is glued to, and keeps the log from
being opened again when it is the last one (`ChainVerifiesUpToDamage` says up to
where the chain holds); and an edit of `settings.json` between the installer's
comparison and its rename, or anywhere during an uninstallation, is lost.

## 7. Not modelled

- Publication builder: one process that drives git through its own index; a
  model of it would mostly be a model of git.
- Project context, consistency checks, canonical JSON: functions of files, no
  state, nothing beside them.
- Broker socket safety, configuration, git sandbox, protocol, repository
  identity, command lines: parsing and validation before anything runs.
  `mihver-publish` shares one temporary ref between two of its own runs; the
  broker checks the commit it receives, so that the race costs a request.
- Firewall: the ConfigChange hook and the scope, identity and path policies,
  each of which decides from one input and keeps nothing. The installer's
  `--status` and `--dry-run`, which write nothing; hooks that refuse before they
  write; malformed settings, on which the installer stops.
- The store file after a power loss: the code renames without fsync, and a host
  that loses renamed data is outside the model.
- `setCurrentContext` of the ledger may overtake a call that holds its locks;
  the call then answers for the context it read, which the model has as a step
  and no property forbids.
- Two compilers of one run bundle at once.
