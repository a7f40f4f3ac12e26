# A TLA+ verification of CMD Riker

CMD Riker is a host process in which a Lead Agent (a model) works for its Owner:
it takes on Commitments, delegates Workers to Native Harnesses (Claude, Codex,
Copilot), runs Tasks in the Target Project and mutates a Forge (GitHub).
Everything it promises is a row of an SQLite store, and most of what can go
wrong lies between a row and the world: a process started and not yet recorded,
a result recorded and not yet told, a host that died in between, a version that
was replaced while it still wrote.

This directory holds TLA+ modules translated from the source under `src/src/`,
TLC configurations that check them on small instances, and theorems about them
checked by TLAPS. `PROJECT.json` lists the runs, the lines each definition
stands for, the hazards, the findings and the theorems.

## The system

| Component | State it keeps | Operations | Hard behaviour |
|---|---|---|---|
| Orchestration Core (`orchestration-core`) | none of its own: rules over the rows of Commitments, Workers, questions, reviews, effects | record, resume, cancel, verdict, observe results, delegate, review, adjudicate, observe Workers, recover | rules that read one row and write another; recovery that must agree with what was interrupted |
| Authoritative State (`authoritative-state`, `write-generation.ts`) | facts (append-only snapshots), transitions, messages, sessions in SQLite; a recovery marker, evidence and backups beside it | start/claim/settle an effect, append snapshots, claim/settle continuations, open safely, back up, restore, reconcile, complete, begin anew | one transaction per write, none around two; the conflict check by scope; a recovery that stops halfway |
| Target Project Operations | the continuation of `execute()` | discover, record intent, claim, run Task, settle | awaits between the check of a Commitment and the dispatch; a deadline on a process that lives on |
| Forge Operations | the continuation of `execute()`; owner-action notices | discover, preflight, record intent, claim, dispatch, read back, settle; a later read-back | a mutation whose answer is lost; a read-back that races it; a comment that cannot be read back |
| Worker Supervisor, one per Native Harness | live executions, deadlines, settlement queue | delegate, launch, answer, steer, cancel, settle, recover | callbacks of native processes; queues; several supervisors in one Target Project |
| Execution Checkouts (`checkout-isolation.ts`) | git worktrees on the disk | prepare, reconcile (patch), dispose | idempotence over crashes; the primary checkout is shared |
| Native Harness adapters | the native process and its protocol | start, answer, interrupt, terminate, abandon | errors of the observer are handed to `failed()` |
| Lead Agent Runtime | one turn | read back uncertain effects, run the model and its tools, record the response | a turn that fails halfway |
| Lead Turn Scheduler, Lead Continuation | the queue of Owner inputs and the drain loop; claimed continuations | run Owner turns and continuations, yield, drain; claim, settle, reconcile | an Owner turn that interrupts a continuation; a wake lost over a restart |
| Local Host (`local-host`) | the turn queue, the active turn, what it waits for, the Lead's process | send a turn, interrupt, acknowledge, complete, stop, shut down | lines that name no turn; deadlines; a Lead that hangs or dies |
| Local Installation, Release, State Snapshot (`local-installation`, `local-release`, `state-snapshot`, `lifecycle-cli.ts`) | the lifecycle row, the launcher manifest, snapshots, the restore journal | install, start, stop, upgrade, roll back; run the host and relaunch it | a crash between two file operations; a straggler of an old version |
| Self-Repair Controller | repair records | begin, advance, retry | called by tests only |
| Owner Gateway, Surface, Session View | what is displayed | attach, submit, subscribe | reconnection |

How they interact: the installed launcher runs `lifecycle-cli.ts host`, which
launches the version the lifecycle row names and puts `local-host` between the
Owner's clients and the Lead's standard input and output. The Lead, `cli.ts`,
opens the store, reconciles the interrupted Commitments and continuations, lets
every supervisor recover, and then serves turns. A Lead turn calls Target
Project and Forge Operations one after the other and waits for them; Workers run
beside the turns, and their callbacks settle results, run Verifications and wake
the Lead. Within the Lead the store is the only shared state; the event loop is
the only lock, and an `await` gives it up. Between processes the lifecycle row,
the write generation, the singleton pipe and the recovery marker are shared.

What makes each part correct is stated in the properties of its module, below;
what is hard to test in it is listed under `hazards` of `PROJECT.json`.

## Modules

| Module | What it models |
|---|---|
| `EffectLedger` | external effects: intents, claims, native calls, settlement, the Commitments they answer to, crash and recovery |
| `ScopeReservation` | what is promised of a scope, to the Lead's operations and to Workers: one holder, and only certainty or evidence frees it |
| `EffectLedgerRefinement` | the mapping under which the ledger implements the reservation |
| `WorkerSettlement` | an effectful Worker from its delegation to its linked Verification: managed checkouts, launch, settlement queues, recovery by several supervisors |
| `WorkerSettlementRefinement` | the mapping under which Workers and their Verifications implement the reservation |
| `WorkerContinuity` | a read-only Worker over its generations: launch, lost connections, questions and answers, cancellation, recovery |
| `IndependentReview` | a Commitment that requires a Review: implementation, Verification, reviewers, adjudication, repair, the Owner |
| `LeadTurns` | the scheduler of Lead turns and the durable continuations it runs: wakes, yielding, model fallbacks, close, restart |
| `HostSession` | the local host between the Owner and the Lead: turns, acknowledgements, answers, deadlines, stop and shutdown |
| `Activation` | versions and the state they run on: start, stop, upgrade, rollback, the restore of a snapshot, host runners and their Leads |
| `StateRecovery` | a state that cannot be trusted: safe opening, the marker, restore, baseline, reconciliation, backups |
| `EffectLedger_proof`, `WorkerSettlement_proof`, `WorkerContinuity_proof`, `LeadTurns_proof`, `HostSession_proof`, `Activation_proof`, `IndependentReview_proof`, `StateRecovery_proof` | the theorems about these components |
| `MC*` | the instances TLC checks |

Definitions named "Mutant of ..." are the mistakes the properties are tested
against (`mutants` of `PROJECT.json` pairs them); no action uses them.

The modules share one reading of the code:

* **Rows.** A row of the store is the value of its latest fact. A synchronous
  piece of code between two awaits is one action, and so is one write
  transaction; two transactions with an await or a possible death of the host
  between them are two actions, or one with a variant that dies in between.
* **Memory.** The continuation of an `async` function is a value of `pc`,
  `step`, `startup` or an element of `pending`. When the host dies, all of it is
  lost, and the rows and the world stay.
* **World.** Native processes, worktrees, database files and provider resources
  have variables of their own. Safety properties compare them with what the rows
  say.
* **Errors.** An exception is followed to whoever takes it. Where nobody does
  (`void observer.failed(...)`, an `await` of the startup), the host goes down:
  no handler of unhandled rejections is installed.
* **History.** A variable marked "history" records what has happened for a
  property to speak of, and guards no action.

The modules meet at rows they share and never disagree on: `EffectLedger` has
the Verification of a Worker as an operation with origin `verification` that any
finished Worker asks for, and `WorkerSettlement` has the Worker and sees the
operation as one value; `IndependentReview` has the Commitment of both with the
Review that decides whether a passed Verification accepts it, and its Workers as
their states; `StateRecovery` has the database that `Activation` displaces.

### EffectLedger

`attempt`, `effect` and `disposition` are the rows of
`TargetProjectOperationAttempt` and `EffectIntent` of one request; `commitment`
has the state, the condition and who accepted it on what evidence; `linked` are
the Verifications whose result has been linked to their Worker. `pc` is the
continuation of `execute()`; `call` and `touched` are the native process and
whether it has had its effect.

| Code | Actions |
|---|---|
| `execute()`: discovery, its refusals and exceptions | `Discover`, `RefuseDiscovery` (a Task), `Throw` |
| preflight of a Forge mutation | `FailPreflight` |
| `startTargetProjectOperation` with `assertNoConflictingOpenEffect` | `RecordIntent` |
| `claimTargetProjectOperationDispatch`, the spawn | `Claim`, `Dispatch` |
| the process, or `gh` | `TakeEffect`, `EndCall` (environment) |
| its answer, the deadline, the read-back of a mutation that can be read back, `settleTargetProjectOperation` | `Settle` |
| `observeTargetProjectOperationResult`, `recordForgeOperationVerification` | `Observe` |
| `settleWorkerVerification` | `Link` |
| `reconcileEffect`; `reconcileUncertainForgeEffects` and `reconcileForgeEffect` | `ReconcileEffect`; `ReadBack`, `SettleReadBack` |
| resume, cancel, the Owner's verdict, a failed turn | `ResumeCommitment`, `CancelCommitment`, `RecordOwnerVerdict`, `FailLeadTurn` |
| `reconcileInterruptedCommitments` | `RecoverAttempt`, `RecoverCommitment`, `RecoverThrows`, `ConditionInterrupted` |

A Lead turn runs its tools one after the other (`LeadFree`); the Verifications
of Workers run beside it. Each request is made once. The content of a result
(exit code, log, artifact digests) is the choice of its status.

### WorkerSettlement

A Worker's row (`work`), its attempt, its effect, the phase of its managed
checkout and the operation that verifies it are one function each. `step` is
the await its launch or its settlement is at, `queue` the `settlementQueues` of
one supervisor, `turn` and `todo` the place of `recover()` in the startup.
`patched`, `worktree`, `launched` and `started` are the disk, the native turns
and the Tasks.

| Code | Actions |
|---|---|
| `delegateEffectfulWorker` | `Delegate` |
| `startExecution`: preparation | `Start`, `Prepare`, `Prepared`, `PreparationFails` |
| `startExecution`: launch, `claimWorkerEffectDispatch`, its catch | `ProcessStarted`, `Launched`, `LaunchFails` |
| `disposeRejectedExecutionCheckout` | `RejectedDisposed`, `RejectedStays`, `ResumeDisposal` |
| `completed()`, `failed()`, `requestWorkerCancellation` | `Finish`, `LoseContact`, `CancelWorker` |
| `performWorkerSettlement`: an action for each await | `Begin` to `Report`, `CheckoutFails`, `TaskThrows` |
| the Owner's turns | `CancelCommitment`, `HoldCommitment`, `ResumeCommitment` |
| startup: `reconcileInterruptedCommitments`, then `recover()` of each supervisor | `RecoverTask`, `RecoverCommitments`, `ResumeLaunch`, `RecoverWorker`, `ResumeSettlement`, `NextSupervisor` |

What git says of a patch, and whether a failure is a material conflict, is a
choice. `CancelWorker` stands for the Owner's cancellation and for a deadline's.
The writes of one synchronous stretch are one action, so that a crash between
the rejection of an effect and the claim of its disposal is not modelled. A
Worker relaunched during recovery goes on when the host serves.

### WorkerContinuity

`work`, `gen`, `attempt`, `recorded`, `question` and `carried` are the rows;
`startup`, `origin` and `retained` are one `startExecution` (its place, its
caller, its `retainedAnswers`); `execution` is the entry of the `executions`
map, `live`, `reported` and `terminating` are the adapter's connections,
`pending` the handlers that wait for a termination, an interruption or a
delivery. `process` and `survived` are the world. `Ended` is `terminate()` and
`abandon()`: the process is gone, or that could not be proven in ten seconds.
`CompletedEnds`, `FailedEnds` and `CutEnds` are the parts of `completed()`,
`failed()` and the catch of `cancel()` after that await, with the rows as they
are by then; `Visit` and `VisitEnds` are the two halves of one round of
`recover()`. The host may come back with any set of supervisors
(`availableWorkerSupervisors` drops a harness whose capability it cannot
prove), so a Worker may be recovered by its own harness, visited by another, or
only marked by `reconcileInterruptedWorkers`.

### IndependentReview

`commitment` has the state, the condition, the Review's status with the reviewer
and the implementation it is bound to, the Verification and who accepted it;
`finding` has what a reviewer said and what the Lead decided. Each operation of
the core is one synchronous call: `delegateEffectfulWorker`,
`buildTargetProjectOperationVerification` (`VerifyWorker`, and `ExecuteOperation`
for an operation of no Worker), `delegateReviewWorker`, `settleIndependentReview`
(inside `ReviewerReports`), `adjudicateReview`, resume, cancel and the Owner's
verdict. `DelegateReview` and `ReviewerReports` write two transactions, and each
has a variant in which the host dies after the first. Findings are durable from
the settlement on; a report that is not attributed to the pending Review throws
after its Worker was settled and is lost. The duration of a Worker's work is the
time until its end; its launch and its checkout are in the modules above.

### LeadTurns

`queue`, `draining`, `wake`, `closed`, `top` and `exiting` are the scheduler's
variables and how many drain loops are at their head or between their exit and
their `finally`; `step`, `tries` and `aborted` are the run of a turn;
`row`, `receipt`, `attempt` and `response` are durable. `Submit`, `Interrupt`
and `Close` are the scheduler's operations, `Loop` its drain loop, `Work` the
steps of `completeOwnerTurn` and `completeContinuation` (one for each durable
write or await), `Observe` the row a supervisor writes, followed by a wake or
not, `Recovery` the startup. What makes a row eligible for a continuation is
abstracted to `waiting`; the conversation and the tools are data.
`OwnerGoesNext` has two halves: `OwnerFirst`, an action property (while an input
waits, no observation is claimed and no continuation asks a model; it needs both
the look at the queue before an observation is selected and the abort of the
continuation at work), and that the waiting input gets its turn.

### HostSession

`host` holds the variables of `hostLocalLead`: the promise chain
`semanticTurnQueue` as `queue`, `activeSemanticTurn` with its response and
error, the await its turn is at (`phase`), `durableOwnerAcks` as `acked`, the
stop and shutdown operations and the exit. An event of the host is a timer, a
write that ends, a chunk of lines, the close of the Lead or a request of a
client. The lines of a chunk are read one after the other (`ReadLine`, until
`EndChunk`), and no other event of the host falls in between (`reading`): the
handler of `data` has no `await`. `Becomes` runs the continuations that follow
one event (acknowledged, completed, drained, next turn) in the order of the
promises; those of a chunk run at its end. `stdin` and `stdout` are the pipes,
`lead` the scriptable conversation of `cli.ts`, which may record a turn, answer
it, fail it, drop a blank line, obey an interruption, hang or exit. The standard
input of the Lead has no listener for errors, so that a write that fails takes
the host down (exit `crash`): one to a Lead whose death has not been seen yet
(`InputFails`), and the line of an interruption after `stdin.end()` (in
`SendTurn`). The transcript, the state line and attached clients are not modelled.

### Activation

A version stands for one activation of a release, not for its bundle: invocation
`p` stages version `p + 1`, whichever bundle that is. The code compares no
releases (`stageLocalRelease`, `upgrade`), so that an upgrade may go to an older
bundle or to the active one, and in the model it may: versions are ordered by
their activation only, and the properties speak of that order. `row` is the
lifecycle row, `launcher` the version of the manifest, `db` the database with its
write generation and the versions that have written to it, `highWater` the journal of generations, `evidence` and `restore` what a restore
keeps. A process is one invocation of the lifecycle command: it claims the
operation (`Claim`, `withOperation`), goes from one durable write to the next
(`pc`), and may throw or die at each. A claim whose process is dead is released
by the next operation; `processMatches` asks powershell for that, and a query
that fails, at the claim or at the look, makes a live process a dead one.
`Misjudge` is the operation that then takes the claim of a process at work
(history `misjudged`, one of the `MaxFaults` failures), and the four properties
are stated up to the first of these. A runner is `host()` of `lifecycle-cli.ts`:
it reads the row, verifies the release, reads the generation, launches a Lead and
goes round when the Lead exits, at most `Launches` times. A Lead writes under
the generation it was launched with, and lives on for a while when its runner
dies (`OrphanExits`). The catch of `restoreAuthoritativeStateSnapshot` is
`RestoreFails` to `Abort`, each removal and rename an action; Windows renames no
file that a Lead has open. Installing and uninstalling are not modelled.

### StateRecovery

`db` is the database with the generation and facts in it, and which of the facts
are in its log (`-wal`) and not yet in its main file; SQLite may move the log with
any commit and does or does not with the last close (`Logs`, `Leaves`). `marker` the
recovery status file, `backup` the copies with their rows and manifests,
`evidence` what was preserved, `writer` the processes that open the state,
`recovery` the one recovery command that runs. `OpenFails` is
`openAuthoritativeStateSafely` with `preserveDamagedState`; `RestoreBegins` to
`Record` are `restoreAuthoritativeStateBackup` and `BaselineBegins` the new
baseline, with an action for each change of the files. What is displaced is copied in two
of them, first the main file (`Preserve`), then the log (`PreserveLog`), and
other processes may write, commit and close between the two; the index (`-shm`)
holds no facts. `PreserveDamaged`, the same copies by a failed open, is one
action that has the log moved in between or not. `Reconcile` and
`Complete` are the commands of those names; `Advance` is
`advanceWriteGeneration`, which does not look at the marker. A command may fail
or die after every action (`Abandon`).

Two things are one step here. `openAuthoritativeStateSafely` looks for the marker
and opens the database in one synchronous piece of code (`Open`); another process
that writes the marker exactly between the two calls is left out, as is a failed
open that is still copying when a recovery command has begun. A process that has
the state open and goes on writing under a marker, which is what such a race
leads to, is in the model. `tests/authoritative-state.test.ts:69-141` tests the
backup, the transfer of the write generation and the high-water mark; no test
restores a backup, reconciles an effect or begins a baseline.

## What the runs check

| Run | Instance and bounds | What it shows |
|---|---|---|
| `ledger_tasks` | a Lead Task and a Worker's Verification, one root, one Commitment, two deaths of the host | a rejected effect never ran, Tasks do not overlap in a root, every recorded intent is settled |
| `ledger_forge` | three mutations of one issue (one without a read-back) for two Commitments, one death | the Lead's acceptances rest on effects that are there, uncertainty holds its Commitment, and the ledger implements `ScopeReservation` |
| `settlement` | a managed Worker and one in place, each of either harness, one Commitment, two supervisors, two deaths | a result is kept until it is in the Target Project and accepted on its own evidence; nothing is launched, dispatched or verified twice; the root is exclusive; queues drain |
| `settlement_startup` | one Worker in place, one supervisor, one death | violated: a startup fails for ever |
| `turns` | one Owner input, two observations, two model candidates, one death or close | one turn at a time, nothing begins before a waiting Owner input and it gets its turn, each claim settled truthfully, no wake lost |
| `continuity` | two generations, one question each, any supervisors after one death | one process, no lost answer, no startup that fails for ever |
| `activation` | four invocations (three once a claim was misjudged), two runners of two launches, one death, one failing file operation or process query | until a live claim is released: operations are serial, old writers are fenced, a displaced database is journaled, and no version meets the state of one activated later while Leads are launched on the row that was read |
| `activation_fence` | three invocations, two runners, no death | violated: without that condition |
| `session` | two turns of one project, one refused stop | acknowledgements and answers are the turn's own until a deadline passes; turns are settled; a stop or shutdown ends the host |
| `review` | three implementers, two reviewers, two findings, one death | the Lead accepts on a passed Verification, a passed Review, no undecided finding and a repair of every upheld one |
| `review_verdict` | two implementers, two reviewers, no death | violated: a late Review reopens what the Owner has accepted |
| `recovery` | two processes, one backup, three databases, one transfer, two damages, failures or deaths | mutations wait for reconciliation, generations are not reused, no fact is discarded but what moves between the two copies or is written after them, backups are exact |

Deadlock is not checked: a system without work, or past its bounds, may stop.

**Bounds.** Deaths are bounded (`MaxCrashes`, `MaxLives`, `MaxFaults`): what a
second one adds to the first is a death during recovery, and the runs whose
recovery spans the rows of two components allow two. Two operations of one scope
are enough for a conflict, three for a queue behind a holder that is read back
late. Two Workers are enough for a race between settlements, for two supervisors
in one root and for a queue with a failing head. The code allows three
generations; the run uses two, one that is replaced and one that exhausts the
limit, which are the two branches of `recoverWorker`, and a third repeats the
first. One question for each generation suffices for an answer that is carried
from the generation before. Two observations and an Owner input are the least
that lets one wait while one runs and one is submitted. Two turns are enough for
one that interrupts another, waits behind it and could take its lines. Four
invocations hold an upgrade, a rollback, and a start before or after each of
them, with a process that died among them; two runners are a straggler beside a
current one, two launches one that may go round and one that may not. A constraint of
`MCActivation` (`Bounded`) stops at three invocations once a claim was misjudged:
from there on every invariant but `TypeOK` holds by its premise. Three
implementers are the first implementation, a repair and a repair of what the
re-review finds; two reviewers and two findings are one of each for both rounds.
Three databases are a restore that is abandoned, the one that repeats it and a
baseline after it. The theorems drop the bounds for their components.

**Fairness.** All of it is weak, and none of it is about the Owner, the Lead's
choices, the success of anything, or a death of the host.

* `EffectLedger`, `WorkerSettlement`: a synchronous continuation runs to its next
  await; a native call ends, or its deadline answers for it; a preparation and a
  launch end (git has a time-out of ten seconds, a native start of thirty); the
  startup goes through its steps; the launcher starts a host that is down.
* `LeadTurns`: the loop goes on, and a continuation ends by its deadline of five
  minutes. An Owner turn has no deadline, so that `WakeIsHonoured` has the
  premise that the Owner is idle again and again.
* `WorkerContinuity`: a native start ends within its time-outs, a termination
  within ten seconds, the startup goes on. Nothing is assumed of turns,
  interruptions, deliveries or questions.
* `HostSession`: the event loop of the host goes on and its timers go off
  (`WF_vars(HostStep)`, one condition for all of them). Nothing is assumed of
  the Lead, which may hang. One thing is assumed that the code does not give: a
  write to a hung Lead ends. The code has no deadline for it (see below), and it
  ends only as long as the pipe has room for a line.
* `Activation`, `IndependentReview` and `StateRecovery` state safety only: their
  steps wait for people.

## What is proved

The theorems hold for every value of the constants that the named assumptions
of the modules allow: any sets of operations, Workers, findings, processes and
scopes, and any number of deaths and failures. Each rests on an inductive
invariant, of which the property alone is not one.

**`EffectLedger_proof`**

    IInv == TypeOK /\ StepsAgree /\ ResultsAgree /\ RejectedNeverRan
                   /\ OneOpenEffectPerScope

`OneOpenEffectPerScope` is not inductive alone: a settlement may write
`unknown`, which is open, and only `StepsAgree` says that the continuation that
settles is that of an effect that was open already. Neither is
`RejectedNeverRan`: only `StepsAgree` says that the continuation that starts a
process is that of an effect that has left `pending`. `ResultsAgree` ties a
certain row to the world, which acceptances need. `ResultsStay` follows from
`StepsAgree` too: whoever writes the rows of an operation, a late answer, a
read-back or the recovery, finds them open.

`UncertainHoldsCommitment` rests on a second invariant, `Uncertain`: the Forge
mutations of a Commitment are taken up one after the other, so that at most one
is under way or uncertain (`Undone`), and the read-back of one never frees a
Commitment that another still holds. `UndoneStep` says that only a discovery
gives a mutation anything to do, and `DiscoverAlone` that a discovery finds
nothing undone. It needs `CriteriaAssumption`, that a Commitment to Forge
mutations has no other criteria, which `validateCommitmentDraft` enforces
(`orchestration-core/index.ts:3165`): with a Task beside a mutation, the
read-back of the mutation would free the Commitment over the uncertain Task.

**`WorkerSettlement_proof`**

    IInv == TypeOK /\ (\A w \in Worker : OfWorker(w))
                   /\ RootIsExclusive /\ AcceptedOnTheResult

`OfWorker` says of one Worker what the rows, the worktree and the await it is at
say of each other (`Intent`, `Checkout`, `LaunchStep`, `SettleStep`). A step of
one Worker leaves the others as they are, so that its proof is about that Worker
alone; of two Workers only `RootIsExclusive` speaks, and only `Delegate` and
`StartTask` take the root. The assumption on the supervisors is that there is
one for each harness, and at least one.

    HInv == Quiet /\ InTurn /\ OnePlace /\ Testing

is about the queues: what settles is in one queue, once, and behind the head of
a queue a Worker only waits; nothing is under way before the first supervisor
recovers. With it, `InTheirTurn` and `SettledStands` hold, and `Tested` (only a
result is verified) joins it for `Refinement`. There each Worker stands for two
operations, its own effect and its Verification; the scope of the first is its
managed checkout or the root, that of the second the root. A step of the Workers
maps to a step of one operation or to a stutter, and `RootIsExclusive`, with
`LaunchStep` for a managed checkout, says that a scope has one holder. Two
abstract steps are there for the Workers: a Verification is one action of
`WorkerSettlement` from its intent to its dispatch (`Take`), and a launch that
dies or fails after its claim is in doubt without ever being seen dispatched
(`Lose`).

**`WorkerContinuity_proof`**

    IInv == TypeOK /\ Shape /\ HostStates /\ OwnRecovers /\ Predecessors /\ Carrying

`Predecessors` is `RunsAlone` of every generation before the current one,
whether there is a current process or not. `Carrying` says that the start in
flight holds every answer that was given. `OwnRecovers` is needed because a
supervisor reads the Worker, awaits, and uses what it has read: until the
Worker's own supervisor has recovered, nothing of it moves, so that what was
read is of the current generation. That needs one supervisor for each harness
(`ContinuityAssumption`), as the startup creates them. `MovesOn` adds
`Beginning`: what is launched is the first process of its generation and was
told of answers only. There is no theorem that the end of the current generation
stays, because it need not: `recordWorkerContinuityLoss` does not ask whether the
Worker has ended (see below).

**`LeadTurns_proof`**

    IInv == TypeOK /\ OneLoop /\ ClosedOnce /\ Waiting /\ Answered

`OneLoop` is the invariant of the `draining` flag: one drain loop is at its
head or between its exit and its `finally`, or one turn is busy, or none of
them, and none without the flag. `Waiting` says that a queued input waits once,
and `Answered` ties how far a turn has come to its response, attempt and receipt.

    WInv == Awake /\ Listed /\ Claimed

is for `NeverAsleep` and `ReceiptsAreSingleUse`. `Awake` says that a scheduler
with a queued input or a wake has a loop that will look again, a loop on its way
out included, whose `finally` looks; `Listed` that an input waits exactly while
it is in the queue of a host that takes it, and `Claimed` that a turn at work has
its claim. `NeverAsleep` is the part of `WakeIsHonoured` and `OwnerGoesNext` that
needs no fairness. `OwnerComesFirst` is the half of `OwnerGoesNext` that is about
priority: an input that waits is in the queue (`Listed`), where the loop looks
before it selects an observation, and every continuation that was at work at its
submission is aborted and asks no further model.

**`HostSession_proof`**: two invariants. `TInv /\ SInv` is for the answers. Until
a deadline passes (`~gaveUp`), every token and line on its way, in either pipe,
belongs to the active turn, its `complete` is the last word of it, and a host
that is idle has a Lead that is quiet and an empty standard output. No line names
its turn, so that this is all there is to tell a turn's lines from those of the
next, and the property alone says nothing of the lines under way. `OInv` is for
`NoTurnIsLost` and `SettledOnce`, which hold after a deadline as well: a turn
that was sent is the active one or waits once, and between two chunks no
continuation is left to run.

**`Activation_proof`**: `TInv` (types, and that a process that stands between
two steps holds what the next one reads), `Owned` (a process that works holds
the claim, and so does the row it has copied: each writes that copy back), and
`FInv` (a generation that a Lead or a runner has read is at most the database's,
and equal only in the same era; where each step of a restore has put the
database). `OperationsAreSerial` needs `Owned`, because `Cutover` and its like
overwrite the claim with the copy; the two properties of the files need that
only one process is at work on them, so that they rest on it. None of them holds
once a live claim was released, so that the invariant is `Orderly`, with the
premise `~misjudged`; the types hold without it.
`EarlierVersionsAreSafe` adds `VInv`: the versions of the row are those of
invocations that have begun, and no version comes from an invocation after the
one at work, so that what it stages is activated later than both (`Activated`;
no comparison of releases is assumed); a working process has the pairs of the
row in its copy, and the stop intent stands from `RecordIntent` on, so that a Lead
that is launched in between is launched against the row (`unbidden`). Without
such a Lead, no snapshot of the row holds what a version activated after either
of its two has written, nor does a copy of the database for the version it is
for, no Lead is there
while an installed copy waits for its row, and the one thing a Lead may still
write to has its own generation. `NoUpdateIsLost` needs `Owned` and the same
agreement of the copies: each operation writes the whole row that it has read at
its claim.

**`IndependentReview_proof`**

    RInv == TypeOK /\ VerifiedIsOver /\ RaisedFirst /\ Decided /\ Carried /\ LeadAccepts

`Carried` is what makes `MustFixIsRepaired` inductive: outside
`changes-requested`, the implementation that the Review is bound to has repaired
everything upheld so far, which a new round may only add to. `AcceptanceIsFinal`
follows from it step by step: no guard of a later operation holds in a state
that the Lead has accepted, also that of `settleIndependentReview`, which asks
for the Review only.

**`StateRecovery_proof`**

    IInv == TypeOK /\ Gated /\ Numbered /\ Behind /\ Waiting /\ Saved /\ Copying

`Gated` ties the running command to the marker and the database; `Numbered` and
`Behind` say that the candidate is newer than every database and every
generation any process ever had; `Waiting` carries the inventory from the
command's memory to the marker; `Saved` says that what is about to be removed is
among the evidence, or still in the log while only the main file is copied, but
for what the history `late` excepts, and `Copying` that a database has only grown since a
backup's row. `Unfinished` (a process copies into a backup without a manifest)
is inductive by itself and gives `FinishedStand`.

| Module | Theorem | States |
|---|---|---|
| `EffectLedger_proof` | `TypeCorrect` | `TypeOK` |
| | `ScopeExclusion` | `OneOpenEffectPerScope` |
| | `RejectionIsTrue` | `RejectedNeverRan` |
| | `TasksDoNotOverlap` | `NoOverlappingTasks`: a running Task holds its scope open unless evidence settled it |
| | `RetriesAreNotSilent` | `NoSilentRetry` |
| | `TerminalStays` | `TerminalIsFinal`, of the operations of this module: reviews are not among them, and do change a finished Commitment (`OwnerVerdictStands`) |
| | `AcceptanceIsProven` | `LeadAcceptanceIsProven` |
| | `UncertaintyHolds` | `UncertainHoldsCommitment` |
| | `ResultsStay` | the result of an operation is written once; an uncertain effect once more, on evidence |
| | `Refinement` | `ImplementsReservation`: initial states map to initial states, every step to a step or a stutter |
| `WorkerSettlement_proof` | `TypeCorrect`, `RunsOnce`, `ResultKept`, `RootExclusive`, `Accepted` | `TypeOK`, `NothingRunsTwice`, `ResultIsKept`, `RootIsExclusive`, `AcceptedOnTheResult` |
| | `InTheirTurn` | a Worker that has ended waits once for its settlement, or is at the head of its queue |
| | `SettledStands` | a certain effect, an ended Verification and a finished Commitment are not written again |
| | `Refinement` | `ImplementsReservation` of `WorkerSettlementRefinement` |
| `WorkerContinuity_proof` | `TypeCorrect`, `Alone`, `Told` | `TypeOK`, `RunsAlone`, `AnswersAreCarried` |
| | `MovesOn` | no late promise writes a generation that was replaced, nor takes back a delivered answer |
| `LeadTurns_proof` | `TypeCorrect`, `OneAtATime`, `Truthful` | `TypeOK`, `OneTurnAtATime`, `ReceiptIsTruthful` |
| | `NeverAsleep` | a queued input or a wake always has a loop or a turn that will look again |
| | `OwnerComesFirst` | `OwnerFirst`, the safety half of `OwnerGoesNext`: nothing begins before a waiting Owner input |
| | `ReceiptsAreSingleUse` | a settled receipt and a completed attempt are never claimed, inferred or settled again |
| `HostSession_proof` | `TypeCorrect`, `AcknowledgementsAreTrue`, `AnswersBelong` | `TypeOK`, `AckIsTruthful`, `AnswersAreOwnInTime` |
| | `NoTurnIsLost` | a turn that was sent is active or in the queue of a host that goes on |
| | `SettledOnce` | what a client was told of its turn is never told otherwise |
| `Activation_proof` | `TypeCorrect`, `Serial`, `Fenced`, `Journaled`, `Ordered` | `TypeOK`, `OperationsAreSerial`, `StaleWritersAreFenced`, `DisplacedStateIsJournaled`, `EarlierVersionsAreSafe` |
| | `NoUpdateIsLost` | no operation writes a stale row back, and a live operation's claim is ended by itself only, until a claim is misjudged |
| `IndependentReview_proof` | `TypeCorrect`, `Reviewed`, `RepairIsCarried` | `TypeOK`, `AcceptedIsReviewed`, `MustFixIsRepaired` |
| | `AcceptanceIsFinal` | nothing changes a Commitment that the Lead has accepted, nor its findings |
| `StateRecovery_proof` | `TypeCorrect`, `Reconciled`, `Fenced`, `Preserving`, `Exact` | `TypeOK`, `MutationsWaitForReconciliation`, `GenerationsAreNotReused`, `NothingIsDiscarded`, `BackupsAreExact` |
| | `FinishedStand` | a finished backup is never written again |

Every safety property that a passing run checks is proved. The rows without a
definition of a run are stated in the proof modules only; before it was proved,
each of them was checked by TLC on the instance of its component's run. Only
model-checked is liveness, which is out of the prover's reach, as is `ENABLED`;
`OwnerComesFirst`, `NeverAsleep`, `InTheirTurn` and `NoTurnIsLost` state the part
of it that is safety.

## Disagreements between the code and what the repository says

Each is a run that is expected to be violated; the quotes are in `findings`.

* `HostServesAgain` (of `WorkerSettlement`): the cancellation of a Worker whose
  effect is already settled makes `recoverWorker` throw at every startup.
* `NoVersionMeetsLaterState`: a host runner reads the lifecycle row, awaits the
  verification of the release, reads the generation and launches, without a look
  at the row in between; an upgrade or rollback that falls into the await leaves
  a Lead of the other version that no generation fences.
* `OwnerVerdictStands`: the settlement of a late Review does not ask for the
  Commitment's state, and reopens one that the Owner has accepted.

Others met while modelling, for which no run is kept. They are steps of the
models or notes to a hazard:

* *Effects.* A read-back that finds no effect releases scope and Commitment,
  and a `gh` orphaned by a dead host may still have it afterwards
  (`orchestration-core/index.ts:1294`). `execute()` reads the Commitment in
  discovery and never again before it dispatches
  (`target-project-operations/index.ts:352`). `reconcileEffect` has no caller,
  and a comment has no read-back, so that an uncertain one holds its issue and
  its Commitment for ever.
* *Workers.* Settlement queues belong to a supervisor, so that two harnesses
  settle into one Target Project at once (`worker-supervisor/index.ts:250`). The
  adapters hand an error of the settlement to `failed()`, which takes it for a
  lost connection (`:545`). `recordWorkerContinuityLoss` reopens a Worker that
  has ended, and recovery starts it again
  (`orchestration-core/index.ts:3520`). The catch of `cancel()` settles whatever
  generation is current (`worker-supervisor/index.ts:820`). The deadline
  callbacks write a terminal and wake nobody (`:618`), and a cancellation by the
  Owner overwrites a deadline's. A never-launched Worker of another harness
  throws out of `recover()` (`:846`). A launch that fails with a process on
  record leaves the worktree of a rejected Worker (`:650`). A preparation that
  is resumed waits for the next start of the host.
* *Review.* A must-fix decision on a finding that its reviewer called a follow-up
  is not in what a repair is asked for (`orchestration-core/index.ts:2941`). A
  second `delegateReview` replaces a reviewer that is running, whose findings are
  thrown away, and a crash between its settlement and the Review loses them. An
  operation executed before any implementer leaves the Commitment `verifying`
  with nobody to review.
* *Activation.* `advanceWriteGeneration` does not ask the high-water mark, so
  that the generation of an undone restore is handed out again (the premise
  `~undone` of `StaleWritersAreFenced`). A journal that cannot be closed after
  the displaced files are gone removes the installed database with nothing to put
  back (phase `dropped`). The evidence directory of a failed rollback makes the
  next one fail. `recoverInterruptedAuthoritativeStateRestore` has no caller.
  `processStartedAt` returns nothing for any failure of powershell
  (`local-installation/index.ts:708`), and records the present time when it fails
  at the claim, so that the claim of a live operation is released as abandoned
  and two operations write over each other's row: serial operations, the fence,
  the journal and the order of versions are all lost by it (the premise
  `~misjudged`). `upgrade` accepts an older bundle, and the same one again, and
  keeps the state: what a newer bundle wrote is then read by an older one, which
  no property here excludes.
* *Recovery.* A locked or newer database is taken for a damaged one
  (`authoritative-state/index.ts:2534`). A process that has the state open goes
  on writing under a marker, and what it writes between the copy of the evidence
  and the removal at `:2586` is lost. So are facts it wrote long before, if SQLite
  moves them from the log to the main file after the main file is copied and
  before the log is (`:2573-2585`, `:2729-2741`): they are in neither copy. Only
  `-wal` before the database, or a copy made through SQLite, would keep them. Both
  are in the history `late`, the exception of `NothingIsDiscarded`. A transfer
  while a restore runs may give the old database the generation of the candidate;
  no process opens the old one under it, which is what `GenerationsAreNotReused`
  is about. An upgrade during a recovery makes
  its completion refuse.
* *Session.* After a deadline the Lead's late lines are the next turn's
  (`local-host/index.ts:320`). A refused stop accepts input again although a
  shutdown is on its way (`:486`). A blank Owner line is never acknowledged, and
  a write that stalls has no deadline. `child.stdin` has no listener for `error`:
  a write to a Lead that has just died (`:911`) crashes the host and does not
  fail the turn, as does the interruption of a turn after `stdin.end()` (`:425`,
  `:495`).

## What is not modelled, and the plan

Left out for good: the protocols of the providers, the text of prompts and
tools, argument parsing, rendering and framing (pure I/O, no rule about state);
the Owner Gateway, Surface and Session View, which display; the encryption of a
snapshot; the schema upgrades of the store; the Self-Repair Controller, which
only tests create.

Left out so far, in order of importance:

1. Deadlines and steering of a Worker, as actions of `WorkerSettlement` and
   `WorkerContinuity` of their own (`CancelWorker` stands for a deadline now).
2. Coordination messages beyond a Review, standing orders and acting authority,
   and how a Commitment's criteria are recorded.
3. Installing and uninstalling, whose crash between the removal of files and the
   row leaves a row without an installation.
4. Owner-action notices of Forge Operations.
5. The explicit interruption and detaching clients of the Local Host.

To prove next: what is said across modules. `WorkerSettlement` implements the
scopes of `EffectLedger` now, but not yet its rows; `IndependentReview` sees a
Worker as its state, and that `WorkerSettlement` keeps what it assumes of an end
is read in the code and not proved.

## Running

    tlc -workers 2 -config EffectLedger_tasks.cfg MCEffectLedger
    tlapm EffectLedger_proof.tla

The longest runs (`activation`, `turns`, `continuity`) take up to three minutes
with two workers, the proofs a few minutes each.
