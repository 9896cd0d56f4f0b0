# TLA+ models of the annotation pipeline

The annotation pipeline turns coding questions into recorded Claude sessions: it
generates questions, runs each in a Docker container through a real Mac Terminal,
verifies, scores and archives the result, goes on with the same project, and in the end
uploads the records. A self-heal controller repairs and releases the pipeline while it
runs. These modules model the parts of it whose correctness depends on the order in which
several processes act, on what is left after one of them dies, and on what is reused later.

Paths below are relative to the repository. Run `tlc -config <run>.cfg <module>.tla` for a
run (§3), `tlapm <module>Proofs.tla` for the proofs
(§4). `PROJECT.json` lists both, gives for
every definition the lines it stands for, for every property a change of the code that
breaks it, and names the hazards.

## 1. The system

| Component | State it keeps | Operations | Interacts with | Hard behaviour |
|---|---|---|---|---|
| Task store and API (`db/store.ts`, `app/api/**`) | task rows (JSON with a revision), scheduler row, runner row | runner actions (`claim`, `reserve-claude`, `recover`, `finish`, `enqueue-auto`, …), user operations (`PATCH /api/tasks/[id]`), `POST /api/scheduler` | runner and self-heal over HTTP, user | concurrent handlers over one row, late and repeated reports |
| Recovery and continuation rules (`lib/*recovery*.mjs`, `lib/*continuation*.mjs`) | fields of a turn | eligibility of retries, validations, plans | called by the store's handlers and the runner | long sequences of legal steps |
| Project series (`lib/project-series.mjs`, `scripts/failed-project-plan.mjs`, `disputed-project-plan.mjs`) | a project's questions, `<turn>.replan-source`, `.retained` | follow, repair, continue, plan again | store, session, finalization | which code the next question starts from; limits counted from stale rows |
| Runner (`scripts/runner.mjs`, `recovery.mjs`, `runner-api.mjs`) | active jobs, orphans; `<turn>.job.json`, `.result.json`, `.done`, `.delivered`, lock | claim, run, report, replay, recover | store, executor, children | crashes between any two steps, surviving children |
| Observer hand-off (`scripts/observer-handoff.mjs`) | `observer-handoff.json` | hand running turns to a new runner | store, old runner | the turn's stage changes while it is handed off |
| Claude session (`scripts/docker-runtime.mjs`, `mac-terminal.mjs`, `terminal-session.py`) | per task container record with `pending`, `results`; terminal receipts | ensure, execute, capture, close, import | Docker, Terminal, store's quota | a prompt is typed at most once; export before removal |
| Finalization (`scripts/finalization-queue.mjs`, `boundary-finalizer.mjs`) | failures, plans completed | enqueue, re-check, close | session, store | a plan that is stale when it acts |
| Job pipeline (`scripts/job-executor.mjs`) | `<turn>.stages.json`, snapshots, receipts | prepare, policy, snapshot, claude, runtime, score, delivery, next | session, evaluator, store | which cached stage survives which change |
| Evaluator (`scripts/codex-process.mjs`, `codex-stages.mjs`, `lib/score-*.mjs`) | receipts and traces of calls, `score-checkpoints` | call, resume, check, repair a score | every stage | a process that outlives its runner; answers restored by input |
| Runtime verification (`scripts/runtime-*.mjs`) | plan and diagnosis checkpoints, receipts of cases, report | plan, execute, restore, repair, diagnose, report | pipeline, Docker | what was executed on which source, and what may be executed again |
| Supply and admission (`scripts/supply-worker.mjs`, `supply-recovery.mjs`, `provider-health.mjs`, `pilot-gate.mjs`) | draft and its files, circuit breaker | generate, word, audit, enqueue | evaluator, store | lost answers, restarts in the middle, changing need |
| Final submissions (`scripts/final-submissions.mjs`, `submission-package.mjs`, `app/api/export`) | queue files, receipts, packages, markers | queue, build, seal, send, register, export | finalization, store | four files written one after the other; late scores |
| SOLO upload (`scripts/solo-*.mjs`, `lib/upload-batches.mjs`) | packets, ledger, batches, holds, lock | prepare, claim, mark, confirm, hold | browser, platform, user | uncertain outcomes must not be repeated |
| Self-heal (`scripts/self-heal*.mjs`, `lib/self-heal.mjs`) | incidents, jobs, worker | observe, diagnose, retry, recover | store, worker processes | a request of unknown outcome |
| Releases (`scripts/self-heal-release.mjs`, `self-heal-io.mjs`, `job-release.mjs`, `local-api.mjs`) | `deploy.json`, pointer, adoption, API record | freeze, build, merge, switch, hand over, push | git, API, runner | resuming a half-done release |
| Stage budget, admission gates | queues of leases, failure counts | run, release, postpone | all stages | they delay |
| Workbench UI (`app/page.tsx`, `components/**`) | – | shows state, sends user operations | store | – |

What makes each correct, in short: the **store** runs at most one turn of a task and at
most the configured number over all, gives each attempt one job token that ends once, and
lets nothing but the validation of an old question run behind the current one; the
**runner** loses no result and starts nothing over a living child; the **session** types a
prompt at most once and removes no container whose trace is not exported; the **pipeline**
archives a result of one piece and never re-words a question that was sent; a
**verification** reports only what was run on the source it names; a **project** goes on
within its limits, from sound code; **supply** creates each generated project once, and
only into a gap; every scored round gets its own **package**; each record is **uploaded**
once, in order; a **fault** is answered, and no request repeated; a **release** puts only
built and merged code live and gives the runner back.

## 2. Modules

| Module | What it is |
|---|---|
| `TaskQueue` (`MCTaskQueue`) | the store: rows of turns, and every handler that changes a turn's life |
| `Attempts` | what the store promises to jobs: the life of an attempt; `TaskQueue` implements it, `RunnerJournal` builds on it |
| `RunnerJournal` | the runner's process and its files, over `Attempts` |
| `ClaudeSession` (`MCClaudeSession`) | the Claude sessions of one task: prompts, containers, the Terminal bridge |
| `Prompts` | what they promise: the life of a prompt; `ClaudeSession` implements it |
| `Scoring` | the calls a score takes until its checks accept it, and what is kept of them |
| `JobPipeline` (`MCJobPipeline`) | one turn through its stages over repeated attempts, over `Scoring` |
| `RuntimeVerification` (`MCRuntimeVerification`) | one turn's verification over repeated attempts |
| `ProjectSeries` (`MCProjectSeries`) | a project's questions one after the other |
| `FinalSubmission` (`MCFinalSubmission`) | from a scored round to the package its record is exported with |
| `CodexProcess` | an evaluator process that can be resumed, with its receipt |
| `Supply` | automatic supply, over `CodexProcess`, with the store's `enqueue-auto` |
| `SoloUpload` (`MCSoloUpload`) | batches of browser submissions |
| `SelfHeal` | the controller's incidents and jobs |
| `SelfRelease` | the release of a repair, which is one step of `SelfHeal` |
| `TaskQueueProofs`, `RunnerJournalProofs`, `ClaudeSessionProofs`, `JobPipelineProofs`, `SupplyProofs` | the inductive invariant of the module each is named after, and the theorems that follow from it |
| `ProjectProofs`, `SubmissionProofs`, `SelfHealProofs` | the same for two modules each: `ProjectSeries` and `RuntimeVerification`, `FinalSubmission` and `SoloUpload`, `SelfHeal` and `SelfRelease` |

Extension is composition in one state space (`JobPipeline` with `Scoring`, `Supply` with
`CodexProcess`, `RunnerJournal` with `Attempts`). Elsewhere a module stands for its
neighbour by what that one promises: `RunnerJournal` uses the store through `Attempts`,
which `TaskQueue` is shown to implement; `SelfHeal` assumes of a release that it ends,
which `SelfRelease` shows under the fairness given there; `JobPipeline` and `ProjectSeries`
assume of a session what `ClaudeSession` shows of one.

### TaskQueue

State: `turns[t][i]` is the i-th turn of row t with the fields of `Turn` (lib/pipeline.ts)
that decide anything; `len`, `closed`; `config` is the scheduler row. `jobs` remembers
which token was given to which turn, so that any report may arrive at any time.
`pick[h]`, `capacity[h]` and `fresh[h]` are what the claim handler h computed from its
snapshot and which of the rows it read are still at that revision.

One action per handler. All handlers but `claim` read one row and save it under its
revision (`db/store.ts` `save`): the save applies to the row that was read or fails with
no effect, so the pair is one atomic action. `claim` is three: `ClaimRead` takes the
snapshot and chooses, `ClaimCommit` is its conditional UPDATE, `ClaimMiss` the UPDATE
that changed no row. `FinishProject` and `FinishRun` are the two branches of `finish`;
`Recover`, `Reserve`, `HandoffObserver` the other reports; `Enqueue`, `Retry`,
`RetryValidation`, `RetryPlan`, `Assess`, `Exclude`, `Submit`, `Close`, `ResumeProject`
the user's operations; `SaveData` every operation that changes none of this state but
still moves the revision; `SetScheduler` the scheduler's POST.

Abstracted, always to a choice that allows more than the code does: retry times and
budgets (`late` and free choices), question quotas (finish may close the task; the quotas
themselves are in `ProjectSeries`), result checks (any outcome of an execution), the
salvage cache, category and difficulty. Left out: adding tasks (every row starts with its
first question queued, as `enqueue-auto` inserts it), `stoppedCompletionRecovery`, the lock
of a human-review receipt, `planRetry`'s own branch, and `gatewayRecovery.nextTurnId`,
which the model reads off the successor's existence. The stage name a hand-off requires is
approximated by "a call was reserved". The draining list is kept empty while jobs are
accepted, when nothing reads it.

### Attempts and the refinement

`Attempts` keeps four tokens per turn: the attempt that may report, the dead attempt
whose children live, the last one completed, the last one handed off; and says how they
change: `Begin`, `Finish`, `HandOff`, `Recover`. `TaskQueue!ImplementsAttempts` is
`Attempts!Spec` with these tokens read off the turn's fields (`jobToken`,
`recoveryToken`, `completedJobToken`, `observerHandoff.previousJobTokenHash`): every
handler is one such step or leaves them alone.

### RunnerJournal

State: the process (`phase`: down, replaying results, recovering journals, up), its
memory (`jobs`: the `runJob` calls and how far each is; `active`, keyed by task;
`orphans`; `pass`: what the current `recoverOrphans` has still to do), its files per turn
(`journal`, `done`, `receipt`, `delivered`), and the living `children`, which outlive the
process. Actions are the steps of `runJob` and `deliver`, of the startup and of
`recoverOrphans`; `Crash` between any two; and the variants `…Lost` in which the store
acts and its answer is lost. `Report` marks the result file as it is at that moment,
because the digest is taken after the answer (runner.mjs:250). `Settle` is a step of its
own so that a crash may separate the two marker files.

`Retried` are the tasks whose turn is attempted more than once. The files of such a turn
are shared by its attempts, and two of the properties would not hold of it (§5), so the
properties that rest on files are stated of the other turns (`AttemptedOnce`), in an
instance where both kinds run side by side.

Left out: the process lock (one runner is assumed), generation, finalization, upgrade
draining and the hand-off script, a capacity that changes with the machine's load, and
results the store's checks reject.

### ClaudeSession and Prompts

State: `rec` is the task's `container.json` (`pending` with its `sent` phase and the
prompts the trace held before, `results`, `status`, the outcome of the newest copy and
removal among `terminalOperations`, `terminalFinalization`), `archive` the results in the
`container-<question>.json` of earlier questions, `calls` the store's `claudeAttempts`.
`job` is the one call of the runner that works on the task, an attempt (`ensure`,
`execute`) or a finalization (`close`), and where it is: `runner.mjs` keeps the two apart.
`box` is each question's container, `native` the prompts in its trace, `copied` the newest
copy of it, `bridge` the process in the Mac Terminal with the requests at its socket and
its receipts. `typed` is a history variable.

The actions of an attempt follow `ensure` (`Intend`, `Rotate`, `Attach`, `Launch`,
`Await`, `CreationFailed`) and `execute` (`Prepare`, `Resume`, `Reserve…`, `Paste`,
`Enter`, `Observe`); `CaptureStopped` is `captureStoppedTurn`. Those of a close are
`ExitTerminal`, `MarkStopped`, `Export`, `CopyDone`, `Remove`, `RemovalDone`, `Complete`,
with `CloseAgain` for what an earlier close left and `CommandFailed` for a receipt that
says so. The bridge serves one request after the other (`ServeCopy`, `StartRemoval`,
`EndRemoval`, `ServeRemoval`) and may die; the container appears, answers and stops
whenever it likes; `RemovedLate` is a `docker rm` that outlived its timeout. An exception,
a timeout and the runner's death are one action, `Interrupt`, after which a later attempt
or finalization starts from the record.

`Prompts` says what is left when containers, files and the bridge are forgotten: `Send`,
`Record`, `Close`. `ImplementsPrompts` says among other things that a prompt is typed once.

Abstracted or left out: a prompt is one turn's text (`Text` makes turns say the same);
the order in which the store claims turns is `latest`; the several Ctrl-D presses of an
exit are one step; the copy, its inventory and the receipt are one. Containers of the
older Terminal protocol (`parkCompleted`), local commands and the receipt check of a
hand-off are not modelled; the import of an earlier question's work is in `ProjectSeries`.

### Scoring and JobPipeline

`JobPipeline` is `executeJob` for one turn, attempt after attempt: `cache` is its stages
file, `job` the running attempt with `pc` and its copy of the cache (`mem`) that `Persist`
writes, `box` the container record as far as the pipeline reads it. The actions are the
stages in their order: `Begin` (with the guards and the upgrade of the cache),
`CollectAnswer`/`CaptureStopped`/`KeepCaptured`, `EnsureContainer`, `Prepare`,
`RecordDispute`, `PolicyRestored`/`PolicyAccepted`/`PolicyRejected`, `TakeSnapshot`,
`PublishInitialCode`, `Reserve`, `TypePrompt`, `SaveResult`, `KeepClaude`, `Verify`,
`StartScore`/`RateScore`/`Score`/`ScoreUnfounded`/`ScoreRestored`,
`Delivered`/`Deliver`/`RefuseDelivery`/`EndDisputed`, `Archive`, `Plan`; `BeginPlan` is the
retry of the plan alone. `StageFails` and `Crash` may come anywhere. Around it the world
moves: `Upgrade` (a release of the executor, with its rules and contracts), `Extend` (the
regression suite of earlier turns), `Stop` (Claude's process exits).

`Scoring` is `codexStage` for the score: a full rating, then at most one repair of each
kind (`After`), each call kept under its inputs (`AnswersTo`). What the checks find is a
set of `Flaws`; that a patch can only mend what it is asked to is `PatchKeeps`.

Left out: the retry of a project plan, the plan of a disputed question and the
continuation after a gateway failure (they are in `ProjectSeries`), the environment of a
historical validation, scaffold and readiness checks (part of `EnsureContainer`), the text
of prompts. The marks of rules, contracts and release are one number, `release`. The
normalisation of texts and the comparison history of a score are constant, and its
checkpoints are never damaged.

### RuntimeVerification

`planned`, `good`, `stuck`, `checkpoint` and `report` are the files a verification leaves;
`stage`, `frozen`, `plan`, `position`, `runs`, `written` the attempt; `input` is what it is
about, the source and the context of regressions. `Verify`, `KeepPlan` / `RepairPlan` /
`NewPlan`, `Restore` / `Execute`, `File`, `Conclude`, `WriteReport`, `Adopt` are its course,
`Reuse` and `Resume` its short cuts, `Interrupt` and `Leave` its ends. `SourceChanges` is
the owner of the directory, `RegressionChanges` the reports of earlier turns and the choice
of what to repair; both may change back. What is filed under what decides the model: a plan
under source and context, case receipts under source and command (`Key`) and not the
context, feedback under the source. A case that did not complete is filed as stuck, and the
plan it belongs to is not kept without its step being rewritten with the log at hand; but a
plan that is discarded takes this with it (`Saved`, `NewPlan`). `unseen` and `lost` are
histories: the stuck keys whose log nobody who makes plans was shown (`Shown`), and those of
them before which a plan was made from nothing. A diagnosis reads the logs too and does not
count: what it says reaches a plan only as `Feedback`. Left out: the cache of the browser
tool, the environment probe, the instructions' text, a change of the image or the helpers
(which changes every key), of a rule's version (which discards the checkpoints), and which
checks a plan has: every plan has all `Checks`, and a context asks for no further ones.

### ProjectSeries

`turns` are the store's turns with the fields that decide what may follow, `container` the
one container with the code in its workspace, `known` what the store was last told of it,
`kept` the sources a plan keeps, `job` the runner's job, `closing` the finalization of a
session. Code is the set of turns whose changes it holds; a copy that was cut off carries
a mark. `Follow`, `FinishTurn`, `FinishReplan` are `finish` and `projectSeries`;
`EnqueueQuestion`, `EnqueueRepair`, `Retry`, `RetryPlan`, `Exclude`, `SwitchAuto` the
person; `CloseForNext`, `EnsureContainer`, `ImportSource`, `FinishImport`, `Send`,
`CallEnds`, `Evaluate`, `EvaluateDisputed`, `PlanAgain`, `RetainDisputed`, `PlanDisputed`,
`RetainSource`, `CloseFailed`, `PlanSuccessor` the job; `StartClosing`, `EndClosing` the
finalization; `Crash` anywhere. `stage` tells how a draft failed: "draft" before the call,
"late" in its stage, "frozen" when a new wording changed more than the text
(`FrozenPreparation`): such a draft is not succeeded and keeps its container, and a person's
retry prepares it again there. A call that ended leaves its ids and a verified export with its
outcome (`saveNativeResult`), so the guards that ask for them beside the outcome
(lib/project-recovery-server.mjs:51-54) are not written out.

Left out: question types other than 0-1 and Feature, the submitted status, historical
validations, back-off times, digests (assumed to match), an uncertain send and a crash
between a send and its reported result (`ClaudeSession`, `JobPipeline`), a plain retry of a
question that was sent, a project the person closes.

### FinalSubmission

Four parties: the job that evaluates a round or plans after it (`ClaimRound`, `SaveResult`,
`FinishRound`), the finalization that closes the session (`StartClose`, `CheckPlan`, …), the
flush of the queue (`FlushItem`, `PassOver`, `SealPackage`, `SendPackage`, `MarkDelivered`,
`Advance`, `GiveUp`, `QueueRecovered`), and the store (`Receive`, `Cleared`, the export).
The build of a package is cut where the code awaits; a crash loses the process. Left out:
containers of the older protocol, back-off times, more than one question.

### CodexProcess and Supply

`CodexProcess` is one evaluator call per input: its receipt (`status`, whether it has a
thread, whether the digest of its trace is that of the file), the process that `living`
counts, and the runner's call, which may die before it. `Supply` is the loop around it
(`ReadContext`, `Replenish`, `Evaluate`, `Generated`, `Worded`, `AuditAccepts` /
`AuditAsksWording` / `AuditRefuses`, `Enqueue`, `GiveUp`, `RejectUnfit`, `RulesOutdated`)
and the store's handler in three steps (`HandlerAnswers`, `HandlerReads`,
`HandlerInserts`), since the guarded INSERT compares what was read. Left out: back-off
times, the capacity gate and stage leases, the day's turn, the mix of question types; the
versions of rules at runner and API are one number; a graceful stop is a `Crash`; a manual
task is a project like any other; receipts and processes of dropped drafts are forgotten.

### SoloUpload

`runs[w]` is the batch of window w in `schedule.json`, `ledger` is `ui-state.json`,
`packets` the prepared files, `holds` the records the user forbade, `remote` what the
platform received. `Prepare`/`PrepareCut`, `Claim`, `Touch`, `Finish`, `Yield`,
`Reconcile`, `MarkSending`, `Receipt`, `Hold`, `Request`, `ApplyRequest` are the commands;
the uploader that drives the browser (`Click`, `DropPlan`, `LogIn`, `Die`) follows
docs/solo-upload.md and is external. Times are hours apart, so that a login observed
earlier is stale and a lease has run out. The reasons for which a batch waits or ends
badly are one each (`waiting`, `stuck`). Left out: the API channel, attachments, manual
admissions, the published status.

### SelfHeal and SelfRelease

`SelfHeal` is the controller's tick in the order of the code: `Observe` and reconcile, go
on with the active job (`Working`, `WorkerMissing`, `ReleaseGoesOn`, `GuardedRetry`,
`Conclude`, …), else one of `DirectRetry`, `FixedRecovery`, `StartJob`. A request is an
intent saved, the call, its outcome saved; `sent` and `resent` count what reached the
store. Left out: system incidents, attempt and day limits (off by default), priorities
(any candidate is taken), `nextAt`, the reasons of an external block (`Hold`).

`SelfRelease` is `deploy.json` phase by phase with everything it acts on: the main branch,
frozen directories, builds, pointer, API, runner, `runner-adoption.json`. The worker's check
of the head and of the working tree (`RepairReadsHead`, `Repaired`) and the controller's
`git rev-parse`, `git status` and `git merge --ff-only` (`ReadHead`, `CheckClean`, `Merge`) are
a step each: a person edits and commits between them, and git refuses by itself a merge that
does not fast-forward, and one over an edited file (either outcome, when something is
edited). A person adds commits to main and never takes one away. Production is
enabled, no other runner is started by hand, and the observer hand-off is part of the
asked runner's leaving.

## 3. Runs

| Run (module) | Instance | Shows |
|---|---|---|
| `TaskQueueContention` (MCTaskQueue) | 2 tasks of 1 turn, 2 tokens, 2 claim handlers, concurrency 1; open, included turns; symmetry | `RunningBound`, `DrainRespected`: whatever the snapshots of two claims were, the limit and the admission list hold at the commit |
| `TaskQueueHistory` (MCTaskQueue) | 1 task with an old question and a current one, 2 handlers, concurrency 2, fixed scheduler | `OneRunningPerTask`, `OnlyHistoricalBehind`; `ImplementsAttempts`: each handler is a step of the abstract attempts |
| `RunnerFaults` (RunnerJournal) | 2 tasks, one retried, 3 tokens, 2 slots, 3 faults; fair | `ReplayNeverRefused`, `NoResultDropped`, `NoStartOverChildren`; `AttemptsEnd`, `ParkedReleased` |
| `SessionContainers` (MCClaudeSession) | 5 turns in 3 questions, a repair and a continuation that say the same, calls limited to 2 but for the continuation, 2 requests at the socket | `ResultsAttributed`, `RemovedAfterExport`, `ExitLosesNothing`, `ImplementsPrompts` |
| `RuntimeCases` (MCRuntimeVerification) | 2 checks with a setup, 2 versions of the source and of the regression context with 2 changes, 3 executions | `ReportsBacked`: what a report rests on; `NoBlindReplay` |
| `JobResumes` (MCJobPipeline) | 4 attempts, 2 releases, 2 suites, 2 flawed answers | `ResultOfOnePiece`, its `SnapshotIsInitial` included; `DisputedNeverArchived`, `RefusedNotOffered`, `KnownQuestionKept` |
| `ProjectTurns` (MCProjectSeries) | 4 turns, 3 troubles; limits of 1 question of the first category and 2 of the other, 3 calls, 2 plans, 1 retry; fair | `LimitsKept`, `KeptDraftHasContainer`, `StartsFromSoundWork`, `FailureSucceeded` |
| `FinalSubmissions` (MCFinalSubmission) | 2 rounds, 1 requeue and another of a blocked plan, 1 mishap, 2 downloads, one archive the scanner cannot clear; fair | `RegisteredIsSound`, `SealedAsArchived`, `ScoredIsRegistered` |
| `Supplies` (Supply) | 2 candidates, one unfit, 2 repositories, 2 drafts, 3 tasks, 2 rule versions, 1 edit, 1 mishap; fair | `DraftCreatesOnce`, `OneProcess`, `FillsGapOnly`, `CandidateSettles` |
| `SoloBatches` (MCSoloUpload) | 2 rounds of a session, 2 windows with a night between, 1 redelivery, 1 hold, 1 wish per batch | `SubmittedOnce`; `SubmittedAsAllowed`: in order, and not over a hold, which may meet a batch anywhere, a form about to be filled included |
| `SelfHeals` (SelfHeal) | 2 faults of one signature, one retryable, 1 release, 1 change of evidence, 1 mishap; fair | `RequestSentOnce`, `DiagnosedOnce`, `FaultAnswered` |
| `SelfReleases` (SelfRelease) | 2 repairs, at most 2 troubles out of 2 deaths of the controller, 1 of a service, 2 edits by a person; fair | `LiveIsMerged`, `AppliedToItsBase`, `RunnerReturns`, `ReleaseEnds` |

Why the bounds are enough. A claim's race needs two handlers and one slot; a second task
gives each its own candidate, a second turn of one task lets them meet inside it; the
rules speak of a turn, the last turn and "any other". `TaskQueueHistory` starts from
`Init` or from `HistoryInit`, a state `Init` leads to in four attempts, whose tokens are
left out to keep room for the interesting ones. The constraints `OpenAndIncluded` and
`SameConfig` cut what the other run covers. In the runner, three faults are a crash, a
lost answer and a crash. In the sessions nothing bounds interruptions, attempts at the
latest turn or finalizations; three questions give an archive of results to which more is
added and a container two questions old, and further requests at the socket are answered
from the receipt of the first. In the pipeline four attempts are what it takes to fail, be
refused, be reconsidered and be restored; `FewFlaws` has one flaw to call for
each repair, `MaxFlawed` lets two answers have one, the repaired one included. A
project of four questions with three troubles holds a failure, its plan, a second failure
and a person's wish between; the limits are scaled down so that each is reached. In the
final submissions each mishap alone meets every step of the others, and one round queued
again makes an archive, a receipt and a result of different ages. Two windows with a night
between, a lease and a login that expire with the clock let a batch be lost, resumed and
overtaken. In `SelfHeals` `MaxJobs` is never reached. `MaxTroubles` in `SelfReleases`
keeps any pair of troubles together.

`CHECK_DEADLOCK` is off where a bound or the end of the work lets the model stop
(`JobResumes`, `ProjectTurns`, `FinalSubmissions`, `SoloBatches`, `Supplies`, `SelfHeals`,
`SelfReleases`); the other runs check it.

Fairness.

* `TaskQueue`, `ClaudeSession`, `JobPipeline`, `RuntimeVerification`, `SoloUpload`: none.
  Handlers answer requests and owe nothing; a session waits for Claude, Docker and an
  operator; nobody has to start an upload. No liveness is claimed of them.
* `RunnerJournal`: a runner that is gone is started again (`scripts/local-api.mjs` and
  self-heal do), its loops go on, children end, and executions end although they may start
  children again and again (strong fairness; every stage has an idle timeout). Claims are
  not fair, faults not wanted.
* `ProjectSeries`, `FinalSubmission`, `Supply`: the steps of the runner's loops
  (weak fairness; a service restarts it), the answers of processes it started, the end of
  the store's handlers. Persons, crashes and mishaps owe nothing.
* `SelfRelease`: launchd's KeepAlive restarts the controller, started processes come up,
  an asked runner leaves when idle, repairs end. A push owes nothing: a person may have to
  make it possible.
* `SelfHeal`: the ticks, the restart, the worker's steps; that a release ends is strong
  fairness, resting on `SelfRelease!ReleaseEnds`.

## 4. Proofs

Eight modules hold proofs, of eleven specifications. Of each specification one inductive
invariant is proved by a lemma for each action, and from it follow the properties that the
runs check on a small instance. The theorems hold for every value of the constants that meets
the module's `ASSUME`; the bounds (`MaxFaults`, `MaxAttempts`, ...) are constants too, so
they hold however large these are.

| Module | Theorems (property) |
|---|---|
| `TaskQueueProofs` | `Inductive`, `TypeCorrect` (`TypeOK`), `ConcurrencyRespected` (`RunningBound`), `MutualExclusionPerTask` (`OneRunningPerTask`), `TokensFollowRunning` (`JobTokenIffRunning`), `BlockedTurnsIdle` (`BlockedIdle`), `AdmissionRespected` (`DrainRespected`), `WorkInOrder` (`OnlyHistoricalBehind`), `StoreImplementsAttempts` (`ImplementsAttempts`) |
| `RunnerJournalProofs` | `RunnerInductive`, `ChildrenBlockStarts` (`NoStartOverChildren`), `ReplayAccepted` (`ReplayNeverRefused`), `DeliveredIsAccepted` (`NoResultDropped`) |
| `ClaudeSessionProofs` | `SessionInductive`, `AnswersAttributed` (`ResultsAttributed`), `ExportedBeforeRemoved` (`RemovedAfterExport`), `ExitKeepsAnswers` (`ExitLosesNothing`), `SessionsImplementPrompts` (`ImplementsPrompts`) |
| `JobPipelineProofs` | `PipelineInductive`, `ArchivedIsWhole` (`ResultOfOnePiece`), `DisputesEnd` (`DisputedNeverArchived`), `RefusalHeeded` (`RefusedNotOffered`), `SentQuestionStays` (`KnownQuestionKept`), `SnapshotStaysInitial` (`SnapshotIsInitial`) |
| `ProjectProofs` | `SeriesInductive`, `ProjectLimits` (`LimitsKept`), `CodeInductive`, `StartsSound` (`StartsFromSoundWork`), `FrozenDraftsKept` (`KeptDraftHasContainer`); `VerificationInductive`, `ReportsRestOnRuns` (`ReportsBacked`), `BlockedNotRepeated` (`NoBlindReplay`) |
| `SupplyProofs` | `SupplyInductive`, `CreatedOnce` (`DraftCreatesOnce`), `OneProcessAtATime` (`OneProcess`), `InsertedIntoAGap` (`FillsGapOnly`) |
| `SubmissionProofs` | `SubmissionInductive`, `PackageOfItsArchive` (`RegisteredIsSound`), `PackageHoldsEvidence` (`SealedAsArchived`); `UploadInductive`, `NeverSubmittedTwice` (`SubmittedOnce`), `SubmittedInOrder` (`SubmittedAsAllowed`) |
| `SelfHealProofs` | `HealInductive`, `RequestReachesStoreOnce` (`RequestSentOnce`), `FaultDiagnosedOnce` (`DiagnosedOnce`); `ReleaseInductive`, `LiveWasMerged` (`LiveIsMerged`), `MergedOntoItsBase` (`AppliedToItsBase`) |

Why each invariant is what it is.

* `TaskQueue`. `IInv` is `TypeOK`, `OneRunningPerTask`, `RunningBound` and two
  strengthenings. `TurnsInv`: a turn holds its job token exactly while it runs, a recovery
  token exactly while it is blocked, and then it is neither queued nor running. `PickInv`:
  the work a handler has picked in a row that is still at the revision it read names a turn
  that is not blocked, in a task none of whose turns runs, and a plan is picked only for a
  turn that has ended. This carries a claim's decision from its snapshot to the UPDATE: what
  the row said is kept by the revision (`fresh`), the running count is evaluated again.
  `RunningBound` needs the count of a set that gains one member, hence the lemmas about
  finite sets. `BInv` adds to it that a row ends with its last turn, that what is queued,
  running *or blocked* is in place (`RowsInv`), and that a pick is (`PicksInPlace`):
  `OnlyHistoricalBehind` alone is not inductive, since recovery queues a blocked turn again.
* `TaskQueue` implements `Attempts`. `Leases` maps a turn to what it keeps of its attempts,
  `Issued` is the set of tokens handed out. Initial states map to initial states, and
  under `IInv /\ BInv` each handler is, seen through `Leases`, one step `Begin`, `Finish`,
  `HandOff` or `Recover` at one turn, or a stutter; a claim begins an attempt only with a token that was never
  issued and in a task without a running turn.
* `RunnerJournal`. `RInv` ties the runner's files and memory to the lease of a turn: an
  executing job's attempt runs at the store and has left no result; a result not marked
  delivered is of an attempt that runs or that the store has accepted; living children are
  of the attempt that runs or is parked, never of one that has left a result; nothing runs
  at a turn whose orphaned journal is open once the runner is up. The last is why an order of replay,
  recovery and claims matters, and it needs the phase of the process. `OnceInv` says that
  the files of a turn attempted once are of one attempt, which `NoResultDropped` rests on.
* `ClaudeSession`. `CInv`: questions are opened in order and containers of other
  questions are gone (`OrderInv`); what the bridge and the record say of copy and removal is
  so, also after a removal that was done without an answer (`ExportInv`); the prompts of a
  trace were typed for its question in the order of the turns (`TraceInv`); of a pending
  prompt at most one is in the trace, behind those answered (`PendingInv`); the answers kept
  are exactly those before it (`ResultsInv`, `ArchiveInv`); and where the call in progress
  is (`JobInv`). That an answer is taken for the right turn among several that say the same follows
  from `PendingInv`: the first match after `before` is the prompt's own.
* `ClaudeSession` implements `Prompts`: every step of an attempt, of the closing, of the
  bridge and of the container is one step of a prompt's life or a stutter, by cases under `CInv`.
* `JobPipeline`. `JInv`: a rating has its own number and a patch that of what it mends; the
  cached score is of the cached key's report, the delivery of its score, an archived result
  is of one piece (`CacheInv`); what the attempt holds at each step (`StageInv`); a dispute
  is never over before its attempt ends (`DisputeInv`); and a refusal is older than the
  attempt that takes it up, which was advised by it or made its report anew (`RefusalInv`),
  so that no finished call has its input. Beside it, `SentInv`: once the product may have
  changed, the container's record has the answer or the mark of the sent prompt, and with
  either the snapshot is not taken again.
* `RuntimeVerification`. `VInv`: the runs an attempt holds are of its source and plan, one a
  check (`RunInv`); a key has one completed run (`ReceiptInv`); what is executed is the plan
  that is saved (`PlannedInv`); a key whose log nobody was shown is filed, and is lost with
  its plan, or completed elsewhere, or of the saved plan (`UnseenInv`), so that the saved
  plan is repaired with its log, and what a plan repeats of such keys is lost or completed
  (`ReplayInv`).
* `ProjectSeries`. `SInv`: turns lie behind each other and only the last one is queued or
  runs (`TurnsInv`); a job knows what its turn is, and a successor planned for it still has
  room (`JobInv`); and the limits, over more turns than `LimitsKept` counts (`PlacesInv`).
  For the number of a category alone is not inductive: a draft that was refused gives its
  place back, and the same turn is claimed again, by a retry or a plan, without being asked
  whether there is room. So the last turn keeps its place also while it has failed
  (`Held`), and a successor may take it only because it becomes the last one itself. The room
  `PlanSuccessor` found stays until the successor is added because nobody else adds a turn
  while one runs.
* `ProjectSeries`, where the code goes. `CodeInv` holds beside `SInv` and follows what a
  question achieved to wherever a later one may take it from. *Counts* is what
  `StartsFromSoundWork` calls so; code *holds* it all for a question, and is *taken* after a
  turn if it has that turn and of other sessions only what was permitted. `OrderInv`: the
  fields of a row go together (only a sent call has an outcome, only a completed, permitted
  one an archive), sessions follow one another, and a follow-up stands behind a sent call of
  its own session. `CopiesInv`: every archive and every copy retained of a disputed question
  was taken after its turn. `SnapshotsInv`: the source kept for a plan has all that is
  archived up to its turn, as long as the next question is the one planned on it; and a turn
  with such a source that is still the last is not asked again as it was. Without
  that clause the invariant is not inductive, for the source is written once and used by every
  later plan of the turn. `BoxInv`: the workspace has what its session's calls left
  and what was permitted before; it holds what counts once its import is finished, a call
  of its session was sent, or its question is at the draft. An import that was
  cut off leaves a workspace that does not. `WorkInv`: the row in the job's hands is the
  stored one as far as both say, and the container is the one of the job's session from
  `ensured` on. What a call achieved, and whether it asked for a permission, reaches the
  store when its job ends, for the last turn only, and every copy is of turns that are no
  later; so only that turn, the workspace and what was just copied must be looked at again
  (`FollowsSettles`). Only `Send` makes a turn sent (`CodeStep`), and at a draft `BoxInv` and
  `WorkInv` say what the property asks for.
* `ProjectSeries`, a draft that only its wording failed. `KeptInv`: nothing was planned for
  such a draft while it is last, its container runs and the store knows (`FrozenInv`); it is
  refused that way only by a job that has its turn's container (`OwnInv`). A finalization
  asks once more before it ends the session: one that goes on was confirmed while no such
  draft was there, and none can come up before it ends, as it runs without a job
  (`ClosingInv`).
* `FinalSubmission`. `FInv`: what was copied and is still intact was intact when it was
  copied (`CopyInv`), and every request, sealed or on its way, that says "passed" is of an
  archive the scanner cleared (`ScanInv`). `RegisteredIsSound` is kept because a step that
  changes a round's archive takes its package away, and the store compares (`Accepts`).
* `Supply`. `GInv`: whoever speaks for a draft - a request being worked on, a task, the
  pending draft - gives it the same text, and before it is pending nobody does (`ClaimInv`);
  a handler that read tasks no one has changed since read a gap (`GapInv`); a process waited
  for is the only one of its input (`ProcInv`).
* `SoloUpload`. `UInv`: the platform has at most one submission of a record, of the version
  its mark names, and only of a marked record; an open form is of a marked record that was
  not sent, with its earlier rounds confirmed. It is not forbidden either (`OpenNotHeld`),
  since a marked record cannot be.
* `SelfHeal`. `HInv`: what was sent is marked, in the incident or in the file of the job
  while it holds the slot (`SentInv`); what is about to be sent is marked too and was not
  sent before (`SendInv`); the slot holds the last job or none, and a worker with a result is
  gone (`SlotInv`). `DiagnosedOnce` speaks of all jobs, but only the last one may still come to
  have failed, and a job starts with the mode that the earlier ones leave.
* `SelfRelease`. `SInv`: all that runs or that a restart or a rollback would run was built
  and is on the main branch (`LiveInv`), from what each saved phase says of the release and
  where in the controller it can be (`DeployInv`). `MainInv` adds that a commit of a person
  is new to main, so that a repair already there could not find its base at the head: with it a
  fast-forward, not the checks before it, puts a repair on its base and puts it there once.

Each inductive invariant was checked by TLC on the instance of the module's run before it
was proved, and is not a run of its own. Three things came out of the proofs. Several modules
wrote an ordered choice of the code as a `CASE` whose arms overlap; TLC takes the first arm,
the language leaves it open, so these are now `IF ... ELSE`. The history of what `SelfHeal`
sent did not tell a known recovery of one fault from that of another under the same
conditions, which the code asks for separately; its purpose names the fault now, and
`RequestSentOnce` says more. And the theorems about `RuntimeVerification` need that the steps of a plan have distinct ids, which
`validateRuntimePlan` enforces (lib/runtime-verification.mjs:92-109): it is an assumption now.

The other assumptions on constants: `None` and `NoToken` differ from the values they stand
beside; `Tasks` is finite where tasks are counted; turns of later questions come later
(`SessionAssumption`); the evaluator can be asked what a draft asks (`SupplyInputs \subseteq
Inputs`); windows of the upload are not at night; a project may ask the question it starts with
(`Limit[First] # 0`); bounds are natural numbers. TLC evaluates all of them in the runs.

Only model-checked: the type invariants of
`ProjectSeries` and `FinalSubmission` (`TypeOK`), which were checked while the modules were
built and belong to no run; the proofs use weaker types. The other modules' type
invariants are part of the invariants above. All liveness (`AttemptsEnd`, `ParkedReleased`,
`FailureSucceeded`, `ScoredIsRegistered`, `CandidateSettles`, `FaultAnswered`,
`RunnerReturns`, `ReleaseEnds`) stays with TLC: it is out of the prover's reach.

## 5. Where the code and its own statements part

These are in the models, and the properties that are proved and expected to pass are stated
so as to except exactly them. Each is given with the line that behaves so and, where there is
one, the statement it contradicts.

Store and runner

* `recover` queues an excluded validation again (app/api/runner/route.ts:745;
  docs/same-project-recovery.md:15 says exclusion blocks recovery). `TaskQueue!Recover`.
* The `.done` marker of a turn's first attempt hides the journal of its second one
  (runner.mjs:267; README.md:97 promises that journals are read at startup), and a report
  answered late marks the next attempt's result as delivered (runner.mjs:250; README.md:97
  promises that results are kept and reported again). `RunnerJournal`,
  `AttemptedOnce`.
* The answer to a claim is lost (runner.mjs:546): the turn runs at the store and no journal
  knows of it. An operator has to see to it; `ParkedReleased` and `AttemptsEnd` speak of
  journalled attempts.

Sessions

* A close repeated while the removal of an interrupted one is still at the bridge sets the
  status back to `stopped` (docker-runtime.mjs:1489); once the container is gone, no later
  close gets past its absence (the comment at docker-runtime.mjs:1521: "A successful removal
  followed by a lost API acknowledgement must remain recoverable.").

Pipeline, scores, verification

* The question of a turn is kept while its answer is cached or the container's record still
  holds the prompt (lib/question-cache.mjs:43). When the container is collected and the answer
  was not yet cached, it is prepared anew (job-executor.mjs:241: "Preserve the exact submitted
  prompt on upgrade/reconnect even before Claude has produced a final result.").
  `KnownQuestionKept` is stated of what the cache or the record knows.
* A refused score is not taken up again when its last call was a patch, whose output file
  holds the patch alone (score-retry-context.mjs; docs/production-efficiency.md:7 says that
  such a rating "可按原摘要校验继续用于交付返修"), nor when its report is of an earlier
  release. After a crash between the re-scoring and its delivery the refused score comes
  back from `score-checkpoints`; and when the last checks of a rating throw, every retry
  with the same inputs gets the same answers. `RefusedScore`, `RefusedNotOffered`.
* A check that completed is executed again when the feedback on an earlier report names it
  (job-executor.mjs:1209), and if it then times out, that log reaches nobody: the older
  receipt hides the run (runtime-case-execution.mjs:98) and the saved plan executes it once
  more. runtime-case-execution.mjs:74 says "Never silently
  forget a timeout and replay the old plan".
* A plan whose source or regression context changed is discarded together with the list of
  its incomplete runs (runtime-verification.mjs:1149), whose receipts are filed without the
  context: a new plan may execute the same command again, its log unseen;
  runtime-case-execution.mjs:213 says "Never repeat the same
  command in a new environment before reviewing its actual output and dependencies".
  `NoBlindReplay` is stated with these two exceptions.

Project series

* An import cut off, and the prior question excluded before the next attempt:
  `importPriorQuestion` returns early, and the partial workspace is sent and archived. Or
  there is only a disputed `.retained` source: a plan keeps the partial workspace as it is
  (`cutOff` in `StartsFromSoundWork`).
* What may leave a project waiting (`Hindered`): a draft that fails before it has its own
  container, while the previous one could not be closed or belongs to a disputed or excluded
  question, is refused as "当前项目容器身份不符" for ever; a plan that begins while
  `autoContinue` is off waits for conditions that do not include it
  (failed-project-plan.mjs:523), so switching it on does not resume it; a runner that dies
  before a draft is reserved, or while the next question is planned, leaves a turn that is
  due only when a person retries it; a draft whose new wording changed a frozen field
  (`FrozenPreparation`) waits for a person too, in its container (`KeptDraftHasContainer`;
  lib/project-recovery-server.mjs:47, which a test names, while
  docs/same-project-recovery.md:7 lets every unsent preparation failure be planned over); an
  unsent continuation that fails once is planned over
  and refused ("声称未发送的草稿存在真实原生输入", failed-project-plan.mjs:412).
* After a disputed question is continued by a repair that fails, the next plan starts from
  the last archive and not from the retained snapshot; a repair draft of a disputed parent
  whose session was closed is never due.

Final submissions

* A round evaluated again after its package has a receipt is refused for ever
  ("已有最终提交回执与原件不符"); docs/same-project-recovery.md:17 lets a recovered round be
  packaged again. A kept result is written once (failed-project-plan.mjs:543), so it may be
  older than the archive. A retried plan sends the completed result again with
  `awaiting_finalization` over a delivered package (job-executor.mjs:588) while the
  `.delivered` marker still matches: the record loses its package. A close that failed with
  "会话收尾条件已变化" waits for a change of conditions that will not come, and so does a
  second transport failure under the same ones. `Outdated` and `Stuck` name these.
* The client gives up after 20 s while the store may still process the request (in the
  model: a lost answer); a repeated download does not look at `excluded`.

Supply

* A resumable receipt whose trace digest is outdated refuses every resume
  (codex-process.mjs:136 saves before the first output): the draft never settles. The same
  holds for a pending candidate whose repository left the scope (route.ts:373) and for
  expired credentials until a person acts. `Held`.

Upload, self-heal, releases

* `recoveryRequestedAt` is never cleared (solo-schedule.mjs:98): a batch that cannot finish is
  chosen before every waiting one (docs/console-optimization.md:8 promises a queue).
* A retry after a published release is sent again when its answer is lost
  (self-heal.mjs:201), against the comment at self-heal.mjs:139 ("it is never automatically sent twice");
  `RequestSentOnce` excepts it.
* While `deploy.json` is active, `ensureServices` returns at once (self-heal-io.mjs:217), which
  self-heal-release.mjs:42 relies on ("ensureServices starts the latest release."): during a
  push that is repeated, a runner that leaves stays away. `RunnerReturns` excepts `Pushing`.
* A change begun, or committed, between `git status` and `git merge` is not seen by the
  controller (self-heal-release.mjs:202-205; docs/self-heal.md:15 merges only when the working
  tree is clean and the base the same): git refuses the moved head, but merges under an edit
  of other files; and `git push origin HEAD:main` pushes what a person has committed since.
* A crash between the last two saves of a release leaves its job `ready` with a deploy file
  that has ended (`CutAtItsEnd`).

## 6. Not modelled, and why

* Stage budget (`scripts/stage-budget.mjs`): an in-memory queue of leases in one process; it
  delays stages that other modules model as steps.
* Admission gates (`provider-health.mjs`, `pilot-gate.mjs`): they postpone a claim or a draft.
* Workbench UI: presentation; its requests are the user operations of `TaskQueue`.
* `finalize-failed-session.mjs`: an operator's command line that closes a session from another
  process without a common lock; nothing in the modules covers the two at once.
* Within the modelled components: what §2 says under each module. Everything that is only the
  content of a text, a hash or a format is abstract throughout, as is Claude's work itself.

## 7. Plan

The components that persist state and act concurrently have their modules, and every
safety property that a passing run checks is proved. What is left are the type invariants of
`ProjectSeries` and `FinalSubmission` in full; the proofs so far need weaker ones.
