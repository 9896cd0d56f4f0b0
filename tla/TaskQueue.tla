------------------------------ MODULE TaskQueue ------------------------------
(***************************************************************************)
(* The task store of the annotation pipeline and the handlers that write   *)
(* it: the claim of a queued turn by the runner, the reports a job sends   *)
(* under its job token (reserve-claude, handoff-observer, recover,         *)
(* finish), and the user's operations on a task.                           *)
(*                                                                         *)
(* A task row holds the turns of one project.  Every handler but claim     *)
(* reads one row and saves it under its revision, so a save either applies *)
(* to the row that was read or fails; such a handler is one action here.   *)
(* claim reads every row and the scheduler's configuration first and       *)
(* commits later, row by row, so it is two actions per handler process,    *)
(* with the other handlers in between.  "revision unchanged since the      *)
(* read" is the membership of the row in fresh[h]: every save takes the    *)
(* row out of every handler's set.                                         *)
(*                                                                         *)
(* A report is taken in any order, late, twice or never: any job token     *)
(* handed out so far may arrive in any state.  Retry times, retry budgets  *)
(* and the quotas of the question rules are data this module leaves open:  *)
(* where they decide, both outcomes are possible.                          *)
(***************************************************************************)
EXTENDS Naturals, FiniteSets

CONSTANTS Tasks,           \* task rows
          Tokens,          \* job tokens, each issued at most once
          NoToken,         \* the absent token
          Handlers,        \* claim requests the API may serve at once
          MaxTurns,        \* bound: turns of one task
          MaxConcurrency   \* largest concurrency the scheduler accepts (4)

ASSUME TaskQueueAssumption ==
  /\ IsFiniteSet(Tasks)
  /\ NoToken \notin Tokens
  /\ MaxTurns \in Nat \ {0}
  /\ MaxConcurrency \in Nat \ {0}

VARIABLES turns,      \* [Tasks -> [TurnIds -> Turn]], the turns of each row
          len,        \* number of turns appended to each row
          closed,     \* the task was ended
          config,     \* the scheduler row: concurrency, acceptingJobs, drainingTurns
          jobs,       \* <<task, turn, token>> of every claim answered so far
          pick,       \* per handler and task: the work its snapshot selects
          capacity,   \* per handler: the capacity it computed from its snapshot
          fresh       \* per handler: rows whose revision is still the one it read

vars == <<turns, len, closed, config, jobs, pick, capacity, fresh>>

TurnIds  == 1 .. MaxTurns
Token    == Tokens \cup {NoToken}
Status   == {"absent", "queued", "running", "review", "failed", "submitted"}
Outcome  == {"none", "complete", "disputed", "error"}
Recovery == {"none", "postprocess", "validation", "historical"}

Turn == [status        : Status,
         jobToken      : Token,     \* of the running attempt
         completed     : Token,     \* completedJobToken
         recoveryToken : Token,     \* of an interrupted attempt whose children live
         handedOff     : Token,     \* observerHandoff.previousJobTokenHash
         blocked       : BOOLEAN,   \* recoveryBlocked
         excluded      : BOOLEAN,
         receipt       : BOOLEAN,
         sent          : BOOLEAN,   \* wasSent: a Claude call was reserved
         outcome       : Outcome,   \* executionOutcome with its verified trace;
                                    \* disputed: complete, with submittedPolicyEvidence
         stageRecovery : Recovery,  \* validationOnly, historical
         retrying      : BOOLEAN,   \* stageRecovery.retrying
         runtime       : BOOLEAN,   \* automation.runtimeRecovery not complete
         project       : {"none", "failed", "review", "submitted"},
                                    \* projectRetry.originalStatus
         planBlocked   : BOOLEAN]   \* projectRecovery.state = 'blocked'

Absent ==
  [status |-> "absent", jobToken |-> NoToken, completed |-> NoToken,
   recoveryToken |-> NoToken, handedOff |-> NoToken, blocked |-> FALSE,
   excluded |-> FALSE, receipt |-> FALSE, sent |-> FALSE, outcome |-> "none",
   stageRecovery |-> "none", retrying |-> FALSE, runtime |-> FALSE,
   project |-> "none", planBlocked |-> FALSE]

\* a turn appended by the user, by a decision or by a plan
NewTurn == [Absent EXCEPT !.status = "queued"]

Present(t) == {i \in TurnIds : turns[t][i].status # "absent"}
Active     == {"queued", "running"}
Busy(t)    == \E i \in TurnIds : turns[t][i].status \in Active
Blocked(t) == \E i \in TurnIds : turns[t][i].blocked

Pending(t) == Busy(t) \/ Blocked(t)
IsLast(t, i) == i = len[t]

\* the turns that run now, over the whole store
Running == {c \in Tasks \X TurnIds : turns[c[1]][c[2]].status = "running"}

\* db/store save and the claim's UPDATE: the row's revision moves on
Save(t, row) ==
  /\ turns' = [turns EXCEPT ![t] = row]
  /\ fresh' = [h \in Handlers |-> fresh[h] \ {t}]

\* what a claim will start: a turn (0: none), as the retry of its evaluation
\* (retryStage), as the plan of another question (recoverProject), or as queued
Work   == [turn : 0 .. MaxTurns, stage : BOOLEAN, plan : BOOLEAN]
NoWork == [turn |-> 0, stage |-> FALSE, plan |-> FALSE]

Config == [concurrency : 1 .. MaxConcurrency,
           accepting   : BOOLEAN,
           draining    : SUBSET (Tasks \X TurnIds)]

Init ==
  /\ turns = [t \in Tasks |-> [i \in TurnIds |-> IF i = 1 THEN NewTurn ELSE Absent]]
  /\ len = [t \in Tasks |-> 1]
  /\ closed = [t \in Tasks |-> FALSE]
  /\ config = [concurrency |-> MaxConcurrency, accepting |-> TRUE, draining |-> {}]
  /\ jobs = {}
  /\ pick = [h \in Handlers |-> [t \in Tasks |-> NoWork]]
  /\ capacity = [h \in Handlers |-> 0]
  /\ fresh = [h \in Handlers |-> {}]

-----------------------------------------------------------------------------
(* Claim: which turn of a row the handler's snapshot selects. *)

RuntimeRecoveryEligible(r) ==
  r.runtime /\ r.outcome = "complete" /\ ~r.receipt /\ ~r.excluded /\ ~r.blocked

\* late: the recoverable turns whose retry time or revision has not come yet
Due(t, i, late) ==
  \/ ~turns[t][i].runtime
  \/ RuntimeRecoveryEligible(turns[t][i]) /\ <<t, i>> \notin late

Answered == {"complete", "disputed"}

ValidationOnly(r) == r.stageRecovery \in {"validation", "historical"}

ValidationRecovery(t, late) ==
  \E i \in TurnIds :
    LET r == turns[t][i] IN
    r.status = "queued" /\ Due(t, i, late) /\ ValidationOnly(r) /\ r.retrying
      /\ r.outcome \in Answered

OthersIdle(t, i) ==
  \A j \in TurnIds : ~turns[t][j].blocked /\ (j # i => turns[t][j].status \notin Active)

\* blockedProjectRetryAllowed, for a turn whose status is (or was) s
BlockedProjectRetryAllowed(t, i, s) ==
  LET r == turns[t][i] IN
  /\ ~closed[t] /\ IsLast(t, i) /\ ~r.excluded /\ ~r.receipt /\ r.planBlocked
  /\ OthersIdle(t, i)
  /\ s = "failed" \/ (s = "review" /\ r.outcome = "complete")

QueuedProjectRecovery(t, i) ==
  LET r == turns[t][i] IN
  /\ IsLast(t, i) /\ r.status = "queued" /\ r.project # "none"
  /\ BlockedProjectRetryAllowed(t, i, r.project)

\* postprocessRetryDue: a failed evaluation of a completed execution
RetryStage(t, i) ==
  LET r == turns[t][i] IN
  /\ ~closed[t] /\ ~Pending(t) /\ IsLast(t, i)
  /\ r.status = "failed" /\ ~r.excluded /\ r.outcome \in Answered

\* projectRecoveryDue: plan another question of the same project
RecoverProject(t, i) ==
  LET r == turns[t][i] IN
  /\ ~closed[t] /\ ~Pending(t) /\ IsLast(t, i)
  /\ \/ r.status = "failed" /\ (~r.sent \/ r.outcome \in {"error", "disputed"})
     \/ r.status \in {"review", "submitted"} /\ ~r.excluded /\ r.outcome = "complete"

\* the turns a claim may select from row t, in the order the code tries them
Selected(t, late) ==
  LET queued     == {i \in TurnIds : turns[t][i].status = "queued" /\ Due(t, i, late)}
      validation == {i \in queued : ValidationOnly(turns[t][i])}
      first(S)   == {i \in S : \A j \in S : i <= j}
      planning   == {i \in TurnIds : QueuedProjectRecovery(t, i)}
  IN IF planning # {} THEN planning
     ELSE IF validation # {} THEN first(validation)
     ELSE IF queued # {} THEN first(queued)
     ELSE {i \in TurnIds : RetryStage(t, i) \/ RecoverProject(t, i)}

Claimable(t, late) ==
  /\ \A i \in TurnIds : turns[t][i].status # "running"
  /\ (closed[t] \/ Blocked(t)) => ValidationRecovery(t, late)

Deferred == {c \in Tasks \X TurnIds : turns[c[1]][c[2]].runtime}

Drains(t, i) == config.accepting \/ <<t, i>> \in config.draining

Selects(t, w, late) ==
  /\ Claimable(t, late) /\ w.turn \in Selected(t, late) /\ Drains(t, w.turn)
  /\ w.stage => RetryStage(t, w.turn)
  /\ w.plan => RecoverProject(t, w.turn)
  /\ w.stage \/ w.plan \/ turns[t][w.turn].status = "queued"

\* What a snapshot offers: for each row no work, or work the code selects.
\* Rows are skipped for reasons this module leaves open (excluded ids, no room
\* for a new container, project limit), so no work is always possible.
Offers(late) ==
  {p \in [Tasks -> Work] : \A t \in Tasks : p[t] = NoWork \/ Selects(t, p[t], late)}

ClaimRead(h) ==
  /\ \A t \in Tasks : pick[h][t] = NoWork
  /\ \E late \in SUBSET Deferred : \E p \in Offers(late) :
       /\ \E t \in Tasks : p[t] # NoWork
       /\ pick' = [pick EXCEPT ![h] = p]
       /\ fresh' = [fresh EXCEPT ![h] = {t \in Tasks : p[t] # NoWork}]
  /\ \E c \in 1 .. config.concurrency : capacity' = [capacity EXCEPT ![h] = c]
  /\ UNCHANGED <<turns, len, closed, config, jobs>>

\* what a claim writes into the selected turn
Claimed(r, token, w) ==
  [r EXCEPT !.status = "running", !.jobToken = token,
            !.stageRecovery = IF w.stage /\ @ = "none" THEN "postprocess" ELSE @,
            !.retrying = w.stage \/ @,
            !.project = IF w.plan THEN r.status ELSE @]

\* mutants: the UPDATE without its revision, without its count, without admission
AdmitsStaleRow(h, t) == Cardinality(Running) < capacity[h] /\ Drains(t, pick[h][t].turn)
AdmitsUncounted(h, t) == t \in fresh[h] /\ Drains(t, pick[h][t].turn)
AdmitsAsRead(h, t) == t \in fresh[h] /\ Cardinality(Running) < capacity[h]

\* revision CAS, running count and admission, all in one UPDATE
Admits(h, t) ==
  /\ t \in fresh[h]
  /\ Cardinality(Running) < capacity[h]
  /\ Drains(t, pick[h][t].turn)

ClaimCommit(h, t, token) ==
  LET w == pick[h][t] IN
  /\ w # NoWork
  /\ Admits(h, t)
  /\ \A c \in jobs : c[3] # token
  /\ turns' = [turns EXCEPT ![t][w.turn] = Claimed(@, token, w)]
  /\ jobs' = jobs \cup {<<t, w.turn, token>>}
  /\ pick' = [pick EXCEPT ![h] = [u \in Tasks |-> NoWork]]
  /\ capacity' = [capacity EXCEPT ![h] = 0]
  /\ fresh' = [g \in Handlers |-> IF g = h THEN {} ELSE fresh[g] \ {t}]
  /\ UNCHANGED <<len, closed, config>>

\* the UPDATE changed no row: the handler goes on with its next candidate
ClaimMiss(h, t) ==
  /\ pick[h][t] # NoWork
  /\ ~Admits(h, t)
  /\ pick' = [pick EXCEPT ![h][t] = NoWork]
  /\ capacity' = IF \A u \in Tasks \ {t} : pick[h][u] = NoWork
                 THEN [capacity EXCEPT ![h] = 0] ELSE capacity
  /\ fresh' = [fresh EXCEPT ![h] = @ \ {t}]
  /\ UNCHANGED <<turns, len, closed, config, jobs>>

-----------------------------------------------------------------------------
(* Reports of a job, under the token of its claim. *)

\* every handler of this section saves one row and nothing else
RowOnly == UNCHANGED <<config, jobs, pick, capacity>>

SaveTurn(t, i, r) ==
  /\ Save(t, [turns[t] EXCEPT ![i] = r])
  /\ UNCHANGED <<len, closed>>
  /\ RowOnly

Holds(t, i, k) == turns[t][i].status = "running" /\ turns[t][i].jobToken = k

\* reserve-claude: the one call that lets an attempt write to Claude
Reserve(t, i, k) ==
  LET r == turns[t][i] IN
  /\ Holds(t, i, k)
  /\ r.handedOff = NoToken /\ r.project = "none" /\ ~ValidationOnly(r)
  /\ SaveTurn(t, i, [r EXCEPT !.sent = TRUE])

\* handoff-observer: the turn goes back to the queue, its terminal untouched
Superseded(r, k) == r.handedOff = k

HandoffObserver(t, i, k) ==
  LET r == turns[t][i] IN
  /\ ~Superseded(r, k)
  /\ ~closed[t] /\ Holds(t, i, k)
  /\ ~r.excluded /\ ~r.receipt /\ ~r.blocked /\ r.sent
  /\ SaveTurn(t, i, [r EXCEPT !.status = "queued", !.jobToken = NoToken,
                              !.handedOff = k])

\* mutant: recover does not ask whose token it is given
OwnsAny(r, k) == TRUE

Owns(r, k) == k \in {r.jobToken, r.recoveryToken}

\* mutant: the interrupted attempt keeps its job token
Interrupted(r, k, live, salvage) ==
  [r EXCEPT !.status = IF ~live /\ salvage THEN "queued" ELSE "failed",
            !.jobToken = NoToken,
            !.recoveryToken = IF live THEN k ELSE NoToken, !.blocked = live]

\* recover: the runner restarted and found this attempt without a result.
\* live: a child process of the attempt still runs; salvage: the attempt's
\* stage cache holds a successful Claude result.
Recover(t, i, k, live, salvage) ==
  LET r == turns[t][i] IN
  /\ ~Superseded(r, k) /\ r.completed # k /\ Owns(r, k)
  /\ SaveTurn(t, i, Interrupted(r, k, live, salvage))

Plans(r) == r.project # "none" /\ r.stageRecovery # "historical"

\* finish of an attempt that plans the next question of the project: the turn
\* gets its original status back, an accepted plan appends the next question
FinishProject(t, i, k) ==
  LET r    == turns[t][i]
      done == [r EXCEPT !.status = r.project, !.jobToken = NoToken,
                        !.completed = k, !.project = "none"] IN
  /\ ~Superseded(r, k) /\ Holds(t, i, k)
  /\ Plans(r)
  /\ \/ SaveTurn(t, i, [done EXCEPT !.planBlocked = TRUE])
     \/ /\ len[t] < MaxTurns
        /\ Save(t, [turns[t] EXCEPT ![i] = [done EXCEPT !.planBlocked = FALSE],
                                    ![len[t] + 1] = NewTurn])
        /\ len' = [len EXCEPT ![t] = @ + 1]
        /\ UNCHANGED closed
        /\ RowOnly

\* what finish leaves of the attempt, before follow-ups
Finished(r, k, success, outcome, runtime) ==
  LET base == [r EXCEPT !.status = IF success THEN "review" ELSE "failed",
                        !.jobToken = NoToken, !.completed = k,
                        !.retrying = FALSE, !.outcome = outcome,
                        !.sent = @ \/ outcome # "none", !.runtime = runtime] IN
  IF ~success /\ RuntimeRecoveryEligible(base)
  THEN [base EXCEPT !.status = "queued", !.retrying = TRUE,
                    !.stageRecovery = IF @ = "historical" THEN @ ELSE "validation"]
  ELSE base

\* after this row: nothing queued, running or blocked but (possibly) turn i
Quiet(row) == \A j \in TurnIds : row[j].status \notin Active /\ ~row[j].blocked

\* finish may append one turn: "continue" after a confirmed 504, the decision
\* after a success, or the one after a disputed but completed evaluation
MayAppend(t, i, row) ==
  LET r == row[i] IN
  /\ ~closed[t] /\ r.stageRecovery # "historical" /\ len[t] < MaxTurns
  /\ \/ r.status = "review"
     \/ /\ r.status = "failed" /\ IsLast(t, i) /\ ~r.excluded
        /\ r.outcome = "error" /\ Quiet(row)
     \/ r.status = "failed" /\ r.outcome = "disputed"

\* finish of any other attempt
FinishRun(t, i, k, success, outcome, runtime) ==
  LET r   == turns[t][i]
      row == [turns[t] EXCEPT ![i] = Finished(r, k, success, outcome, runtime)]
      historical == r.stageRecovery = "historical" IN
  /\ ~Superseded(r, k) /\ Holds(t, i, k) /\ r.project = "none"
  /\ success => outcome = "complete" /\ r.outcome # "disputed"
  /\ outcome # r.outcome => outcome # "none" /\ ~historical
  /\ runtime => outcome = "complete" /\ ~success
  /\ RowOnly
  /\ \/ Save(t, row) /\ UNCHANGED len /\ UNCHANGED closed
     \/ /\ MayAppend(t, i, row)
        /\ Save(t, [row EXCEPT ![len[t] + 1] = NewTurn])
        /\ len' = [len EXCEPT ![t] = @ + 1]
        /\ UNCHANGED closed
     \/ /\ ~historical
        /\ \A j \in TurnIds : row[j].status \notin Active
        /\ Save(t, row) /\ UNCHANGED len
        /\ closed' = [closed EXCEPT ![t] = TRUE]

-----------------------------------------------------------------------------
(* The user's operations on a task (PATCH, under the revision shown). *)

\* blocksProject.  A failed turn that has a successor was continued by it
\* (projectRecovery, gatewayRecovery), a disputed one may be ready to continue.
BlocksProject(t, i) ==
  LET r == turns[t][i] IN
  IsLast(t, i) /\ r.status = "failed" /\ ~r.excluded /\ r.outcome # "disputed"

Enqueue(t) ==
  /\ ~closed[t] /\ ~Pending(t) /\ len[t] < MaxTurns
  /\ \A i \in TurnIds : ~BlocksProject(t, i)
  /\ Save(t, [turns[t] EXCEPT ![len[t] + 1] = NewTurn])
  /\ len' = [len EXCEPT ![t] = @ + 1]
  /\ UNCHANGED closed /\ RowOnly

\* retry of the last turn.  What is queued: the same work again, the follow-up
\* of a disputed turn planned anew, the plan of another question, or the
\* preparation of a draft that was never sent.
RetryWork == {"again", "replan", "plan", "prepare"}

\* mutant: an older turn can be retried too
CanRetryAnyTurn(t, i) == turns[t][i].status = "failed" /\ ~Pending(t) /\ ~closed[t]

CanRetry(t, i) ==
  /\ turns[t][i].status = "failed" \/ BlockedProjectRetryAllowed(t, i, turns[t][i].status)
  /\ ~Pending(t) /\ ~closed[t] /\ IsLast(t, i)

Retry(t, i, work) ==
  LET r       == turns[t][i]
      unsent  == r.status = "failed" /\ ~r.sent
      project == CASE work = "plan"    -> r.status
                   [] work = "prepare" -> "none"
                   [] OTHER            -> r.project IN
  /\ CanRetry(t, i)
  /\ CASE work = "again"   -> ~r.planBlocked
       [] work = "replan"  -> r.status = "failed" /\ ~r.excluded /\ r.outcome = "disputed"
       [] work = "plan"    -> r.planBlocked \/ unsent
       [] work = "prepare" -> unsent
  /\ SaveTurn(t, i, [r EXCEPT !.status = "queued", !.project = project,
                              !.retrying = @ \/ (/\ r.stageRecovery # "none"
                                                 /\ work # "replan"
                                                 /\ project = "none")])

HistoricalValidationRetryAllowed(t, i) ==
  LET r == turns[t][i] IN
  /\ ~IsLast(t, i) /\ r.status = "failed" /\ ~r.excluded /\ ~r.receipt
  /\ ~r.blocked /\ r.outcome = "complete"

ValidationRetryAllowed(t, i) ==
  LET r == turns[t][i] IN
  /\ IsLast(t, i) /\ ~closed[t] /\ ~r.excluded /\ ~r.receipt /\ ~r.blocked
  /\ \/ r.status = "failed"
     \/ r.status = "queued" /\ (r.project # "none" \/ RuntimeRecoveryEligible(r))
  /\ r.outcome = "complete" /\ OthersIdle(t, i)

RetryValidation(t, i) ==
  LET historical == HistoricalValidationRetryAllowed(t, i) IN
  /\ historical \/ ValidationRetryAllowed(t, i)
  /\ SaveTurn(t, i, [turns[t][i] EXCEPT
       !.stageRecovery = IF historical THEN "historical" ELSE "validation",
       !.retrying = TRUE, !.project = "none", !.status = "queued"])

RetryPlan(t, i) ==
  LET r == turns[t][i] IN
  /\ IsLast(t, i) /\ ~r.receipt /\ ~closed[t] /\ ~Pending(t)
  /\ \/ r.status = "review" /\ r.outcome \in Answered
     \/ r.status = "failed" /\ ~r.excluded /\ r.outcome = "disputed"
  /\ SaveTurn(t, i, [r EXCEPT !.status = "queued"])

Assess(t, i) ==
  /\ turns[t][i].status = "failed"
  /\ SaveTurn(t, i, [turns[t][i] EXCEPT !.status = "review"])

Exclude(t, i) ==
  /\ turns[t][i].status \in {"failed", "review"}
  /\ SaveTurn(t, i, [turns[t][i] EXCEPT !.excluded = TRUE])

Submit(t, i) ==
  LET r == turns[t][i] IN
  /\ r.status \in {"review", "submitted"} /\ ~r.excluded /\ ~r.receipt
  /\ r.sent /\ r.outcome # "disputed"
  /\ SaveTurn(t, i, [r EXCEPT !.status = "submitted", !.receipt = TRUE])

SetClosed(t, value) ==
  /\ ~Pending(t)
  /\ closed' = [closed EXCEPT ![t] = value]
  /\ Save(t, turns[t])
  /\ UNCHANGED len /\ RowOnly

Close(t)         == SetClosed(t, TRUE)
ResumeProject(t) == SetClosed(t, FALSE)

\* stage, container, record-metadata, review, trace: nothing of the state above
\* changes, but the row has a new revision
SaveData(t) ==
  /\ Save(t, turns[t])
  /\ UNCHANGED <<len, closed>> /\ RowOnly

\* POST /api/scheduler.  The draining list is read only while no jobs are
\* accepted, so one value stands for the lists saved while they are.
SetScheduler ==
  /\ config' \in Config
  /\ config'.accepting => config'.draining = {}
  /\ UNCHANGED <<turns, len, closed, jobs, pick, capacity, fresh>>

-----------------------------------------------------------------------------
Report(t, i, k) ==
  \/ Reserve(t, i, k)
  \/ HandoffObserver(t, i, k)
  \/ \E live, salvage \in BOOLEAN : Recover(t, i, k, live, salvage)
  \/ FinishProject(t, i, k)
  \/ \E success, runtime \in BOOLEAN : \E outcome \in Outcome :
       FinishRun(t, i, k, success, outcome, runtime)

UserStep(t, i) ==
  \/ \E work \in RetryWork : Retry(t, i, work)
  \/ RetryValidation(t, i)
  \/ RetryPlan(t, i)
  \/ Assess(t, i)
  \/ Exclude(t, i)
  \/ Submit(t, i)

Next ==
  \/ \E h \in Handlers : ClaimRead(h)
  \/ \E h \in Handlers, t \in Tasks :
       \/ \E k \in Tokens : ClaimCommit(h, t, k)
       \/ ClaimMiss(h, t)
  \/ \E c \in jobs : Report(c[1], c[2], c[3])
  \/ \E t \in Tasks :
       \/ Enqueue(t)
       \/ Close(t)
       \/ ResumeProject(t)
       \/ SaveData(t)
       \/ \E i \in TurnIds : UserStep(t, i)
  \/ SetScheduler

Spec == Init /\ [][Next]_vars

-----------------------------------------------------------------------------
(* Properties *)

TypeOK ==
  /\ turns \in [Tasks -> [TurnIds -> Turn]]
  /\ len \in [Tasks -> TurnIds]
  /\ closed \in [Tasks -> BOOLEAN]
  /\ config \in Config
  /\ jobs \subseteq Tasks \X TurnIds \X Tokens
  /\ pick \in [Handlers -> [Tasks -> Work]]
  /\ capacity \in [Handlers -> 0 .. MaxConcurrency]
  /\ fresh \in [Handlers -> SUBSET Tasks]

\* However claims, hand-offs, recoveries and retries interleave, no more turns
\* run at once than the largest concurrency the scheduler accepts.
RunningBound == Cardinality(Running) <= MaxConcurrency

\* Two turns of one task never run at the same time, although a historical
\* validation may be queued beside the project's current turn and two claims
\* may have selected one each.
OneRunningPerTask ==
  \A t \in Tasks : \A i, j \in TurnIds :
    turns[t][i].status = "running" /\ turns[t][j].status = "running" => i = j

\* A turn runs exactly as long as it holds a job token: every way out of an
\* attempt takes the token away, and nothing else gives one out.
JobTokenIffRunning ==
  \A t \in Tasks, i \in TurnIds :
    turns[t][i].status = "running" <=> turns[t][i].jobToken # NoToken

\* While children of an interrupted attempt still live, its turn is neither
\* queued nor run again, whatever the user and the queue do meanwhile.
BlockedIdle ==
  \A t \in Tasks, i \in TurnIds :
    LET r == turns[t][i] IN
    /\ r.blocked => r.status \notin Active \cup {"absent"}
    /\ r.blocked <=> r.recoveryToken # NoToken

\* Work on a turn that has successors, or in a task that was ended, is a
\* historical validation only: an old question is never run again over the
\* ones that follow it, nor is anything else done for an ended task.
OnlyHistoricalBehind ==
  \A t \in Tasks, i \in TurnIds :
    turns[t][i].status \in Active /\ (closed[t] \/ ~IsLast(t, i))
      => turns[t][i].stageRecovery = "historical"

Starts(t, i) == turns[t][i].status # "running" /\ turns'[t][i].status = "running"

\* When the scheduler stops accepting jobs, an attempt starts only for a turn
\* on the draining list of that moment, whatever list the claim had read.
DrainRespected ==
  [][\A t \in Tasks, i \in TurnIds : Starts(t, i) => Drains(t, i)]_vars

\* What the store keeps of the attempts at a turn, and of the tokens handed out.
LeaseOf(r) == [running |-> r.jobToken, parked |-> r.recoveryToken,
               completed |-> r.completed, handedOff |-> r.handedOff]
Leases == [u \in Tasks \X TurnIds |-> LeaseOf(turns[u[1]][u[2]])]
Issued == {c[3] : c \in jobs}

Store == INSTANCE Attempts WITH lease <- Leases, issued <- Issued

\* The store keeps its promise to the jobs: every handler is a step of the life
\* of one attempt, or changes nothing of it.
ImplementsAttempts == Store!Spec

=============================================================================
