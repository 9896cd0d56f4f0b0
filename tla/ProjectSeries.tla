---------------------------- MODULE ProjectSeries ----------------------------
(***************************************************************************)
(* A project's questions one after the other: how many of a category and   *)
(* of a session there may be, what may follow a question, from which code  *)
(* the next one starts, and how a question that failed, or whose wording   *)
(* was disputed after it had been answered, is succeeded.                  *)
(*                                                                         *)
(* One project with its one container.  Code is the set of turns whose     *)
(* changes it holds.  The job of a turn and the finalization of a session  *)
(* exclude each other; the store and the person at it do not wait for them.*)
(* Code: lib/project-series.mjs, lib/project-recovery.mjs,                 *)
(* lib/disputed-continuation.mjs, scripts/failed-project-plan.mjs,         *)
(* scripts/disputed-project-plan.mjs and the import of docker-runtime.mjs. *)
(***************************************************************************)
EXTENDS Naturals, FiniteSets

CONSTANTS
  MaxTurns,       \* bound: turns of the project
  First,          \* the category of the first question, 0-1
  Limit,          \* questions of each category a project may send
  MaxCalls,       \* calls of a session
  MaxPlans,       \* plans after a failure before a person is needed
  MaxRetries,     \* attempts a disputed evaluation makes again on its own
  MaxTroubles     \* bound: what is out of the ordinary, altogether: wishes of the
                  \* person, deaths of the runner, closes that fail, and
                  \* calls and answers other than a plain success

Categories == DOMAIN Limit
Turns == 1 .. MaxTurns

ASSUME SeriesAssumption ==
  /\ First \in Categories
  /\ MaxTurns \in Nat \ {0} /\ MaxCalls \in Nat /\ MaxPlans \in Nat /\ MaxRetries \in Nat
  /\ \A c \in Categories : Limit[c] \in Nat
  /\ Limit[First] # 0

VARIABLES
  turns,          \* the store's turns
  closed,         \* the project is closed
  auto,           \* config.autoContinue
  known,          \* the container as it was last published to the store
  container,      \* container.json and the workspace
  closing,        \* the finalization queue is closing the container
  kept,           \* <turn>.replan-source and <turn>.retained
  job,            \* the runner's job on this project
  left            \* what is left of MaxTroubles

seriesVars == <<turns, closed, auto, known, container, closing, kept, job, left>>

store  == <<turns, closed, auto>>
disk   == <<container, known, closing, kept>>

\* An empty workspace; a workspace with an import that was not finished holds
\* the mark as well.
Empty == {0}
Whole(code) == 0 \notin code

NoRecovery == [state |-> "none", attempts |-> 0, waits |-> <<>>, code |-> Empty, child |-> 0]

\* stage: where a draft failed, before its call; "frozen" there, by a new wording
\* that touched more than the text; or "late", in the stage of the call.
Absent ==
  [status |-> "absent", category |-> First, root |-> 0,
   repairOf |-> 0, continues |-> 0, resumed |-> 0, planned |-> 0, gateway |-> FALSE, sent |-> FALSE, outcome |-> "none",
   permitted |-> TRUE, stage |-> "draft", archive |-> Empty, bugs |-> FALSE, disputed |-> FALSE,
   next |-> "none", finished |-> FALSE, excluded |-> FALSE,
   continuation |-> [state |-> "none", code |-> Empty], tries |-> 0,
   recovery |-> NoRecovery, work |-> "run", back |-> "none"]

Present == {t \in Turns : turns[t].status # "absent"}
Last == CHOOSE t \in Present : \A u \in Present : u <= t
Active == {"queued", "running"}
Pending == \E t \in Present : turns[t].status \in Active

NewQuestion(t, c, planned) ==
  [Absent EXCEPT !.status = "queued", !.category = c, !.root = t, !.planned = planned]
NewRepair(t, c) ==
  [Absent EXCEPT !.status = "queued", !.category = c, !.root = turns[t].root,
                 !.repairOf = t]

\* The same question, taken up where the gateway cut its answer off.
NewContinuation(t) ==
  [Absent EXCEPT !.status = "queued", !.category = turns[t].category,
                 !.root = turns[t].root, !.continues = t]

Independent(r) == r.repairOf = 0 /\ r.continues = 0

NoJob == [turn |-> 0, kind |-> "none", phase |-> "none", row |-> Absent, ok |-> FALSE,
          next |-> "none", category |-> First, inputs |-> <<>>]
JobFree  == job.turn = 0

------------------------------------------------------------------------------
\* What a project and a session may hold.

\* Independent questions that were sent, whatever became of them, or are to be.
Counted(c) ==
  {t \in Present : /\ Independent(turns[t]) /\ turns[t].category = c
                   /\ turns[t].sent \/ (turns[t].status \in Active /\ turns[t].work # "replan")}
Sent(c) == {t \in Counted(c) : turns[t].sent}

\* Mutant: what failed is not counted.
CanAddUnlessFailed(c) ==
  Cardinality({t \in Counted(c) : turns[t].outcome # "error"}) < Limit[c]

CanAdd(c) == Cardinality(Counted(c)) < Limit[c]

QuotaComplete == \A c \in Categories : Cardinality(Sent(c)) >= Limit[c]

Session(t) == {u \in Present : turns[u].root = turns[t].root}

\* A continuation is a call of its session but not one of its questions.
Questions(t) == {u \in Session(t) : turns[u].continues = 0}
RepairsIn(t) == {u \in Questions(t) : turns[u].repairOf # 0}
Calls(t) == {u \in Session(t) : turns[u].sent \/ turns[u].stage = "late"}

MaxLogicalTurns == 3
MaxBugRepairs == 2

\* A later question may follow a disputed one once its evaluation is kept.
DisputedReady(t) ==
  turns[t].disputed /\ turns[t].continuation.state \in {"ready", "planned", "continued"}
RecoveryReady(t) == turns[t].recovery.state = "continued"

BlocksProject(t) ==
  /\ turns[t].status = "failed" /\ ~turns[t].excluded
  /\ ~RecoveryReady(t) /\ turns[t].resumed = 0 /\ ~DisputedReady(t)

\* The rows with a job's result put in: what canRepair is asked about.
CanRepair(t, status) ==
  /\ ~closed /\ t = Last /\ ~turns[t].finished /\ ~turns[t].excluded
  /\ status = "review" \/ DisputedReady(t)
  /\ known.status = "running" /\ known.root = turns[t].root
  /\ Cardinality(Questions(t)) < MaxLogicalTurns
  /\ Cardinality(RepairsIn(t)) < MaxBugRepairs
  /\ Cardinality(Calls(t)) < MaxCalls
  /\ \A u \in Session(t) : turns[u].permitted

------------------------------------------------------------------------------
\* Which failures may be succeeded, and from what.

\* Only drafts that failed before the stage of the call.
UnsentFailure(t) ==
  turns[t].status = "failed" /\ ~turns[t].sent /\ turns[t].stage # "late"

\* Mutant: no draft is kept.
FrozenPreparationNever(t) == FALSE

\* frozenPreparationFailure: the draft is kept, to be prepared again.
FrozenPreparation(t) == UnsentFailure(t) /\ turns[t].stage = "frozen"

SessionPermitted(t) == \A u \in Session(t) : turns[u].permitted

Archived(t) == turns[t].status = "review" /\ turns[t].archive # Empty

GatewayFailed(row) == row.gateway /\ row.outcome = "error" /\ row.permitted

\* planGatewayContinuation: the answer was cut off at the gateway, and its
\* session is still there to go on in.
MayContinue(row) ==
  LET t == job.turn IN
  /\ ~closed /\ t = Last /\ ~row.excluded /\ GatewayFailed(row) /\ row.resumed = 0
  /\ \A u \in Present \ {t} : turns[u].status \notin Active
  /\ Cardinality(Calls(t)) < MaxCalls
  /\ known.status = "running" /\ known.root = row.root
  /\ \A u \in Session(t) : turns[u].permitted

\* gatewayContinuationContext: the turn before is still the one cut off.
Continues(t) ==
  LET p == turns[t].continues IN
  /\ p = t - 1 /\ turns[p].resumed = t
  /\ turns[p].status = "failed" /\ ~turns[p].excluded /\ GatewayFailed(turns[p])

\* A draft that failed before it had a container of its own: what the last
\* container held was completed and archived.
ArchivedPredecessor(t, unsent) ==
  LET earlier == {u \in Present : u < t /\ turns[u].root = container.root} IN
  /\ unsent /\ Independent(turns[t])
  /\ container.status = "removed" /\ earlier # {}
  /\ \E u \in earlier : /\ \A v \in earlier : v <= u
                        /\ Archived(u) /\ ~turns[u].excluded
  /\ \A u \in earlier : turns[u].permitted

\* A repair that was not sent before its session was closed.
ClosedRepairDraft(t, c) ==
  /\ UnsentFailure(t) /\ turns[t].repairOf # 0
  /\ c.status = "removed" /\ c.root = turns[t].root
  /\ LET parent == turns[turns[t].repairOf] IN
     parent.outcome = "complete" /\ parent.permitted /\ parent.archive # Empty

\* What a plan that could not even begin waits to see changed.
Conditions ==
  <<known.root, known.status,
    [t \in Present |-> <<turns[t].excluded, turns[t].sent, turns[t].outcome,
                         turns[t].permitted, turns[t].archive>>]>>

\* shouldFinishSession, asked of the last turn of a session that was scored.
NothingMayFollow(last) ==
  \/ closed \/ turns[last].excluded \/ turns[last].finished
  \/ Cardinality(Calls(last)) >= MaxCalls
  \/ Cardinality(Questions(last)) >= MaxLogicalTurns
  \/ turns[last].next = "ends"

\* sessionFinalization: the container's session is over.  A queued question of
\* its own does not keep its predecessor's container; a refused first draft gives
\* it up unless it is to be prepared again, a refused follow-up keeps it.
SessionOver ==
  LET session == {t \in Present : turns[t].root = container.root}
      last == CHOOSE t \in session : \A u \in session : u <= t
      r == turns[last] IN
  /\ \A t \in Present : turns[t].status # "running"
  /\ session # {} /\ \A t \in session : turns[t].status # "queued"
  /\ \/ closed
     \/ UnsentFailure(last) /\ Independent(r) /\ ~FrozenPreparation(last)
     \/ r.status = "failed" /\ r.outcome = "error"
     \/ r.status = "review" /\ (r.next \in {"goes", "advance"} \/ NothingMayFollow(last))

\* projectRecoveryDue.  An error comes with its ids and a verified export.
Due(t) ==
  LET r == turns[t] IN
  /\ ~closed /\ auto /\ ~QuotaComplete /\ ~Pending /\ t = Last
  /\ r.recovery.state # "continued" /\ r.resumed = 0
  /\ r.recovery.waits # Conditions /\ r.recovery.attempts < MaxPlans
  /\ \/ /\ UnsentFailure(t)
        /\ ClosedRepairDraft(t, known) \/ (r.repairOf = 0 /\ ~FrozenPreparation(t))
     \/ r.status = "failed" /\ r.outcome = "error"
     \/ r.status = "failed" /\ r.disputed /\ r.tries >= MaxRetries
     \/ r.status = "review" /\ ~r.excluded /\ ~r.bugs /\ r.next \in {"ends", "error"}

\* Mutant: only scored questions are looked at for the code to import.
ScoredQuestion(t) ==
  {u \in Present : u < t /\ ~turns[u].excluded /\ turns[u].status = "review"}

\* priorQuestionTurn
PriorQuestion(t) ==
  {u \in Present : u < t /\ ~turns[u].excluded
                     /\ (turns[u].status = "review" \/ DisputedReady(u))}

\* The last archive a failed question's successor may start from.
LastVerified(t) ==
  {u \in Present : /\ Archived(u) \/ (u = t /\ turns[u].back = "review")
                   /\ turns[u].archive # Empty /\ ~turns[u].excluded
                   /\ SessionPermitted(u)}

Latest(S) == CHOOSE u \in S : \A v \in S : v <= u

------------------------------------------------------------------------------
SeriesInit ==
  /\ turns = [t \in Turns |-> IF t = 1 THEN NewQuestion(1, First, 0) ELSE Absent]
  /\ closed = FALSE /\ auto = TRUE
  /\ container = [root |-> 0, status |-> "none", code |-> Empty, from |-> {}, imported |-> FALSE]
  /\ known = [root |-> 0, status |-> "none"]
  /\ closing = FALSE
  /\ kept = [kind \in {"replan", "retained"} |-> [t \in Turns |-> Empty]]
  /\ job = NoJob
  /\ left = MaxTroubles

Trouble == left > 0 /\ left' = left - 1
TroubleIf(unusual) == IF unusual THEN Trouble ELSE UNCHANGED left

------------------------------------------------------------------------------
\* The person.

EnqueueQuestion(c) ==
  /\ Trouble /\ ~closed /\ ~Pending /\ Last < MaxTurns
  /\ \A t \in Present : ~BlocksProject(t)
  /\ CanAdd(c)
  /\ turns' = [turns EXCEPT ![Last + 1] = NewQuestion(Last + 1, c, 0)]
  /\ UNCHANGED <<disk, closed, auto, job>>

EnqueueRepair ==
  /\ Trouble /\ ~closed /\ ~Pending /\ Last < MaxTurns
  /\ \A t \in Present : ~BlocksProject(t)
  /\ CanRepair(Last, turns[Last].status) /\ turns[Last].bugs
  /\ turns' = [turns EXCEPT ![Last + 1] = NewRepair(Last, First)]
  /\ UNCHANGED <<disk, closed, auto, job>>

\* A failed turn, or a scored one whose plan was blocked, is queued again: one
\* that was planned for, or that waits for a session that is gone, for another
\* plan, a disputed one for its follow-up, any other draft for its preparation,
\* the kept one always.
\* A plan that died goes on as it began unless a plan before it was blocked.
Retry ==
  LET t == Last
      r == turns[t]
      prepares == FrozenPreparation(t) /\ ~ClosedRepairDraft(t, known)
      anew == \/ ClosedRepairDraft(t, known)
              \/ r.recovery.state = "blocked" /\ ~r.disputed /\ ~prepares
      planning == anew \/ (r.work = "replan" /\ ~prepares) IN
  /\ Trouble /\ ~closed /\ ~Pending
  /\ \/ r.status = "failed" /\ (~r.sent \/ r.disputed \/ planning)
     \/ r.status = "review" /\ r.recovery.state = "blocked" /\ ~QuotaComplete /\ ~r.excluded
  /\ turns' = [turns EXCEPT ![t] = [r EXCEPT
       !.status = "queued",
       !.work = IF planning THEN "replan" ELSE IF r.disputed THEN "dispute" ELSE "run",
       !.stage = IF anew THEN r.stage ELSE "draft",
       !.back = IF anew THEN r.status ELSE r.back]]
  /\ UNCHANGED <<disk, closed, auto, job>>

RetryPlan ==
  LET r == turns[Last] IN
  /\ Trouble /\ ~closed /\ ~Pending
  /\ r.status = "review" /\ r.next = "error"
  /\ turns' = [turns EXCEPT ![Last] = [r EXCEPT !.status = "queued", !.work = "plan"]]
  /\ UNCHANGED <<disk, closed, auto, job>>

Exclude(t) ==
  /\ Trouble
  /\ turns[t].status \in {"review", "failed"} /\ ~turns[t].excluded
  /\ turns' = [turns EXCEPT ![t].excluded = TRUE]
  /\ UNCHANGED <<disk, closed, auto, job>>

SwitchAuto ==
  /\ Trouble
  /\ auto' = ~auto
  /\ UNCHANGED <<turns, closed, disk, job>>

------------------------------------------------------------------------------
\* Claims.

\* An evaluation that was disputed is tried again on its own.
RetriesItself(t) ==
  /\ ~closed /\ auto /\ ~Pending /\ t = Last
  /\ turns[t].status = "failed" /\ ~turns[t].excluded
  /\ turns[t].disputed /\ turns[t].tries < MaxRetries

Claim(t) ==
  LET r == turns[t]
      claimed ==
        CASE r.status = "queued" -> [r EXCEPT !.status = "running"]
          [] RetriesItself(t) ->
               [r EXCEPT !.status = "running", !.work = "dispute", !.tries = @ + 1]
          [] OTHER ->
               [r EXCEPT !.status = "running", !.work = "replan", !.back = r.status] IN
  /\ JobFree /\ ~closing /\ ~closed
  /\ r.status = "queued" \/ RetriesItself(t) \/ Due(t)
  /\ turns' = [turns EXCEPT ![t] = claimed]
  /\ job' = [NoJob EXCEPT !.turn = t, !.kind = claimed.work, !.phase = "begun",
                          !.row = claimed, !.inputs = Conditions]
  /\ UNCHANGED <<closed, auto, disk, left>>

------------------------------------------------------------------------------
\* A question: its container, its code, its call.

Runs(kind, phase) == job.kind = kind /\ job.phase = phase
To(phase) == [job EXCEPT !.phase = phase]
Done(row, ok, next) ==
  [job EXCEPT !.phase = "done", !.row = row, !.ok = ok, !.next = next]
Failed == [job EXCEPT !.phase = "done", !.ok = FALSE]

\* The last question's container is closed before this one's is created.
CloseForNext ==
  LET r == turns[job.turn] IN
  /\ Runs("run", "begun")
  /\ container.root # r.root /\ Independent(r) /\ container.status = "running"
  /\ \/ /\ container' = [container EXCEPT !.status = "removed"]
        /\ known' = [root |-> container.root, status |-> "removed"]
        /\ UNCHANGED <<job, left>>
     \/ /\ Trouble /\ job' = Failed
        /\ UNCHANGED <<container, known>>
  /\ UNCHANGED <<store, closing, kept>>

EnsureContainer ==
  LET r == turns[job.turn] IN
  /\ Runs("run", "begun")
  /\ \/ /\ container.root = r.root /\ container.status = "running" /\ SessionPermitted(job.turn)
        /\ job' = To("ensured")
        /\ UNCHANGED container
     \/ /\ container.root # r.root /\ Independent(r) /\ container.status # "running"
        /\ container' = [root |-> r.root, status |-> "running", code |-> Empty,
                         from |-> {}, imported |-> FALSE]
        /\ job' = To("ensured")
     \/ /\ \/ container.root # r.root /\ ~Independent(r)
           \/ container.root = r.root
                /\ ~(container.status = "running" /\ SessionPermitted(job.turn))
        /\ job' = Failed
        /\ UNCHANGED container
  /\ UNCHANGED <<store, known, closing, kept, left>>

\* What the next question starts from: the snapshot its plan was made on, or
\* what was archived, or retained, of the last question that counts.
SourceOf(t) ==
  LET p == turns[t].planned
      u == Latest(PriorQuestion(t)) IN
  CASE p # 0 ->
         [kind |-> "replan", turn |-> p, code |-> kept.replan[p],
          good |-> /\ RecoveryReady(p) /\ turns[p].recovery.child = t
                   /\ kept.replan[p] = turns[p].recovery.code]
    [] p = 0 /\ PriorQuestion(t) = {} ->
         [kind |-> "none", turn |-> 0, code |-> {}, good |-> TRUE]
    [] p = 0 /\ PriorQuestion(t) # {} /\ DisputedReady(u) ->
         [kind |-> "retained", turn |-> u, code |-> kept.retained[u],
          good |-> /\ SessionPermitted(u)
                   /\ kept.retained[u] = turns[u].continuation.code]
    [] OTHER ->
         [kind |-> "archive", turn |-> u, code |-> turns[u].archive,
          good |-> /\ SessionPermitted(u) /\ turns[u].archive # Empty]

\* The files are copied one by one into the new container's workspace, and the
\* container is published with them; a copy that was cut off goes on from the
\* same source only.  A follow-up has its code already, the first question starts
\* over a scaffold.
ImportSource ==
  LET t == job.turn
      source == SourceOf(t)
      has == ~Independent(turns[t]) \/ container.imported
      fits == source.good /\ (container.code = Empty \/ container.from = source.code) IN
  /\ Runs("run", "ensured")
  /\ \/ /\ has \/ source.kind = "none"
        /\ container' = [container EXCEPT !.code = IF @ = Empty THEN {} ELSE @]
        /\ known' = [root |-> container.root, status |-> "running"]
        /\ job' = To("draft")
     \/ /\ ~has /\ source.kind # "none" /\ ~fits
        /\ job' = Failed
        /\ UNCHANGED <<container, known>>
     \/ /\ ~has /\ source.kind # "none" /\ fits
        /\ container' = [container EXCEPT !.code = source.code \cup {0}, !.from = source.code]
        /\ job' = To("importing")
        /\ UNCHANGED known
  /\ UNCHANGED <<store, closing, kept, left>>

FinishImport ==
  /\ Runs("run", "importing")
  /\ container' = [container EXCEPT !.code = container.from, !.imported = TRUE]
  /\ known' = [root |-> container.root, status |-> "running"]
  /\ job' = To("draft")
  /\ UNCHANGED <<store, closing, kept, left>>

\* The quota of the category, or of the session, and what it continues are
\* looked at once more before the call.
MaySend(t) ==
  LET r == turns[t] IN
  /\ Independent(r) => Cardinality(Sent(r.category)) < Limit[r.category]
  /\ Cardinality(Calls(t)) < MaxCalls
  /\ r.continues # 0 => Continues(t)

\* The preparation or the audit of the wording refuses the draft, the check that
\* a new wording changed only the text, or, late, a last check before its call is
\* reserved.  A continuation has its wording already.
DraftRefused(stage) ==
  /\ Runs("run", "draft")
  /\ stage = "frozen" => turns[job.turn].continues = 0
  /\ TroubleIf(MaySend(job.turn))
  /\ job' = [Failed EXCEPT !.row.stage = stage]
  /\ UNCHANGED <<store, disk>>

\* The call is reserved at the store.
Send ==
  LET t == job.turn IN
  /\ Runs("run", "draft") /\ MaySend(t)
  /\ turns' = [turns EXCEPT ![t].sent = TRUE]
  /\ job' = [job EXCEPT !.phase = "sent", !.row.sent = TRUE]
  /\ UNCHANGED <<closed, auto, disk, left>>

\* The call leaves its changes in the workspace, completed, failed or cut off
\* at the gateway, and may have asked for a permission.
CallEnds(outcome, permitted) ==
  LET completed == outcome = "complete" /\ permitted
      row == [job.row EXCEPT !.outcome = IF completed THEN "complete" ELSE "error",
                             !.gateway = outcome = "gateway" /\ permitted,
                             !.permitted = permitted] IN
  /\ Runs("run", "sent")
  /\ TroubleIf(~completed)
  /\ container' = [container EXCEPT !.code = @ \cup {job.turn}]
  /\ job' = IF completed THEN [job EXCEPT !.phase = "answered", !.row = row]
            ELSE Done(row, FALSE, "none")
  /\ UNCHANGED <<store, known, closing, kept>>

------------------------------------------------------------------------------
\* The evaluation and what is decided to follow.

\* What the planner may answer, and what its checks make of it: a defect that
\* was reproduced comes first, and nothing new is built over it.
Decisions(bugs, repairable) ==
  IF ~bugs THEN {"advance", "ends", "error"}
  ELSE IF repairable THEN {"repair", "error"}
  ELSE {"ends", "error"}

Evaluate(bugs, next) ==
  LET row == [job.row EXCEPT !.bugs = bugs, !.archive = container.code] IN
  /\ Runs("run", "answered")
  /\ next \in IF auto THEN Decisions(bugs, CanRepair(job.turn, "review")) ELSE {"none"}
  /\ TroubleIf(bugs \/ next \in {"ends", "error"})
  /\ job' = Done(row, TRUE, next)
  /\ UNCHANGED <<store, disk>>

\* The audit after the answer disputes the question: no archive is made, and
\* what follows is planned on a copy of the code.
EvaluateDisputed(bugs) ==
  /\ Runs("run", "answered")
  /\ job' = [job EXCEPT !.kind = "dispute", !.phase = "begun",
                        !.row.bugs = bugs, !.row.disputed = TRUE]
  /\ Trouble
  /\ UNCHANGED <<store, disk>>

\* Only what follows is planned again.
PlanAgain(next) ==
  /\ Runs("plan", "begun")
  /\ next \in IF auto THEN Decisions(job.row.bugs, CanRepair(job.turn, "review")) ELSE {"error"}
  /\ TroubleIf(auto /\ next = "error")
  /\ job' = Done(job.row, TRUE, next)
  /\ UNCHANGED <<store, disk>>

------------------------------------------------------------------------------
\* planDisputedProject.

\* retainDisputedSource: the code and the citations, frozen once; later only
\* compared with the snapshot and with the workspace as it is.
RetainDisputed ==
  LET t == job.turn
      fits == \/ kept.retained[t] = Empty
              \/ kept.retained[t] = container.code IN
  /\ Runs("dispute", "begun")
  /\ IF /\ auto /\ container.root = turns[t].root /\ container.status = "running" /\ fits
     THEN /\ kept' = [kept EXCEPT !.retained[t] = container.code]
          /\ job' = [job EXCEPT !.phase = "retained",
               !.row.continuation = [state |-> "ready", code |-> container.code]]
     ELSE /\ job' = [Failed EXCEPT !.row.continuation.state = "blocked", !.next = "error"]
          /\ UNCHANGED kept
  /\ UNCHANGED <<store, container, known, closing, left>>

PlanDisputed(next) ==
  /\ Runs("dispute", "retained")
  /\ next \in Decisions(job.row.bugs, CanRepair(job.turn, "review"))
  /\ TroubleIf(next = "error")
  /\ job' = IF next = "error"
            THEN [Failed EXCEPT !.row.continuation.state = "blocked", !.next = "error"]
            ELSE [Done(job.row, FALSE, next) EXCEPT !.row.continuation.state = "planned"]
  /\ UNCHANGED <<store, disk>>

------------------------------------------------------------------------------
\* planFailedProject.

\* Blocked before a candidate was there: wait until something changes.
BlockedOnInputs == [Failed EXCEPT !.row.recovery.waits = job.inputs]

\* Mutant: a draft without a container of its own is not recognised.
IdentityOfOwn(t) == container.root = turns[t].root

\* A continuation that was never sent finds the calls of its session, which a
\* draft must not have made.
Identity(t) ==
  \/ container.root = turns[t].root /\ (turns[t].continues = 0 \/ turns[t].sent)
  \/ ArchivedPredecessor(t, ~turns[t].sent /\ job.row.back = "failed")

\* retainRecoverySource: the last archive, or else the idle workspace unless the
\* turn or its session asked for permissions; written once, verified later.
RetainSource ==
  LET t == job.turn
      prior == LastVerified(t)
      usable == prior # {} \/ (/\ container.code # Empty
                               /\ turns[t].sent => SessionPermitted(t))
      code == IF prior # {} THEN turns[Latest(prior)].archive ELSE container.code IN
  /\ Runs("replan", "begun")
  /\ \/ /\ Identity(t) /\ kept.replan[t] # Empty
        /\ job' = [job EXCEPT !.phase = "kept", !.row.recovery.code = kept.replan[t]]
        /\ UNCHANGED kept
     \/ /\ Identity(t) /\ kept.replan[t] = Empty /\ usable
        /\ kept' = [kept EXCEPT !.replan[t] = code]
        /\ job' = [job EXCEPT !.phase = "kept", !.row.recovery.code = code]
     \/ /\ \/ ~Identity(t)
           \/ kept.replan[t] = Empty /\ ~usable
        /\ job' = BlockedOnInputs
        /\ UNCHANGED kept
  /\ UNCHANGED <<store, container, known, closing, left>>

\* The failed question's container is exported and removed, its project kept.
CloseFailed ==
  /\ Runs("replan", "kept")
  /\ \/ /\ container' = [container EXCEPT !.status = "removed"]
        /\ known' = [root |-> container.root, status |-> "removed"]
        /\ job' = To("closed")
        /\ UNCHANGED left
     \/ /\ container.status = "running" /\ Trouble
        /\ job' = BlockedOnInputs
        /\ UNCHANGED <<container, known>>
  /\ UNCHANGED <<store, closing, kept>>

\* A candidate of a category with room, audited against the source it was
\* planned on; that source is verified once more.
PlanSuccessor(c, accepted) ==
  LET t == job.turn
      begins == auto /\ \E d \in Categories : CanAdd(d) IN
  /\ Runs("replan", "closed")
  /\ TroubleIf(begins /\ ~accepted)
  /\ \/ /\ begins /\ accepted /\ CanAdd(c) /\ Last < MaxTurns
        /\ job' = [Done(job.row, TRUE, "planned") EXCEPT !.category = c]
     \/ /\ begins /\ ~accepted /\ c = First
        /\ job' = [Failed EXCEPT !.row.recovery.waits = <<>>]
     \/ /\ ~begins /\ ~accepted /\ c = First
        /\ job' = BlockedOnInputs
  /\ UNCHANGED <<store, disk>>

------------------------------------------------------------------------------
\* The store takes a result.

ClosesWith(rows) ==
  /\ \A c \in Categories :
       Cardinality({t \in Turns : /\ rows[t].status # "absent" /\ Independent(rows[t])
                                  /\ rows[t].category = c /\ rows[t].sent}) >= Limit[c]
  /\ \A t \in Turns : rows[t].status \notin Active

\* nextDecision at the store, over the rows as they are now.
Follow(row, c) ==
  LET t == job.turn
      rest == [row EXCEPT !.next = job.next]
      goes == [row EXCEPT !.next = "goes",
                 !.continuation.state = IF @ = "planned" THEN "continued" ELSE @] IN
  IF job.next = "repair" /\ auto /\ CanRepair(t, "review") /\ t < MaxTurns
  THEN [turns EXCEPT ![t] = goes, ![t + 1] = NewRepair(t, First)]
  ELSE IF /\ job.next = "advance" /\ auto /\ CanAdd(c) /\ t < MaxTurns
          /\ ~(row.bugs /\ CanRepair(t, "review"))
  THEN [turns EXCEPT ![t] = goes, ![t + 1] = NewQuestion(t + 1, c, 0)]
  ELSE IF auto /\ row.bugs /\ job.next # "repair" /\ CanRepair(t, "review")
  THEN [turns EXCEPT ![t] = [rest EXCEPT !.next = "error"]]
  ELSE [turns EXCEPT ![t] =
         [rest EXCEPT !.finished = @ \/ (auto /\ job.next \notin {"none", "error"})]]

\* A turn that ran, or whose follow-up was planned again.
FinishTurn(c) ==
  LET t == job.turn
      row == [job.row EXCEPT !.work = "run", !.excluded = turns[t].excluded]
      failed == [row EXCEPT !.status = "failed"]
      rows == IF job.ok THEN Follow([row EXCEPT !.status = "review"], c)
              ELSE IF row.disputed /\ row.continuation.state = "planned"
              THEN Follow(failed, c)
              ELSE IF MayContinue(row) /\ t < MaxTurns
              THEN [turns EXCEPT ![t] = [failed EXCEPT !.resumed = t + 1],
                                 ![t + 1] = NewContinuation(t)]
              ELSE [turns EXCEPT ![t] = [failed EXCEPT !.next = job.next]] IN
  /\ job.phase = "done" /\ job.kind \in {"run", "plan", "dispute"}
  /\ job.next # "advance" => c = First
  /\ turns' = rows
  /\ closed' = (closed \/ ClosesWith(rows))
  /\ job' = NoJob
  /\ UNCHANGED <<auto, disk, left>>

\* A plan after a failure leaves the turn as it was, with what became of it.
FinishReplan ==
  LET t == job.turn
      done == [turns[t] EXCEPT !.status = job.row.back, !.work = "run", !.back = "none",
                               !.recovery = job.row.recovery,
                               !.recovery.attempts = @ + 1] IN
  /\ Runs("replan", "done")
  /\ turns' = IF job.ok
              THEN [turns EXCEPT
                     ![t] = [done EXCEPT !.recovery.state = "continued", !.recovery.child = t + 1],
                     ![t + 1] = NewQuestion(t + 1, job.category, t)]
              ELSE [turns EXCEPT ![t] = [done EXCEPT !.recovery.state = "blocked"]]
  /\ job' = NoJob
  /\ UNCHANGED <<closed, auto, disk, left>>

------------------------------------------------------------------------------
\* Finalization and deaths.

StartClosing ==
  /\ JobFree /\ ~closing
  /\ container.status = "running" /\ known.status = "running" /\ SessionOver
  /\ closing' = TRUE
  /\ UNCHANGED <<store, container, known, kept, job, left>>

\* What was planned is asked for once more before the end is sent; what changed
\* before keeps the container, what changes later does not.
EndClosing ==
  /\ closing
  /\ closing' = FALSE
  /\ \/ /\ container' = [container EXCEPT !.status = "removed"]
        /\ known' = [root |-> container.root, status |-> "removed"]
     \/ /\ ~SessionOver
        /\ UNCHANGED <<container, known>>
  /\ UNCHANGED <<store, kept, job, left>>

\* The runner dies: what has an answer is queued again, a draft or a plan
\* without one has failed, late if the call's or the planner's stage had begun.
\* What dies between a call and its result is resumed where it was.
Crash(late) ==
  LET t == job.turn
      r == turns[t] IN
  /\ ~JobFree /\ job.phase # "done" /\ (r.sent => r.outcome # "none") /\ Trouble
  /\ late => ~r.sent /\ job.phase \in {"draft", "closed"}
  /\ turns' = [turns EXCEPT
       ![t].status = IF r.outcome = "complete" THEN "queued" ELSE "failed",
       ![t].stage = IF late \/ (@ = "late" /\ job.kind = "replan")
                    THEN "late" ELSE "draft"]
  /\ job' = NoJob
  /\ UNCHANGED <<closed, auto, disk>>

Stages == {"draft", "frozen", "late"}
Answers == {"none", "error", "ends", "repair", "advance"}

JobStep ==
  \/ \E t \in Present : Claim(t)
  \/ CloseForNext \/ EnsureContainer \/ ImportSource \/ FinishImport
  \/ Send
  \/ \E stage \in Stages : DraftRefused(stage)
  \/ \E outcome \in {"complete", "error", "gateway"}, permitted \in BOOLEAN : CallEnds(outcome, permitted)
  \/ \E bugs \in BOOLEAN, next \in Answers : Evaluate(bugs, next)
  \/ \E bugs \in BOOLEAN : EvaluateDisputed(bugs)
  \/ \E next \in Answers : PlanAgain(next) \/ PlanDisputed(next)
  \/ RetainDisputed \/ RetainSource \/ CloseFailed
  \/ \E c \in Categories, accepted \in BOOLEAN : PlanSuccessor(c, accepted)
  \/ \E c \in Categories : FinishTurn(c)
  \/ FinishReplan

Person ==
  \/ \E c \in Categories : EnqueueQuestion(c)
  \/ EnqueueRepair \/ Retry \/ RetryPlan \/ SwitchAuto
  \/ \E t \in Present : Exclude(t)

SeriesNext ==
  \/ JobStep \/ Person
  \/ StartClosing \/ EndClosing
  \/ \E late \in BOOLEAN : Crash(late)

\* The runner keeps claiming, and its jobs and closes end.
Fairness == WF_seriesVars(JobStep \/ EndClosing)

SeriesSpec == SeriesInit /\ [][SeriesNext]_seriesVars /\ Fairness

------------------------------------------------------------------------------
TypeOK ==
  /\ \A t \in Turns :
       LET r == turns[t] IN
       /\ r.status \in {"absent", "queued", "running", "review", "failed"}
       /\ r.root \in 0 .. t /\ r.repairOf \in 0 .. (t - 1) /\ r.continues \in 0 .. (t - 1) /\ r.planned \in 0 .. (t - 1)
       /\ r.outcome \in {"none", "complete", "error"}
       /\ r.archive \subseteq 0 .. t /\ r.work \in {"run", "plan", "dispute", "replan"}
       /\ r.back \in {"none", "review", "failed"}
  /\ container.root \in 0 .. MaxTurns /\ container.code \subseteq 0 .. MaxTurns
  /\ container.status \in {"none", "running", "removed"}
  /\ known.status \in {"none", "running", "removed"}
  /\ job.turn \in 0 .. MaxTurns
  /\ closing => JobFree

\* A question is sent over whole code that holds what every question before it
\* that still counts has achieved, a disputed one included unless a question
\* since was planned after a failure, and nothing of a session that asked for a
\* permission: whichever snapshot it came from, and through deaths in between.
\* Save for a copy that was cut off and is not recognised as one: its question
\* was excluded since, or a plan found no archive to take instead.
StartsFromSoundWork ==
  [][\A t \in Present :
       LET counts(u) == /\ ~turns[u].excluded /\ SessionPermitted(u)
                        /\ Archived(u) \/ (DisputedReady(u)
                                           /\ \A v \in (u + 1) .. t : turns[v].planned = 0)
           cutOff == \/ PriorQuestion(t) = {} \/ ~Independent(turns[t])
                     \/ ~Whole(container.from) IN
       ~turns[t].sent /\ turns'[t].sent =>
         /\ Whole(container.code) \/ cutOff
         /\ \A u \in Present : u < t /\ counts(u) => u \in container.code
         /\ \A u \in container.code \ {0} : SessionPermitted(u)]_seriesVars

\* What was sent and what is about to be sent stays within the questions of its
\* category and within three questions, two repairs and the calls of a session,
\* whoever adds them: a decision, a plan after a failure or a dispute, a
\* continuation, or a person.
LimitsKept ==
  /\ \A c \in Categories : Cardinality(Counted(c)) <= Limit[c]
  /\ \A t \in Present :
       /\ Cardinality(Questions(t)) <= MaxLogicalTurns
       /\ Cardinality(RepairsIn(t)) <= MaxBugRepairs
       /\ Cardinality({u \in Session(t) : turns[u].sent}) <= MaxCalls

\* A draft that failed by its new wording alone is to be prepared again where it
\* is: neither a plan nor a finalization, decided on whatever they read before,
\* takes its container away while it is the last one, through deaths, exclusions
\* and closes that fail ("Closing it here makes the normal retry impossible.",
\* session-finalization.mjs:35).
KeptDraftHasContainer ==
  \A t \in Present :
    t = Last /\ UnsentFailure(t) /\ turns[t].stage = "frozen" /\ ~closed
    => container.root = turns[t].root /\ container.status = "running"

\* The last question failed, or was refused, and the project goes on.
Owed ==
  LET r == turns[Last] IN
  /\ Last < MaxTurns
  /\ r.status = "failed"
  /\ \/ ~r.sent /\ Independent(r)
     \/ ClosedRepairDraft(Last, container)
     \/ r.outcome = "error"
  /\ ~closed /\ auto /\ ~QuotaComplete

\* What a plan may have to wait for: the container of another question
\* that is not archived, one that could not be closed, automation that was off
\* when the plan was to begin, nothing to start from; and what failed late, and a
\* draft that is kept to be prepared again, wait for a person.
Hindered(t) ==
  \/ turns[t].stage = "late"
  \/ FrozenPreparation(t) /\ turns[t].repairOf = 0
  \/ turns[t].recovery.code # Empty /\ turns[t].recovery.waits = Conditions
  \/ container.root # turns[t].root /\ ~ArchivedPredecessor(t, TRUE)
  \/ container.code = Empty \/ ~SessionPermitted(t)

\* A failed call or a refused draft does not end its project: a successor is
\* planned, unless plans were refused as often as they may be.
FailureSucceeded ==
  Owed ~> (~Owed \/ turns[Last].recovery.attempts >= MaxPlans \/ Hindered(Last))
=============================================================================
