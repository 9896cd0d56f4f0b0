-------------------------------- MODULE Supply --------------------------------
(***************************************************************************)
(* Automatic supply: the runner's main loop asks for the supply context    *)
(* and, when a project is missing, lets a replenisher (scripts/supply-     *)
(* worker.mjs) draft a question, have it generated, worded once more if    *)
(* the audit asks for it, audited, kept as pending and enqueued at the     *)
(* store by enqueue-auto (app/api/runner/route.ts).  Requests may be lost  *)
(* or answered late, the runner may die at any point, and users and other  *)
(* jobs change the store meanwhile.                                        *)
(***************************************************************************)
EXTENDS Sequences, FiniteSets, CodexProcess

CONSTANTS
    Candidates,     \* what a generation may come up with, by title
    Misfits,        \* of these, those that are no first question of a project
    Repos,          \* the repositories questions are drafted from
    Buffer,         \* candidateBuffer: queued turns that are enough
    DailyLimit, RecentFailures,
    MaxDrafts, MaxTasks, MaxRules, MaxEdits, MaxMishaps     \* bounds

(* What the calls for a draft ask: the audit's prompt holds the history,   *)
(* as long as the tasks were many when the context was read.               *)
SupplyInputs == {<<"generate">>, <<"wording">>}
                \cup ({"policy"} \X BOOLEAN \X (0 .. MaxTasks))

ASSUME SupplyAssumption ==
    /\ Misfits \subseteq Candidates /\ SupplyInputs \subseteq Inputs
    /\ {Buffer, DailyLimit, RecentFailures, MaxDrafts, MaxTasks, MaxRules,
        MaxEdits, MaxMishaps} \subseteq Nat

VARIABLES
    tasks,      \* the store's tasks, in the order of their creation
    config,     \* the scheduler's configuration
    rules,      \* the version of the question rules that is deployed
    handlers,   \* the enqueue requests the store works on
    at,         \* where the replenisher is
    ctx,        \* the supply context the loop read
    supply,     \* supply/state.json
    drafts,     \* drafts made so far
    edits, mishaps      \* changes of the configuration; crashes and failures

process == <<receipts, call, living>>
store == <<tasks, config, rules>>
vars == <<tasks, config, rules, handlers, at, ctx, supply, drafts, edits, mishaps, process>>

Handlers == 1 .. 2
NoHandler == [at |-> "none"]
NoDraft == [id |-> 0, repo |-> "none", generated |-> "none", wording |-> "no",
            pending |-> FALSE, rule |-> 0]

-----------------------------------------------------------------------------
(* What the store says of its tasks.                                       *)

Count(test(_)) == Cardinality({n \in DOMAIN tasks : test(tasks[n])})
Queued == Count(LAMBDA t : t.status = "queued")
Unfinished == Count(LAMBDA t : t.status # "complete")
GeneratedToday == Count(LAMBDA t : t.draft > 0)

ProjectLimit(concurrency) == IF concurrency < 3 THEN concurrency ELSE 3

(* A task was made of this text already: its fingerprint.                  *)
NeverCreated(s) == FALSE        \* mutant: repeated requests are not recognised
Created(s) == \E n \in DOMAIN tasks : tasks[n].draft > 0 /\ tasks[n].mark = s.mark

(* The last automatic tasks all failed.                                    *)
Failing ==
    LET auto == SelectSeq(tasks, LAMBDA t : t.draft > 0)
    IN  /\ Len(auto) >= RecentFailures
        /\ \A n \in Len(auto) - RecentFailures + 1 .. Len(auto) : auto[n].status = "failed"

(* supplyDecision of the context, its times and the authentication apart.  *)
Wanted ==
    /\ config.enabled /\ config.repos # {}
    /\ Unfinished < ProjectLimit(config.concurrency)
    /\ GeneratedToday < DailyLimit /\ Queued < Buffer /\ ~Failing

Context == [wanted |-> Wanted, history |-> {tasks[n].mark[1] : n \in DOMAIN tasks},
            size |-> Len(tasks), repos |-> config.repos]
NoContext == [wanted |-> FALSE, history |-> {}, size |-> 0, repos |-> {}]

-----------------------------------------------------------------------------
Titles == Candidates \cup {"none", "manual"}
Tasks == [mark : Titles \X BOOLEAN, draft : Nat,
          status : {"queued", "going", "complete", "failed"}]
Requests == [at : {"arrived", "insert"}, draft : Nat, repo : Repos \cup {"none"},
             mark : Titles \X BOOLEAN, rule : Nat, fresh : BOOLEAN, concurrency : Nat]
Drafts == [id : Nat, repo : Repos \cup {"none"}, generated : Candidates \cup {"none"},
           wording : {"no", "asked", "done"}, pending : BOOLEAN, rule : Nat]
Places == [step : {"off", "idle", "ready"}] \cup [step : {"working"}, pin : Nat]
          \cup [step : {"sending"}, to : Handlers]

SupplyTypeOK ==
    /\ tasks \in Seq(Tasks) /\ Len(tasks) <= MaxTasks
    /\ config \in [enabled : BOOLEAN, repos : SUBSET Repos, concurrency : Nat]
    /\ {rules, drafts, edits, mishaps} \subseteq Nat
    /\ handlers \in [Handlers -> Requests \cup {NoHandler}]
    /\ at \in Places
    /\ ctx.size \in 0 .. MaxTasks /\ ctx.repos \subseteq Repos
    /\ supply \in [draft : Drafts, auth : BOOLEAN]
    /\ ProcessTypeOK

Init ==
    /\ tasks = <<>> /\ rules = 1
    /\ config = [enabled |-> TRUE, repos |-> Repos, concurrency |-> 2]
    /\ handlers = [h \in Handlers |-> NoHandler]
    /\ at = [step |-> "idle"] /\ ctx = NoContext
    /\ supply = [draft |-> NoDraft, auth |-> FALSE]
    /\ drafts = 0 /\ edits = 0 /\ mishaps = 0
    /\ ProcessInit

(* The handlers that have read the tasks find them changed.                *)
Stale(h) == IF handlers[h] = NoHandler THEN NoHandler ELSE [handlers[h] EXCEPT !.fresh = FALSE]
TasksChange(ts) == tasks' = ts /\ handlers' = [h \in Handlers |-> Stale(h)]

-----------------------------------------------------------------------------
(* The main loop: a context is read, and other awaits pass before it is    *)
(* used.  Each replenishment is pinned to the release of that moment.      *)

Idle == at' = [step |-> "idle"]
Free == /\ call' = NoCall /\ UNCHANGED <<receipts, living>>

ReadContext ==
    /\ at.step = "idle"
    /\ at' = [step |-> "ready"] /\ ctx' = Context
    /\ UNCHANGED <<store, handlers, supply, drafts, edits, mishaps, process>>

(* canReplenish, then a new draft unless one is kept.                      *)
Replenish ==
    /\ at.step = "ready"
    /\ IF ctx.wanted /\ ~supply.auth
       THEN /\ at' = [step |-> "working", pin |-> rules]
            /\ IF supply.draft.id # 0
               THEN UNCHANGED <<supply, drafts, process>>
               ELSE /\ drafts < MaxDrafts
                    /\ drafts' = drafts + 1
                    /\ \E r \in ctx.repos :
                          supply' = [supply EXCEPT !.draft =
                                         [NoDraft EXCEPT !.id = drafts + 1, !.repo = r]]
                    /\ receipts' = NoReceipts /\ living' = NoProcesses /\ UNCHANGED call
       ELSE Idle /\ UNCHANGED <<supply, drafts, process>>
    /\ UNCHANGED <<store, handlers, ctx, edits, mishaps>>

-----------------------------------------------------------------------------
(* The replenisher.  What it does next follows from what it has saved.     *)

d == supply.draft
Mark == <<d.generated, d.wording = "done">>
Unfit == d.generated \in Misfits \/ d.generated \in ctx.history
KeepsDraft(s) == s      \* mutant: a refused draft is kept
WithoutDraft(s) == [s EXCEPT !.draft = NoDraft]

Drop == Idle /\ supply' = WithoutDraft(supply) /\ Free

NextInput == IF d.generated = "none" THEN <<"generate">>
             ELSE IF d.wording = "asked" THEN <<"wording">>
             ELSE <<"policy", d.wording = "done", ctx.size>>

Checked == at.step = "working" /\ ~d.pending /\ (d.generated # "none" => ~Unfit)
Quiet == UNCHANGED <<store, handlers, ctx, drafts, edits>>

(* rejectDraft: not a first question, or a title of the history.           *)
RejectUnfit ==
    /\ at.step = "working" /\ ~d.pending /\ call = NoCall
    /\ d.generated # "none" /\ Unfit
    /\ Drop /\ Quiet /\ UNCHANGED mishaps

Evaluate ==
    /\ Checked /\ Launch(NextInput)
    /\ Quiet /\ UNCHANGED <<at, supply, mishaps>>

(* The evaluator refuses to be started: the draft is kept for later.       *)
EvaluateRefused ==
    /\ Checked /\ call = NoCall /\ Refused(NextInput)
    /\ Idle /\ Quiet /\ UNCHANGED <<supply, mishaps, process>>

Save(draft) == supply' = [supply EXCEPT !.draft = draft]

Generated ==
    /\ call.at = "answered" /\ call.input = <<"generate">>
    /\ \E c \in Candidates : Save([d EXCEPT !.generated = c])
    /\ Free /\ Quiet /\ UNCHANGED <<at, mishaps>>

Worded ==
    /\ call.at = "answered" /\ call.input = <<"wording">>
    /\ Save([d EXCEPT !.wording = "done"])
    /\ Free /\ Quiet /\ UNCHANGED <<at, mishaps>>

(* The audit accepts, asks for other words, once, or refuses.              *)
AuditAccepts ==
    /\ call.at = "answered" /\ call.input[1] = "policy"
    /\ Save([d EXCEPT !.pending = TRUE, !.rule = at.pin])
    /\ Free /\ Quiet /\ UNCHANGED <<at, mishaps>>

AuditAsksWording ==
    /\ call.at = "answered" /\ call.input[1] = "policy" /\ d.wording = "no"
    /\ Save([d EXCEPT !.wording = "asked"])
    /\ Free /\ Quiet /\ UNCHANGED <<at, mishaps>>

AuditRefuses ==
    /\ call.at = "answered" /\ call.input[1] = "policy"
    /\ Drop /\ Quiet /\ UNCHANGED mishaps

(* An evaluator that failed, or whose answer cannot be used: supplyFailure *)
(* keeps the draft; an authentication failure pauses the supply.           *)
EvaluationFails ==
    /\ call.at \in {"failed", "answered"}
    /\ call.at = "answered" => mishaps < MaxMishaps
    /\ mishaps' = IF call.at = "answered" THEN mishaps + 1 ELSE mishaps
    /\ \E auth \in {FALSE, call.at = "failed"} : supply' = [supply EXCEPT !.auth = auth]
    /\ Idle /\ Free /\ Quiet

CredentialsChange ==
    /\ supply.auth /\ supply' = [supply EXCEPT !.auth = FALSE]
    /\ Quiet /\ UNCHANGED <<at, mishaps, process>>

(* A pending candidate audited under other rules is given up.              *)
RulesOutdated ==
    /\ at.step = "working" /\ d.pending /\ d.rule # at.pin
    /\ Drop /\ Quiet /\ UNCHANGED mishaps

Enqueue ==
    /\ at.step = "working" /\ d.pending /\ d.rule = at.pin
    /\ \E k \in Handlers : handlers[k] = NoHandler
    /\ LET h == CHOOSE k \in Handlers : handlers[k] = NoHandler IN
          /\ handlers' = [handlers EXCEPT ![h] =
                 [at |-> "arrived", draft |-> d.id, repo |-> d.repo, mark |-> Mark,
                  rule |-> d.rule, fresh |-> FALSE, concurrency |-> 1]]
          /\ at' = [step |-> "sending", to |-> h]
    /\ UNCHANGED <<store, ctx, supply, drafts, edits, mishaps, process>>

(* The request or its answer is lost; the store may still work on it.      *)
GiveUp ==
    /\ at.step = "sending" /\ mishaps < MaxMishaps
    /\ mishaps' = mishaps + 1
    /\ handlers' \in {handlers, [handlers EXCEPT ![at.to] =
                                     IF @.at = "arrived" THEN NoHandler ELSE @]}
    /\ Idle /\ UNCHANGED <<store, ctx, supply, drafts, edits, process>>

-----------------------------------------------------------------------------
(* enqueue-auto.  Any answer but an error settles the candidate.           *)

Answer(h, settled) ==
    IF at.step = "sending" /\ at.to = h
    THEN Idle /\ supply' = IF settled THEN [WithoutDraft(supply) EXCEPT !.auth = FALSE]
                                      ELSE supply
    ELSE UNCHANGED <<at, supply>>

NotNeeded == ~config.enabled \/ Unfinished >= ProjectLimit(config.concurrency)

HandlerAnswers(h) ==
    /\ handlers[h].at = "arrived"
    /\ LET r == handlers[h] IN
          \/ (Created(r) \/ NotNeeded) /\ Answer(h, TRUE)
          \/ ~(Created(r) \/ NotNeeded) /\ (r.repo \notin config.repos \/ r.rule # rules) /\ Answer(h, FALSE)
    /\ handlers' = [handlers EXCEPT ![h] = NoHandler]
    /\ UNCHANGED <<store, ctx, drafts, edits, mishaps, process>>

HandlerReads(h) ==
    /\ handlers[h].at = "arrived"
    /\ ~Created(handlers[h]) /\ ~NotNeeded
    /\ handlers[h].repo \in config.repos /\ handlers[h].rule = rules
    /\ handlers' = [handlers EXCEPT ![h].at = "insert", ![h].fresh = TRUE,
                                    ![h].concurrency = config.concurrency]
    /\ UNCHANGED <<store, at, ctx, supply, drafts, edits, mishaps, process>>

(* The guarded INSERT: nothing has changed since the tasks were read.      *)
AssumesUnchanged(r) == TRUE     \* mutant: the revisions are not compared
Unchanged(r) == r.fresh

Insertable(r) ==
    /\ Queued < Buffer /\ ~Created(r) /\ GeneratedToday < DailyLimit
    /\ config.enabled /\ Unchanged(r)

HandlerInserts(h) ==
    /\ handlers[h].at = "insert"
    /\ LET r == handlers[h] IN
          IF Insertable(r)
          THEN /\ Len(tasks) < MaxTasks
               /\ tasks' = Append(tasks, [mark |-> r.mark, draft |-> r.draft, status |-> "queued"])
               /\ handlers' = [k \in Handlers |-> IF k = h THEN NoHandler ELSE Stale(k)]
          ELSE UNCHANGED tasks /\ handlers' = [handlers EXCEPT ![h] = NoHandler]
    /\ Answer(h, TRUE)
    /\ UNCHANGED <<config, rules, ctx, drafts, edits, mishaps, process>>

-----------------------------------------------------------------------------
(* Users, other jobs, releases and crashes.                                *)

Others == UNCHANGED <<config, rules, at, ctx, supply, drafts, mishaps, process>>

AddManual ==
    /\ Len(tasks) < MaxTasks /\ edits < MaxEdits
    /\ TasksChange(Append(tasks, [mark |-> <<"manual", FALSE>>, draft |-> 0, status |-> "queued"]))
    /\ edits' = edits + 1 /\ Others

Moves == [queued |-> {"going"}, going |-> {"queued", "complete", "failed"},
          failed |-> {"queued", "complete"}, complete |-> {}]

TaskMoves(n) ==
    /\ n \in DOMAIN tasks
    /\ \E s \in Moves[tasks[n].status] : TasksChange([tasks EXCEPT ![n].status = s])
    /\ Others /\ UNCHANGED edits

SaveConfig ==
    /\ edits < MaxEdits
    /\ config' \in [enabled : BOOLEAN, repos : SUBSET Repos, concurrency : {1, 2}] \ {config}
    /\ edits' = edits + 1
    /\ UNCHANGED <<tasks, rules, handlers, at, ctx, supply, drafts, mishaps, process>>

NewRules ==
    /\ rules < MaxRules /\ rules' = rules + 1
    /\ UNCHANGED <<tasks, config, handlers, at, ctx, supply, drafts, edits, mishaps, process>>

EvaluatorFails ==
    /\ mishaps < MaxMishaps /\ mishaps' = mishaps + 1
    /\ ExitBadly /\ Quiet /\ UNCHANGED <<at, supply>>

EvaluatorMoves ==
    /\ ProcessStep \/ \E i \in Inputs : ExitUnheard(i)
    /\ Quiet /\ UNCHANGED <<at, supply, mishaps>>

Crash ==
    /\ at.step # "off" /\ mishaps < MaxMishaps
    /\ mishaps' = mishaps + 1
    /\ at' = [step |-> "off"] /\ ctx' = NoContext /\ Outlive
    /\ UNCHANGED <<store, handlers, supply, drafts, edits>>

Start ==
    /\ at.step = "off" /\ Idle
    /\ UNCHANGED <<store, handlers, ctx, supply, drafts, edits, mishaps, process>>

-----------------------------------------------------------------------------
RunnerStep == \/ Start \/ ReadContext \/ Replenish \/ RejectUnfit \/ Evaluate
              \/ EvaluateRefused \/ Generated \/ Worded \/ AuditAccepts
              \/ AuditAsksWording \/ AuditRefuses \/ RulesOutdated \/ Enqueue
              \/ call.at = "failed" /\ EvaluationFails

HandlerStep(h) == HandlerAnswers(h) \/ HandlerReads(h) \/ HandlerInserts(h)

Next == \/ RunnerStep \/ EvaluationFails \/ CredentialsChange \/ GiveUp
        \/ \E h \in Handlers : HandlerStep(h)
        \/ AddManual \/ \E n \in 1 .. MaxTasks : TaskMoves(n)
        \/ SaveConfig \/ NewRules \/ EvaluatorFails \/ EvaluatorMoves \/ Crash

Spec == Init /\ [][Next]_vars

(* The loop and its evaluator keep running, a service restarts the runner, *)
(* and the store ends its handlers.                                        *)
FairSpec ==
    /\ Spec /\ WF_vars(RunnerStep) /\ WF_vars(EvaluatorMoves)
    /\ \A h \in Handlers : WF_vars(HandlerStep(h))

-----------------------------------------------------------------------------
(* Properties.                                                             *)

(* A draft becomes at most one task, although its request is repeated      *)
(* after a lost answer, by the next runner, or beside a handler that still *)
(* works on the first one.                                                 *)
DraftCreatesOnce ==
    \A m, n \in DOMAIN tasks : tasks[m].draft = tasks[n].draft /\ tasks[m].draft > 0 => m = n

(* A task is created only into a gap: at its insertion the supply is on,   *)
(* and queue, day and projects (for the concurrency that was read) have    *)
(* room, whatever users, other jobs and other requests did since.          *)
FillsGapOnly ==
    [][\A h \in Handlers :
          HandlerInserts(h) /\ tasks' # tasks =>
             /\ config.enabled /\ Queued < Buffer /\ GeneratedToday < DailyLimit
             /\ Unfinished < ProjectLimit(handlers[h].concurrency)]_vars

(* No evaluation of one input is paid twice at a time: no second process   *)
(* gets a prompt while an earlier one, perhaps of a runner that died, is   *)
(* still at it.                                                            *)
OneProcess == \A i \in Inputs : living[i] <= 1

(* A draft is settled - enqueued, skipped, refused or outdated - unless    *)
(* supply is held: not wanted, without credentials, of a repository that   *)
(* was taken out of the scope, or before a receipt whose trace is torn.    *)
Held == ~Wanted \/ supply.auth \/ d.repo \notin config.repos \/ (\E i \in Inputs : Torn(i))
CandidateSettles == \A k \in 1 .. MaxDrafts : d.id = k ~> (d.id # k \/ Held)

=============================================================================
