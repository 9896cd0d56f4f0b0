------------------------------- MODULE SelfHeal -------------------------------
(***************************************************************************)
(* Self-heal's controller (scripts/self-heal.mjs, lib/self-heal.mjs) and   *)
(* its repair worker (scripts/self-heal-repair.mjs).  A tick observes the  *)
(* turns that failed, keeps an incident for each, goes on with the one job *)
(* it holds, and starts at most one action: a guarded retry of a failed    *)
(* transport, a known recovery, or a diagnosis by a worker process, which  *)
(* is repeated once as an escalation.  Requests change the store; state    *)
(* and jobs are files, and the controller may die between any two steps.   *)
(* How a repair is released is SelfRelease; here it ends one way or other. *)
(***************************************************************************)
EXTENDS Integers, Sequences, FiniteSets

CONSTANTS
    Faults,     \* the turns that fail, each with its incident
    Transport,  \* those that failed in transport
    Known,      \* those a known recovery applies to
    Retryable,  \* those the store may be asked to retry: recoveryAction
    Alike,      \* those with one and the same fault signature
    MaxJobs, MaxReleases, MaxChanges, MaxMishaps     \* bounds

JobNumbers == 1 .. MaxJobs

ASSUME SelfHealAssumption ==
    /\ Transport \subseteq Retryable /\ Known \subseteq Retryable
    /\ Retryable \subseteq Faults /\ Alike \subseteq Faults
    /\ {MaxJobs, MaxReleases, MaxChanges, MaxMishaps} \subseteq Nat

VARIABLES
    turn,     \* the store: whether the turn failed, is moving, delivered,
              \* or is kept from recovery by a person
    ev,       \* a number for the evidence of the fault: inputs, trace, report
    rev,      \* a number for the release new jobs load
    incident, \* state.incidents: state, directRetryAt, jobId and the
              \* conditions of fixedRecoveries
    rows,     \* state.jobs
    activeJob,\* state.activeJob, 0 for none
    file,     \* the job.json of activeJob: its state and its action
    worker,   \* the worker process of activeJob
    stage,    \* where the controller is, with the incident it works on
    sent,     \* history: the requests that reached the store, by purpose
    resent,   \* history: those that reached it more than once
    mishaps   \* deaths of the controller or a worker, ticks that came before a
              \* worker had written its pid, and what a person supplies

healVars == <<turn, ev, rev, incident, rows, activeJob, file, worker, stage,
              sent, resent, mishaps>>
store == <<turn, ev, sent, resent>>
jobs == <<rows, activeJob, file, worker>>

IncidentStates == {"none", "ready", "repairing", "deploying", "verifying",
                   "escalation_ready", "needs_input", "resolved"}
Unsuccessful == {"failed", "needs_input", "uncertain", "retry_intent"}
Terminal == {"published", "retried"} \cup Unsuccessful
Conditions == (0 .. MaxChanges) \X (0 .. MaxReleases)

SelfHealTypeOK ==
    /\ turn \in [Faults -> {"failed", "moving", "delivered", "held"}]
    /\ ev \in [Faults -> 0 .. MaxChanges] /\ rev \in 0 .. MaxReleases
    /\ incident \in [Faults -> [state : IncidentStates, direct : BOOLEAN,
                                job : 0 .. MaxJobs, fixed : SUBSET Conditions]]
    /\ rows \in Seq([fault : Faults, cond : Conditions,
                     mode : {"repair", "escalation"},
                     state : Terminal \cup {"running", "resolved"}])
    /\ activeJob \in 0 .. MaxJobs
    /\ file \in [state : Terminal \cup {"none", "running", "ready"},
                          action : {"none", "retry", "publish"}]
    /\ worker \in {"none", "starting", "working", "child", "gone"}

NoFile == [state |-> "none", action |-> "none"]

HealInit ==
    /\ turn \in [Faults -> {"failed", "delivered"}] /\ ev = [f \in Faults |-> 0] /\ rev = 0
    /\ incident = [f \in Faults |-> [state |-> "none", direct |-> FALSE,
                                     job |-> 0, fixed |-> {}]]
    /\ rows = <<>> /\ activeJob = 0
    /\ file = NoFile
    /\ worker = "none"
    /\ stage = <<"idle">> /\ sent = {} /\ resent = {}
    /\ mishaps = 0

-----------------------------------------------------------------------------
(* What the rules of lib/self-heal.mjs read.                               *)

Cond(f) == <<ev[f], rev>>           \* selfHealConditions
Evidence(r) == r.cond[1]            \* recoveryEvidenceKey: without the release
RowsOf(rs, f) == {rs[n] : n \in {m \in DOMAIN rs : rs[m].fault = f}}

(* Nothing is reopened by a release alone once a diagnosis of the same     *)
(* evidence said that it needs input.                                      *)
InputBlockedNever(rs, f) == FALSE       \* mutant: a release reopens it

InputBlocked(rs, f) ==
    \E r \in RowsOf(rs, f) : r.state = "needs_input" /\ Evidence(r) = ev[f]

FailedAlready(rs, f) ==
    {r \in RowsOf(rs, f) : /\ r.state \in Unsuccessful
                           /\ \/ r.cond = Cond(f)
                              \/ InputBlocked(rs, f) /\ Evidence(r) = ev[f]}

ReviewMode(rs, f) ==
    CASE \E r \in FailedAlready(rs, f) : r.mode = "escalation" -> "none"
      [] FailedAlready(rs, f) = {} -> "repair"
      [] OTHER -> "escalation"

Action(f) == f \in Retryable /\ turn[f] = "failed"      \* recoveryAction

(* Another incident of the same signature has work that is going on or has *)
(* ended well: it is waited for.                                           *)
BehindAlike(f) ==
    \E n \in DOMAIN rows :
        /\ {f, rows[n].fault} \subseteq Alike /\ rows[n].fault # f
        /\ rows[n].state \in {"running", "published", "retried"}

Afresh(f) == IF ReviewMode(rows, f) = "none" THEN "needs_input" ELSE "escalation_ready"

(* The bound on evidence: it changes while f's is the only fault.          *)
EvidenceMayChange(f) ==
    /\ ev[f] < MaxChanges
    /\ \A g \in Faults \ {f} : turn[g] = "delivered" /\ incident[g].state = "none"

(* reconcileSelfHeal, of one incident.                                     *)
Reconciled(f) ==
    LET s == incident[f].state
        owned == s \in {"repairing", "deploying"}
    IN IF turn[f] = "failed"
       THEN IF owned THEN s
            ELSE IF FailedAlready(rows, f) # {} THEN Afresh(f)
            ELSE IF s \in {"none", "resolved", "needs_input"} THEN "ready" ELSE s
       ELSE IF s \in {"none", "resolved"} THEN s
       ELSE CASE turn[f] = "delivered" -> "resolved"
              [] turn[f] = "held" -> "needs_input"
              [] turn[f] = "moving" -> IF owned THEN s ELSE "verifying"

(* Rows of resolved incidents are resolved with them.                      *)
Settled(states) ==
    [n \in DOMAIN rows |-> IF states[rows[n].fault] = "resolved"
                           THEN [rows[n] EXCEPT !.state = "resolved"] ELSE rows[n]]

Observe ==
    /\ stage = <<"idle">>
    /\ stage' = IF activeJob = 0 THEN <<"next">> ELSE <<"job">>
    /\ incident' = [f \in Faults |-> [incident[f] EXCEPT !.state = Reconciled(f)]]
    /\ rows' = Settled([f \in Faults |-> Reconciled(f)])
    /\ UNCHANGED <<store, rev, activeJob, file, worker, mishaps>>

-----------------------------------------------------------------------------
(* The job the controller holds.                                           *)

(* guardedRetry of f's turn, for some purpose, comes next. *)
Send(f, purpose) == <<"send", f, purpose>>

Held(f) == activeJob # 0 /\ incident[f].job = activeJob
WorkerLivesAlways == TRUE               \* mutant: its pid is not looked at
WorkerLives == worker \in {"working", "child"}

(* The worker is there by the pid it wrote, or its model's process is: a    *)
(* worker that has not written its pid yet counts as one that is gone.     *)
Working ==
    /\ stage = <<"job">> /\ stage' = <<"idle">>
    /\ file.state = "running" /\ WorkerLives
    /\ UNCHANGED <<store, rev, incident, jobs, mishaps>>

WorkerMissing ==
    /\ stage = <<"job">> /\ file.state = "running" /\ ~WorkerLives
    /\ file' = [file EXCEPT !.state = "failed"]
    /\ IF worker = "starting"
       THEN mishaps < MaxMishaps /\ mishaps' = mishaps + 1
       ELSE UNCHANGED mishaps
    /\ UNCHANGED <<store, rev, incident, rows, activeJob, worker, stage>>

(* advanceRelease: many ticks pass before it has ended, one way or other.   *)
Releasing(f) ==
    /\ stage = <<"job">> /\ Held(f)
    /\ file.state = "ready" /\ file.action = "publish"
    /\ incident' = [incident EXCEPT ![f].state = "deploying"]

ReleaseGoesOn(f) ==
    /\ Releasing(f) /\ stage' = <<"idle">>
    /\ UNCHANGED <<store, rev, rows, activeJob, file, worker, mishaps>>

ReleaseEnded(f) ==
    /\ Releasing(f)
    /\ \/ rev < MaxReleases /\ rev' = rev + 1
          /\ file' = [file EXCEPT !.state = "published"]
       \/ file' = [file EXCEPT !.state = "failed"] /\ UNCHANGED rev
    /\ UNCHANGED <<store, rows, activeJob, worker, stage, mishaps>>

(* mutant: the intent is not saved.                                        *)
IntendRetryUnsaved(f) ==
    /\ stage = <<"job">> /\ Held(f)
    /\ file.state = "ready" /\ file.action = "retry"
    /\ IF Action(f)
       THEN /\ UNCHANGED file
            /\ stage' = Send(f, <<"job", activeJob>>)
       ELSE /\ file' = [file EXCEPT !.state = "needs_input"]
            /\ UNCHANGED stage
    /\ UNCHANGED <<store, rev, incident, rows, activeJob, worker, mishaps>>

(* "Persist intent before mutation": the job says what it is about to do.  *)
IntendRetry(f) ==
    /\ stage = <<"job">> /\ Held(f)
    /\ file.state = "ready" /\ file.action = "retry"
    /\ IF Action(f)
       THEN /\ file' = [file EXCEPT !.state = "retry_intent"]
            /\ stage' = Send(f, <<"job", activeJob>>)
       ELSE /\ file' = [file EXCEPT !.state = "needs_input"]
            /\ UNCHANGED stage
    /\ UNCHANGED <<store, rev, incident, rows, activeJob, worker, mishaps>>

(* guardedRetry reads the turn again, and its PATCH carries the revision   *)
(* it read.  It may be carried out without an answer.                      *)
GuardedRetry ==
    /\ stage[1] = "send"
    /\ LET f == stage[2] purpose == stage[3]
           ends(answer) == stage' = <<answer, f, purpose>>
       IN \/ /\ Action(f) /\ (ends("answered") \/ ends("lost"))
             /\ turn' = [turn EXCEPT ![f] = "moving"]
             /\ sent' = sent \cup {purpose}
             /\ resent' = resent \cup (sent \cap {purpose})
          \/ /\ ends(IF Action(f) THEN "lost" ELSE "refused")
             /\ UNCHANGED <<turn, sent, resent>>
    /\ UNCHANGED <<ev, rev, incident, jobs, mishaps>>

(* The answer to a request of one kind, for incident f.                    *)
Answered(kind, f) ==
    stage[1] \in {"answered", "refused", "lost"} /\ stage[2] = f /\ stage[3][1] = kind

RetriedJob(f) ==
    /\ Answered("job", f) /\ stage' = <<"job">>
    /\ file' = [file EXCEPT !.state =
                    IF stage[1] = "lost" THEN "uncertain" ELSE "retried"]
    /\ UNCHANGED <<store, rev, incident, rows, activeJob, worker, mishaps>>

SlotFreed == activeJob' = 0 /\ file' = NoFile /\ worker' = "none"

(* The job has ended: its row, its incident, and the slot it held.  After  *)
(* a release, the turn is retried before the slot is given up.             *)
Conclude(f) ==
    /\ stage = <<"job">> /\ Held(f) /\ file.state \in Terminal
    /\ rows' = [rows EXCEPT ![activeJob].state = file.state]
    /\ LET well == file.state \in {"published", "retried"}
           retry == file.state = "published" /\ Action(f)
       IN /\ incident' = [incident EXCEPT ![f].state =
                IF well THEN "verifying"
                ELSE IF turn[f] # "held" /\ ReviewMode(rows', f) # "none"
                     THEN "escalation_ready" ELSE "needs_input"]
          /\ IF retry
             THEN /\ stage' = Send(f, <<"published", activeJob>>)
                  /\ UNCHANGED <<activeJob, file, worker>>
             ELSE stage' = <<"next">> /\ SlotFreed
    /\ UNCHANGED <<store, rev, mishaps>>

ReleaseRetried(f) ==
    /\ Answered("published", f) /\ stage' = <<"next">>
    /\ SlotFreed
    /\ UNCHANGED <<store, rev, incident, rows, mishaps>>

-----------------------------------------------------------------------------
(* nextSelfHealAction and the start of the action it chose.                *)

Candidate(f) ==
    /\ turn[f] = "failed" /\ ~BehindAlike(f)
    /\ incident[f].state \in {"ready", "verifying", "escalation_ready", "needs_input"}

DirectDue(f) == f \in Transport /\ Action(f) /\ ~incident[f].direct
FixedDue(f) == f \in Known /\ Action(f) /\ Cond(f) \notin incident[f].fixed
Chosen(f) ==
    /\ stage = <<"next">> /\ Candidate(f)
    /\ DirectDue(f) \/ ReviewMode(rows, f) # "none"

DirectRetry(f) ==
    /\ Chosen(f) /\ DirectDue(f) /\ stage' = Send(f, <<"direct", f>>)
    /\ incident' = [incident EXCEPT ![f].direct = TRUE, ![f].state = "verifying"]
    /\ UNCHANGED <<store, rev, jobs, mishaps>>

FixedRecovery(f) ==
    /\ Chosen(f) /\ ~DirectDue(f) /\ FixedDue(f)
    /\ stage' = Send(f, <<"fixed", f, Cond(f)>>)
    /\ incident' = [incident EXCEPT ![f].fixed = @ \cup {Cond(f)}]
    /\ UNCHANGED <<store, rev, jobs, mishaps>>

RequestEnded(f) ==
    /\ stage' = <<"idle">>
    /\ Answered("direct", f) \/ Answered("fixed", f)
    /\ incident' = [incident EXCEPT ![f].state =
           CASE stage[1] = "lost" -> "needs_input"
             [] stage[1] = "refused" /\ stage[3][1] = "fixed" -> "ready"
             [] OTHER -> "verifying"]
    /\ UNCHANGED <<store, rev, jobs, mishaps>>

(* The job's file is there before the state that names it.                 *)
StartJob(f) ==
    LET j == Len(rows) + 1
    IN /\ Chosen(f) /\ ~DirectDue(f) /\ ~FixedDue(f) /\ j \in JobNumbers
       /\ rows' = Append(rows, [fault |-> f, cond |-> Cond(f),
                                mode |-> ReviewMode(rows, f), state |-> "running"])
       /\ file' = [NoFile EXCEPT !.state = "running"]
       /\ incident' = [incident EXCEPT ![f].state = "repairing", ![f].job = j]
       /\ activeJob' = j /\ stage' = <<"launch">>
       /\ UNCHANGED <<store, rev, worker, mishaps>>

Launch ==
    /\ stage = <<"launch">> /\ stage' = <<"idle">>
    /\ worker' = "starting"
    /\ UNCHANGED <<store, rev, incident, rows, activeJob, file, mishaps>>

(* The end of a tick: nothing to start; resolved incidents settle.         *)
Rest ==
    /\ stage = <<"next">> /\ stage' = <<"idle">>
    /\ \A f \in Faults : ~Chosen(f)
    /\ UNCHANGED <<store, rev, incident, jobs, mishaps>>

-----------------------------------------------------------------------------
(* The worker, and the world.                                              *)

WorkerStarts ==
    /\ worker = "starting" /\ worker' = "working"
    /\ file' = [file EXCEPT !.state = "running"]
    /\ UNCHANGED <<store, rev, incident, rows, activeJob, stage, mishaps>>

(* A diagnosis ends in a commit to publish, in a retry if there was an     *)
(* action to retry, in a need of input, or fails.                          *)
WorkerEnds ==
    /\ worker = "working" /\ worker' = "gone"
    /\ \/ file' = [state |-> "ready", action |-> "publish"]
       \/ /\ rows[activeJob].fault \in Retryable
          /\ file' = [state |-> "ready", action |-> "retry"]
       \/ \E s \in {"needs_input", "failed"} : file' = [file EXCEPT !.state = s]
    /\ UNCHANGED <<store, rev, incident, rows, activeJob, stage, mishaps>>

(* The worker dies; the model's process it started may live on.            *)
WorkerDies ==
    /\ worker \in {"starting", "working"} /\ mishaps < MaxMishaps
    /\ worker' = IF worker = "working" THEN "child" ELSE "gone"
    /\ mishaps' = mishaps + 1
    /\ UNCHANGED <<store, rev, incident, rows, activeJob, file, stage>>

ChildEnds ==
    /\ worker = "child" /\ worker' = "gone"
    /\ UNCHANGED <<store, rev, incident, rows, activeJob, file, stage, mishaps>>

(* A retried turn is delivered, or fails again with new evidence.          *)
TurnEnds(f) ==
    /\ turn[f] = "moving"
    /\ \/ turn' = [turn EXCEPT ![f] = "delivered"] /\ UNCHANGED ev
       \/ turn' = [turn EXCEPT ![f] = "failed"] /\ EvidenceMayChange(f)
          /\ ev' = [ev EXCEPT ![f] = @ + 1]
    /\ UNCHANGED <<rev, incident, jobs, stage, sent, resent, mishaps>>

(* A person supplies what was missing, or holds the turn back (bound: one  *)
(* turn).                                                                  *)
Supply(f) ==
    /\ turn[f] = "failed" /\ EvidenceMayChange(f) /\ mishaps < MaxMishaps
    /\ ev' = [ev EXCEPT ![f] = @ + 1] /\ mishaps' = mishaps + 1
    /\ UNCHANGED <<turn, sent, resent, rev, incident, jobs, stage>>

Hold(f) ==
    /\ turn[f] = "failed" /\ \A g \in Faults : turn[g] # "held"
    /\ turn' = [turn EXCEPT ![f] = "held"]
    /\ UNCHANGED <<ev, sent, resent, rev, incident, jobs, stage, mishaps>>

HealCrash ==
    /\ stage # <<"down">> /\ mishaps < MaxMishaps /\ stage' = <<"down">>
    /\ mishaps' = mishaps + 1
    /\ UNCHANGED <<store, rev, incident, jobs>>

HealRestart ==
    /\ stage = <<"down">> /\ stage' = <<"idle">>
    /\ UNCHANGED <<store, rev, incident, jobs, mishaps>>

-----------------------------------------------------------------------------
Tick ==
    \/ Observe \/ Working \/ WorkerMissing \/ GuardedRetry \/ Launch \/ Rest
    \/ \E f \in Faults :
        \/ ReleaseGoesOn(f) \/ ReleaseEnded(f) \/ IntendRetry(f) \/ RetriedJob(f) \/ Conclude(f)
        \/ ReleaseRetried(f) \/ DirectRetry(f) \/ FixedRecovery(f)
        \/ RequestEnded(f) \/ StartJob(f)

WorkerSteps == WorkerStarts \/ WorkerEnds \/ ChildEnds

HealNext ==
    \/ Tick \/ HealCrash \/ HealRestart \/ WorkerSteps \/ WorkerDies
    \/ \E f \in Faults : TurnEnds(f) \/ Supply(f) \/ Hold(f)

HealFairness ==
    /\ WF_healVars(Tick) /\ WF_healVars(HealRestart)
    /\ SF_healVars(\E f \in Faults : ReleaseEnded(f))
    /\ WF_healVars(WorkerSteps)

HealSpec == HealInit /\ [][HealNext]_healVars
FairHealSpec == HealSpec /\ HealFairness

-----------------------------------------------------------------------------
(* "An interrupted/uncertain PATCH is only reconciled from fresh state; it *)
(* is never automatically sent twice" (self-heal.mjs:141): a request made  *)
(* for a diagnosis, a transport failure or a known recovery reaches the    *)
(* store once, wherever the controller died.                               *)
RequestSentOnce == \A purpose \in resent : purpose[1] = "published"

(* Unless its inputs change, a fault is diagnosed once, and once more as   *)
(* an escalation of the diagnosis that failed: a daemon that is restarted, *)
(* and a release that changed nothing of what a diagnosis asked for, do    *)
(* not start that over.                                                    *)
DiagnosedOnce ==
    \A n, m \in DOMAIN rows :
        (n < m /\ rows[n].fault = rows[m].fault /\ rows[n].state \in Unsuccessful
            /\ (rows[n].cond = rows[m].cond
                   \/ (rows[n].state = "needs_input" /\ Evidence(rows[n]) = Evidence(rows[m]))))
        => rows[n].mode = "repair" /\ rows[m].mode = "escalation"

(* A fault that lasts is taken up until a person is told, unless it waits  *)
(* behind the work for another of the same signature.                      *)
FaultAnswered ==
    \A f \in Faults :
        (turn[f] = "failed") ~> \/ turn[f] # "failed" \/ BehindAlike(f)
                                \/ incident[f].state = "needs_input"
=============================================================================
