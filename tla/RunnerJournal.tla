--------------------------- MODULE RunnerJournal ---------------------------
(***************************************************************************)
(* The runner's main process and the files by which its next incarnation   *)
(* learns what became of its jobs.                                         *)
(*                                                                         *)
(* A claimed turn is journalled (<turn>.job.json), executed, its result    *)
(* written to <turn>.result.json, reported to the store until the store    *)
(* answers, and then marked: <turn>.result.json.delivered with the digest  *)
(* of the result file as it is at that moment, and <turn>.job.json.done.   *)
(* The files are named by the turn, not by the attempt, so attempts at one *)
(* turn share them.  A runner that starts replays the results that are not *)
(* marked delivered, then recovers the journals that are not marked done,  *)
(* before it claims again.                                                 *)
(*                                                                         *)
(* A runner may die between any two steps while children of its jobs live  *)
(* on, and an answer of the store may be lost after the store has acted.   *)
(* Such faults are finitely many (MaxFaults).  The store is Attempts.      *)
(***************************************************************************)
EXTENDS Attempts, FiniteSets

CONSTANTS Capacity,   \* slots (resource.effective), the same for every claim
          MaxFaults,  \* bound: crashes and lost answers
          Retried     \* bound: the projects whose turns may be claimed again

ASSUME RunnerAssumption ==
  Capacity \in Nat \ {0} /\ MaxFaults \in Nat /\ Retried \subseteq Tasks

VARIABLES phase,      \* of the runner's process
          jobs,       \* its runJob calls in flight
          active,     \* its map of active jobs, by task
          orphans,    \* journals found at startup and not settled yet
          pass,       \* those the current iteration has not recovered yet
          journal,    \* <turn>.job.json: the token in it
          done,       \* <turn>.job.json.done exists
          receipt,    \* <turn>.result.json: the token in it
          delivered,  \* <turn>.result.json.delivered: the receipt it is the digest of
          children,   \* per turn: the attempts whose journalled children live
          faults      \* crashes and lost answers so far

store  == <<lease, issued>>
memory == <<jobs, active, orphans, pass>>
files  == <<journal, done, receipt, delivered>>
runnerVars == <<store, phase, memory, files, children, faults>>

Phase == {"down", "replay", "recover", "up"}
Job == [turn : TurnRef, token : Tokens, step : {"execute", "report", "settle"}]

RunnerInit ==
  /\ Init
  /\ phase = "down"
  /\ jobs = {} /\ active = [p \in Tasks |-> NoToken]
  /\ orphans = {} /\ pass = {}
  /\ journal = [u \in TurnRef |-> NoToken] /\ done = [u \in TurnRef |-> FALSE]
  /\ receipt = [u \in TurnRef |-> NoToken] /\ delivered = [u \in TurnRef |-> NoToken]
  /\ children = [u \in TurnRef |-> {}]
  /\ faults = 0

Fault == faults < MaxFaults /\ faults' = faults + 1

-----------------------------------------------------------------------------
(* The store's answers to finish and recover, repeated ones included. *)

\* mutants: a report that was not answered counts; a repeated report is refused
FinishSent(u, k) == UNCHANGED store
FinishOnce(u, k) == Finish(u, k)

\* finish is accepted, or was accepted before; otherwise it is refused, and the
\* job that reports, or the startup that replays, gets an exception
FinishAccepted(u, k) ==
  \/ Finish(u, k)
  \/ (Completed(u, k) \/ Superseded(u, k)) /\ UNCHANGED store

FinishRefused(u, k) ==
  ~Completed(u, k) /\ ~Superseded(u, k) /\ lease[u].running # k

\* nothing is left of the attempt for recover to end
Settled(u, k) == Superseded(u, k) \/ Completed(u, k) \/ ~Owns(u, k)

RecoverAnswered(u, k, live) ==
  IF Settled(u, k) THEN UNCHANGED store ELSE Recover(u, k, live)

-----------------------------------------------------------------------------
(* Claims and jobs. *)

Occupied == Cardinality({p \in Tasks : active[p] # NoToken}) + Cardinality(orphans)
RunningTurns == {u \in TurnRef : lease[u].running # NoToken}

\* the loop's condition, and the store's count against the capacity it is sent
SlotFree ==
  /\ Occupied < Capacity
  /\ Cardinality(RunningTurns) + Cardinality(orphans) < Capacity

MayClaim(u) ==
  /\ phase = "up" /\ pass = {}
  /\ SlotFree
  /\ u[1] \in Retried \/ \A k \in issued : journal[u] # k

Claim(u, k) ==
  /\ MayClaim(u) /\ Begin(u, k)
  /\ journal' = [journal EXCEPT ![u] = k]
  /\ jobs' = jobs \cup {[turn |-> u, token |-> k, step |-> "execute"]}
  /\ active' = [active EXCEPT ![u[1]] = k]
  /\ UNCHANGED <<phase, orphans, pass, done, receipt, delivered, children, faults>>

\* the store's answer to the claim is lost: nothing here knows of the attempt
ClaimLost(u, k) ==
  /\ MayClaim(u) /\ Begin(u, k) /\ Fault
  /\ pass' = orphans
  /\ UNCHANGED <<phase, jobs, active, orphans, files, children>>

JobAt(step) == {j \in jobs : j.step = step}
Advance(j, step) == jobs' = (jobs \ {j}) \cup {[j EXCEPT !.step = step]}

SpawnChild(j) ==
  /\ j \in JobAt("execute") /\ j.token \notin children[j.turn]
  /\ children' = [children EXCEPT ![j.turn] = @ \cup {j.token}]
  /\ UNCHANGED <<store, phase, memory, files, faults>>

ChildExits(u, k) ==
  /\ k \in children[u]
  /\ children' = [children EXCEPT ![u] = @ \ {k}]
  /\ UNCHANGED <<store, phase, memory, files, faults>>

\* the execution ends, well or badly, after its children: its result is written
Execute(j) ==
  /\ j \in JobAt("execute") /\ j.token \notin children[j.turn]
  /\ receipt' = [receipt EXCEPT ![j.turn] = j.token]
  /\ Advance(j, "report")
  /\ UNCHANGED <<store, phase, active, orphans, pass, journal, done, delivered,
                 children, faults>>

\* deliver: the store answers, and the result file as it is now is marked
Report(j) ==
  /\ j \in JobAt("report") /\ FinishAccepted(j.turn, j.token)
  /\ delivered' = [delivered EXCEPT ![j.turn] = receipt[j.turn]]
  /\ Advance(j, "settle")
  /\ UNCHANGED <<phase, active, orphans, pass, journal, done, receipt, children, faults>>

\* the answer is lost: the job naps and reports again
ReportLost(j) ==
  /\ j \in JobAt("report") /\ FinishAccepted(j.turn, j.token) /\ Fault
  /\ UNCHANGED <<phase, memory, files, children>>

\* the journal is marked and the job leaves the map, by its task
Settle(j) ==
  /\ j \in JobAt("settle")
  /\ done' = [done EXCEPT ![j.turn] = TRUE]
  /\ jobs' = jobs \ {j}
  /\ active' = [active EXCEPT ![j.turn[1]] = NoToken]
  /\ UNCHANGED <<store, phase, orphans, pass, journal, receipt, delivered, children, faults>>

-----------------------------------------------------------------------------
(* Death and startup. *)

Forget == jobs' = {} /\ active' = [p \in Tasks |-> NoToken] /\ orphans' = {} /\ pass' = {}

Crash ==
  /\ phase # "down" /\ Fault
  /\ phase' = "down" /\ Forget
  /\ UNCHANGED <<store, files, children>>

Start ==
  /\ phase = "down" /\ phase' = "replay"
  /\ UNCHANGED <<store, memory, files, children, faults>>

Undelivered == {u \in TurnRef : receipt[u] # NoToken /\ delivered[u] # receipt[u]}

Replay(u) ==
  /\ phase = "replay" /\ u \in Undelivered /\ FinishAccepted(u, receipt[u])
  /\ delivered' = [delivered EXCEPT ![u] = receipt[u]]
  /\ UNCHANGED <<phase, memory, journal, done, receipt, children, faults>>

\* an exception during startup ends the process (a refusal, which would do the
\* same, never comes: ReplayNeverRefused)
ReplayLost(u) ==
  /\ phase = "replay" /\ u \in Undelivered /\ FinishAccepted(u, receipt[u]) /\ Fault
  /\ phase' = "down"
  /\ UNCHANGED <<memory, files, children>>

\* mutant: a journal is recovered whether its result was replayed or not
NothingToReplay == TRUE

Replayed == Undelivered = {}

Unsettled(u) == journal[u] # NoToken /\ ~done[u]

Scan ==
  /\ phase = "replay" /\ Replayed
  /\ orphans' = {u \in TurnRef : Unsettled(u)}
  /\ pass' = orphans'
  /\ phase' = "recover"
  /\ UNCHANGED <<store, jobs, active, files, children, faults>>

\* mutants: a recovered journal is settled although children live; live children
\* are not looked for
ClosesAlways(u, k, live) == TRUE
LivesNot(u, k) == FALSE

Closes(u, k, live) == ~live \/ Settled(u, k)
Lives(u, k) == k \in children[u]

RecoverOrphan(u) ==
  LET k == journal[u]  live == Lives(u, k) IN
  /\ phase \in {"recover", "up"} /\ u \in pass
  /\ RecoverAnswered(u, k, live)
  /\ pass' = pass \ {u}
  /\ IF Closes(u, k, live)
     THEN done' = [done EXCEPT ![u] = TRUE] /\ orphans' = orphans \ {u}
     ELSE UNCHANGED <<done, orphans>>
  /\ UNCHANGED <<phase, jobs, active, journal, receipt, delivered, children, faults>>

\* the answer is lost: during startup the process ends, later the loop starts over
RecoverLost(u) ==
  LET k == journal[u] IN
  /\ phase \in {"recover", "up"} /\ u \in pass /\ Fault
  /\ RecoverAnswered(u, k, Lives(u, k))
  /\ IF phase = "recover"
     THEN phase' = "down" /\ Forget
     ELSE pass' = orphans /\ UNCHANGED <<phase, jobs, active, orphans>>
  /\ UNCHANGED <<files, children>>

\* the main loop's next iteration; the first follows the startup's recovery
Iterate ==
  /\ phase \in {"recover", "up"} /\ pass = {}
  /\ phase' = "up" /\ pass' = orphans
  /\ UNCHANGED <<store, jobs, active, orphans, files, children, faults>>

-----------------------------------------------------------------------------
JobStep == \E j \in jobs :
  SpawnChild(j) \/ Execute(j) \/ Report(j) \/ ReportLost(j) \/ Settle(j)

TurnStep(u) ==
  \/ \E k \in Tokens : Claim(u, k) \/ ClaimLost(u, k) \/ ChildExits(u, k)
  \/ Replay(u) \/ ReplayLost(u)
  \/ RecoverOrphan(u) \/ RecoverLost(u)

RunnerNext ==
  \/ JobStep
  \/ \E u \in TurnRef : TurnStep(u)
  \/ Crash \/ Start \/ Scan \/ Iterate

\* The monitor starts a runner that is gone, its loops run, executions and
\* children end; claims are not owed and faults are not wanted.
Fairness ==
  /\ WF_runnerVars(Start) /\ WF_runnerVars(Scan) /\ WF_runnerVars(Iterate)
  /\ \A u \in TurnRef :
       /\ WF_runnerVars(Replay(u)) /\ WF_runnerVars(RecoverOrphan(u))
       /\ \A k \in Tokens :
            LET job(step) == [turn |-> u, token |-> k, step |-> step] IN
            /\ WF_runnerVars(ChildExits(u, k))
            /\ SF_runnerVars(Execute(job("execute")))
            /\ WF_runnerVars(Report(job("report")))
            /\ WF_runnerVars(Settle(job("settle")))

RunnerSpec == RunnerInit /\ [][RunnerNext]_runnerVars
FairRunnerSpec == RunnerSpec /\ Fairness

-----------------------------------------------------------------------------
(* Properties *)

RunnerTypeOK ==
  /\ lease \in [TurnRef -> Lease] /\ issued \subseteq Tokens
  /\ phase \in Phase
  /\ jobs \subseteq Job /\ active \in [Tasks -> MaybeToken]
  /\ pass \subseteq orphans /\ orphans \subseteq TurnRef
  /\ journal \in [TurnRef -> MaybeToken] /\ done \in [TurnRef -> BOOLEAN]
  /\ receipt \in [TurnRef -> MaybeToken] /\ delivered \in [TurnRef -> MaybeToken]
  /\ children \in [TurnRef -> SUBSET Tokens]
  /\ faults \in 0 .. MaxFaults

\* The files of a turn that is attempted again are shared by its attempts: a
\* done marker, or a late answer to an earlier attempt, then speaks for the
\* later one.  What rests on the files alone is stated of the other turns.
AttemptedOnce == {u \in TurnRef : u[1] \notin Retried}

\* No attempt begins at a turn while a child of an earlier attempt at it lives.
NoStartOverChildren ==
  [][\A u \in TurnRef :
       lease'[u].running \notin {NoToken, lease[u].running} => children[u] = {}]_runnerVars

\* A starting runner never meets a result the store refuses for its token:
\* crashes and lost answers alone cannot make startup fail again and again.
ReplayNeverRefused ==
  phase = "replay" => \A u \in Undelivered : ~FinishRefused(u, receipt[u])

\* A result marked as delivered is one the store has accepted.
NoResultDropped ==
  \A u \in AttemptedOnce :
    receipt[u] # NoToken /\ delivered[u] = receipt[u] => lease[u].running # receipt[u]

\* After the last fault, a journalled attempt ends at the store.
AttemptsEnd ==
  \A u \in AttemptedOnce, k \in Tokens :
    lease[u].running = k /\ journal[u] = k ~> lease[u].running # k

\* A turn parked for the children of a dead attempt is released again.
ParkedReleased ==
  \A u \in AttemptedOnce : lease[u].parked # NoToken ~> lease[u].parked = NoToken

=============================================================================
