------------------------------ MODULE Attempts ------------------------------
(***************************************************************************)
(* What the store promises to the jobs that report to it, whatever else it *)
(* keeps: the life of the attempts at a turn.                              *)
(*                                                                         *)
(* An attempt begins when a claim hands out a job token nobody has had     *)
(* before.  It ends once: by the finish reported under its token, by the   *)
(* hand-off of its observer, or by the recovery of a runner that died.     *)
(* While children of a dead attempt still live the turn is parked and no   *)
(* new attempt begins.  Two turns of one task never run together.  The     *)
(* token of the last finish and of the last hand-off are remembered, so    *)
(* that a repeated report under them is answered and not refused.          *)
(*                                                                         *)
(* TaskQueue implements this module; RunnerJournal is built on it.         *)
(***************************************************************************)
EXTENDS Naturals

CONSTANTS Tasks,     \* task rows
          MaxTurns,  \* bound: turns of one task
          Tokens,    \* job tokens
          NoToken    \* the absent token

ASSUME AttemptsAssumption == NoToken \notin Tokens /\ MaxTurns \in Nat \ {0}

VARIABLES lease,     \* what the store keeps of the attempts at each turn
          issued     \* the job tokens handed out so far

TurnRef == Tasks \X (1 .. MaxTurns)
MaybeToken == Tokens \cup {NoToken}

\* running: the attempt that may report; parked: the dead attempt whose
\* children still live; completed, handedOff: the last attempts that ended so
Lease == [running   : MaybeToken,
          parked    : MaybeToken,
          completed : MaybeToken,
          handedOff : MaybeToken]

NeverRun == [running |-> NoToken, parked |-> NoToken,
             completed |-> NoToken, handedOff |-> NoToken]

Init == lease = [u \in TurnRef |-> NeverRun] /\ issued = {}

TaskIdle(p) == \A u \in TurnRef : u[1] = p => lease[u].running = NoToken

Begin(u, k) ==
  /\ k \notin issued
  /\ TaskIdle(u[1]) /\ lease[u].parked = NoToken
  /\ lease' = [lease EXCEPT ![u].running = k]
  /\ issued' = issued \cup {k}

\* the answers a repeated report gets without any change
Superseded(u, k) == lease[u].handedOff = k
Completed(u, k)  == lease[u].completed = k

Finish(u, k) ==
  /\ lease[u].running = k /\ ~Superseded(u, k)
  /\ lease' = [lease EXCEPT ![u] = [@ EXCEPT !.running = NoToken, !.completed = k]]
  /\ UNCHANGED issued

HandOff(u, k) ==
  /\ lease[u].running = k /\ ~Superseded(u, k)
  /\ lease' = [lease EXCEPT ![u] = [@ EXCEPT !.running = NoToken, !.handedOff = k]]
  /\ UNCHANGED issued

Owns(u, k) == k \in {lease[u].running, lease[u].parked}

\* live: children of the attempt were seen alive
Recover(u, k, live) ==
  /\ Owns(u, k) /\ ~Superseded(u, k) /\ ~Completed(u, k)
  /\ lease' = [lease EXCEPT ![u] = [@ EXCEPT !.running = NoToken,
                                          !.parked = IF live THEN k ELSE NoToken]]
  /\ UNCHANGED issued

Next == \E u \in TurnRef, k \in Tokens :
  \/ Begin(u, k)
  \/ Finish(u, k)
  \/ HandOff(u, k)
  \/ \E live \in BOOLEAN : Recover(u, k, live)

Spec == Init /\ [][Next]_<<lease, issued>>

=============================================================================
