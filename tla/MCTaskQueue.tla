---------------------------- MODULE MCTaskQueue ----------------------------
(* Instances of TaskQueue for TLC. *)
EXTENDS TaskQueue, TLC

\* rows, tokens and claim handlers are interchangeable
Symmetry == Permutations(Tasks) \cup Permutations(Tokens) \cup Permutations(Handlers)

\* Projects with a history: the first question's code is complete but its
\* evaluation failed, and a second question was appended and is queued.
\* (Reached from Init by four attempts: a plan that was blocked, a new
\* evaluation that failed, a plan that succeeded.)  The tokens of those
\* attempts are left out.
Evaluated ==
  [NewTurn EXCEPT !.status = "failed", !.sent = TRUE, !.outcome = "complete"]

HistoryInit ==
  /\ turns = [t \in Tasks |-> [i \in TurnIds |->
       CASE i = 1 -> Evaluated [] i = 2 -> NewTurn [] OTHER -> Absent]]
  /\ len = [t \in Tasks |-> 2]
  /\ closed = [t \in Tasks |-> FALSE]
  /\ config = [concurrency |-> MaxConcurrency, accepting |-> TRUE, draining |-> {}]
  /\ jobs = {}
  /\ pick = [h \in Handlers |-> [t \in Tasks |-> NoWork]]
  /\ capacity = [h \in Handlers |-> 0]
  /\ fresh = [h \in Handlers |-> {}]

\* or of one question only
HistorySpec == (Init \/ HistoryInit) /\ [][Next]_vars

\* bound: the projects stay open and no turn is excluded or submitted
OpenAndIncluded ==
  /\ \A t \in Tasks : ~closed[t]
  /\ \A t \in Tasks, i \in TurnIds : ~turns[t][i].excluded /\ ~turns[t][i].receipt

\* bound: the scheduler keeps its first configuration and no turn is submitted
SameConfig ==
  /\ config.accepting /\ config.concurrency = MaxConcurrency
  /\ \A t \in Tasks, i \in TurnIds : ~turns[t][i].receipt

=============================================================================
