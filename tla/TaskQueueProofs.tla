--------------------------- MODULE TaskQueueProofs ---------------------------
(***************************************************************************)
(* Proofs about TaskQueue, for any set of tasks, tokens and handlers, any  *)
(* number of turns and any concurrency: the invariants, and that the store *)
(* implements Attempts.                                                    *)
(***************************************************************************)
EXTENDS TaskQueue, FiniteSetTheorems, TLAPS

\* What holds of every single turn.
TurnInv(r) ==
  /\ r.status = "running" <=> r.jobToken # NoToken
  /\ r.blocked => r.status \notin Active \cup {"absent"}
  /\ r.blocked <=> r.recoveryToken # NoToken

TurnsInv == \A t \in Tasks, i \in TurnIds : TurnInv(turns[t][i])

\* What a handler's selection may rely on as long as the row is unchanged.
PickInv ==
  \A h \in Handlers : \A t \in fresh[h] :
    LET w == pick[h][t] IN
    /\ w.turn \in TurnIds
    /\ \A i \in TurnIds : turns[t][i].status # "running"
    /\ ~turns[t][w.turn].blocked
    /\ w.plan => turns[t][w.turn].status \in {"failed", "review", "submitted"}

IInv == TypeOK /\ TurnsInv /\ PickInv /\ OneRunningPerTask /\ RunningBound

StartsNothing == \A t \in Tasks, i \in TurnIds : ~Starts(t, i)

\* What a step that is not the commit of a claim keeps.
Keeps == IInv' /\ StartsNothing

-----------------------------------------------------------------------------
(* Turns. *)

LEMMA AbsentTurn == Absent \in Turn /\ TurnInv(Absent)
BY TaskQueueAssumption DEF Absent, Turn, Token, Status, Outcome, Recovery, TurnInv, Active

LEMMA NewTurnTurn == NewTurn \in Turn /\ TurnInv(NewTurn) /\ NewTurn.status = "queued"
BY AbsentTurn DEF NewTurn, Absent, Turn, Token, Status, Outcome, Recovery, TurnInv, Active

LEMMA InterruptedTurn ==
  ASSUME NEW r \in Turn, NEW k \in Tokens, NEW live \in BOOLEAN, NEW salvage \in BOOLEAN
  PROVE  /\ Interrupted(r, k, live, salvage) \in Turn
         /\ TurnInv(Interrupted(r, k, live, salvage))
         /\ Interrupted(r, k, live, salvage).status # "running"
BY ZenonT(40), TaskQueueAssumption DEF Interrupted, Turn, Token, Status, Outcome, Recovery, TurnInv, Active

LEMMA ClaimedTurn ==
  ASSUME NEW r \in Turn, TurnInv(r), ~r.blocked, NEW k \in Tokens, NEW w \in Work,
         w.plan => r.status \in {"failed", "review", "submitted"}
  PROVE  /\ Claimed(r, k, w) \in Turn
         /\ TurnInv(Claimed(r, k, w))
         /\ Claimed(r, k, w).status = "running"
<1> DEFINE s == IF w.stage /\ r.stageRecovery = "none" THEN "postprocess" ELSE r.stageRecovery
           b == w.stage \/ r.retrying
           p == IF w.plan THEN r.status ELSE r.project
           c == [r EXCEPT !.status = "running", !.jobToken = k, !.stageRecovery = s,
                          !.retrying = b, !.project = p]
<1>1. b \in BOOLEAN
  OBVIOUS
<1>2. s \in Recovery /\ p \in {"none", "failed", "review", "submitted"}
  BY DEF Turn, Recovery
<1>3. c = Claimed(r, k, w)
  BY DEF Claimed
<1> HIDE DEF s, b, p
<1>4. /\ c \in Turn
      /\ c.status = "running" /\ c.jobToken = k /\ c.blocked = r.blocked
      /\ c.recoveryToken = r.recoveryToken
  BY <1>1, <1>2 DEF Turn, Token, Status
<1> HIDE DEF c
<1>5. ~r.blocked /\ r.recoveryToken = NoToken /\ k # NoToken
  BY TaskQueueAssumption DEF TurnInv, Turn
<1> QED
  BY <1>3, <1>4, <1>5 DEF TurnInv, Active

LEMMA FinishedTurn ==
  ASSUME NEW r \in Turn, TurnInv(r), NEW k \in Tokens, NEW success \in BOOLEAN,
         NEW outcome \in Outcome, NEW runtime \in BOOLEAN, r.status = "running"
  PROVE  LET f == Finished(r, k, success, outcome, runtime) IN
         f \in Turn /\ TurnInv(f) /\ f.status # "running"
<1> DEFINE s    == IF success THEN "review" ELSE "failed"
           b    == r.sent \/ outcome # "none"
           base == [r EXCEPT !.status = s, !.jobToken = NoToken, !.completed = k,
                             !.retrying = FALSE, !.outcome = outcome,
                             !.sent = b, !.runtime = runtime]
           v    == IF base.stageRecovery = "historical"
                   THEN base.stageRecovery ELSE "validation"
           again == [base EXCEPT !.status = "queued", !.retrying = TRUE,
                                 !.stageRecovery = v]
           f    == Finished(r, k, success, outcome, runtime)
<1>1. b \in BOOLEAN /\ s \in {"review", "failed"}
  OBVIOUS
<1>2. f = IF ~success /\ RuntimeRecoveryEligible(base) THEN again ELSE base
  BY DEF Finished
<1> HIDE DEF s, b, f
<1>3. /\ base \in Turn
      /\ base.status = s /\ base.jobToken = NoToken
      /\ base.blocked = r.blocked /\ base.recoveryToken = r.recoveryToken
  BY ZenonT(40), <1>1 DEF Turn, Token, Status
<1> HIDE DEF base
<1>4. v \in Recovery
  BY <1>3 DEF Turn, Recovery
<1> HIDE DEF v
<1>5. /\ again \in Turn
      /\ again.status = "queued" /\ again.jobToken = NoToken
      /\ again.blocked = r.blocked /\ again.recoveryToken = r.recoveryToken
  BY <1>3, <1>4 DEF Turn, Status
<1>6. f \in {base, again}
  BY <1>2
<1>7. ~r.blocked /\ r.recoveryToken = NoToken
  BY DEF TurnInv, Active, Turn
<1> QED
  BY <1>1, <1>3, <1>5, <1>6, <1>7 DEF TurnInv, Active, f

-----------------------------------------------------------------------------
(* Rows. *)

LEMMA RunningFinite == IsFiniteSet(Running)
<1>1. IsFiniteSet(TurnIds)
  BY FS_Interval, TaskQueueAssumption DEF TurnIds
<1>2. IsFiniteSet(Tasks \X TurnIds)
  BY <1>1, FS_Product, TaskQueueAssumption
<1> QED
  BY <1>2, FS_Subset DEF Running

\* A handler that saves one row, and in it starts no turn, keeps the invariant.
LEMMA SavesRow ==
  ASSUME IInv, NEW t \in Tasks, NEW row \in [TurnIds -> Turn],
         Save(t, row), RowOnly,
         len' \in [Tasks -> TurnIds], closed' \in [Tasks -> BOOLEAN],
         \A i \in TurnIds : /\ TurnInv(row[i])
                            /\ row[i].status = "running" => turns[t][i].status = "running"
  PROVE  Keeps
<1>1. turns \in [Tasks -> [TurnIds -> Turn]] /\ fresh \in [Handlers -> SUBSET Tasks]
  BY DEF IInv, TypeOK
<1>2. \A u \in Tasks : turns'[u] = IF u = t THEN row ELSE turns[u]
  BY <1>1 DEF Save
<1>3. turns' \in [Tasks -> [TurnIds -> Turn]]
  BY <1>1 DEF Save
<1>4. \A h \in Handlers : fresh'[h] = fresh[h] \ {t}
  BY DEF Save
<1>5. fresh' \in [Handlers -> SUBSET Tasks]
  BY <1>1 DEF Save
<1>6. TypeOK'
  BY <1>3, <1>5 DEF IInv, TypeOK, RowOnly, Config
<1>7. TurnsInv'
  BY <1>2 DEF IInv, TurnsInv
<1>8. PickInv'
  <2> SUFFICES ASSUME NEW h \in Handlers, NEW u \in fresh'[h]
               PROVE  LET w == pick'[h][u] IN
                      /\ w.turn \in TurnIds
                      /\ \A i \in TurnIds : turns'[u][i].status # "running"
                      /\ ~turns'[u][w.turn].blocked
                      /\ w.plan => turns'[u][w.turn].status \in {"failed", "review", "submitted"}
    BY DEF PickInv
  <2>1. u \in fresh[h] /\ u # t /\ u \in Tasks
    BY <1>1, <1>4
  <2>2. turns'[u] = turns[u] /\ pick'[h][u] = pick[h][u]
    BY <2>1, <1>2 DEF RowOnly
  <2> QED
    BY <2>1, <2>2 DEF IInv, PickInv
<1>9. \A u \in Tasks, i \in TurnIds :
        turns'[u][i].status = "running" => turns[u][i].status = "running"
  BY <1>2
<1>10. OneRunningPerTask'
  BY <1>9 DEF IInv, OneRunningPerTask
<1>11. RunningBound'
  <2>1. Running' \subseteq Running
    BY <1>9 DEF Running
  <2>2. Cardinality(Running') <= Cardinality(Running)
    BY <2>1, RunningFinite, FS_Subset
  <2>3. Cardinality(Running) \in Nat /\ Cardinality(Running') \in Nat
    BY <2>1, RunningFinite, FS_Subset, FS_CardinalityType
  <2> QED
    BY <2>2, <2>3, TaskQueueAssumption DEF IInv, RunningBound
<1> QED
  BY <1>6, <1>7, <1>8, <1>9, <1>10, <1>11 DEF IInv, Keeps, StartsNothing, Starts

\* The same for a handler that replaces one turn of its row.
LEMMA SavesTurn ==
  ASSUME IInv, NEW t \in Tasks, NEW i \in TurnIds, NEW r \in Turn,
         SaveTurn(t, i, r), TurnInv(r),
         r.status = "running" => turns[t][i].status = "running"
  PROVE  Keeps
<1> DEFINE row == [turns[t] EXCEPT ![i] = r]
<1>1. turns[t] \in [TurnIds -> Turn] /\ \A j \in TurnIds : TurnInv(turns[t][j])
  BY DEF IInv, TypeOK, TurnsInv
<1>2. row \in [TurnIds -> Turn]
  BY <1>1
<1>3. \A j \in TurnIds : /\ TurnInv(row[j])
                         /\ row[j].status = "running" => turns[t][j].status = "running"
  BY <1>1
<1>4. Save(t, row) /\ RowOnly /\ UNCHANGED <<len, closed>>
  BY DEF SaveTurn
<1>5. len' \in [Tasks -> TurnIds] /\ closed' \in [Tasks -> BOOLEAN]
  BY <1>4 DEF IInv, TypeOK
<1> HIDE DEF row
<1> QED
  BY <1>2, <1>3, <1>4, <1>5, SavesRow

-----------------------------------------------------------------------------
(* Reports. *)

LEMMA TurnOf ==
  ASSUME IInv, NEW t \in Tasks, NEW i \in TurnIds
  PROVE  turns[t][i] \in Turn /\ TurnInv(turns[t][i])
BY DEF IInv, TypeOK, TurnsInv

LEMMA ReserveKeeps ==
  ASSUME IInv, NEW t \in Tasks, NEW i \in TurnIds, NEW k \in Tokens, Reserve(t, i, k)
  PROVE  Keeps
<1> DEFINE r == turns[t][i]
           q == [r EXCEPT !.sent = TRUE]
<1>1. r \in Turn /\ TurnInv(r)
  BY TurnOf
<1>2. SaveTurn(t, i, q)
  BY DEF Reserve
<1> HIDE DEF r
<1>3. q \in Turn /\ q.status = r.status /\ TurnInv(q)
  BY <1>1 DEF Turn, TurnInv
<1> HIDE DEF q
<1> QED
  BY <1>2, <1>3, SavesTurn DEF r

LEMMA HandoffObserverKeeps ==
  ASSUME IInv, NEW t \in Tasks, NEW i \in TurnIds, NEW k \in Tokens,
         HandoffObserver(t, i, k)
  PROVE  Keeps
<1> DEFINE r == turns[t][i]
           q == [r EXCEPT !.status = "queued", !.jobToken = NoToken, !.handedOff = k]
<1>1. r \in Turn /\ TurnInv(r)
  BY TurnOf
<1>2. SaveTurn(t, i, q) /\ ~r.blocked
  BY DEF HandoffObserver
<1> HIDE DEF r
<1>3. /\ q \in Turn /\ q.status = "queued" /\ q.jobToken = NoToken
      /\ q.blocked = r.blocked /\ q.recoveryToken = r.recoveryToken
  BY <1>1 DEF Turn, Status, Token
<1> HIDE DEF q
<1>4. TurnInv(q)
  BY <1>1, <1>2, <1>3 DEF TurnInv
<1> QED
  BY <1>2, <1>3, <1>4, SavesTurn

LEMMA RecoverKeeps ==
  ASSUME IInv, NEW t \in Tasks, NEW i \in TurnIds, NEW k \in Tokens,
         NEW live \in BOOLEAN, NEW salvage \in BOOLEAN, Recover(t, i, k, live, salvage)
  PROVE  Keeps
<1> DEFINE q == Interrupted(turns[t][i], k, live, salvage)
<1>1. SaveTurn(t, i, q)
  BY DEF Recover
<1>2. q \in Turn /\ TurnInv(q) /\ q.status # "running"
  BY TurnOf, InterruptedTurn
<1> HIDE DEF q
<1> QED
  BY <1>1, <1>2, SavesTurn

\* Appending a question to a row whose other turns are in order.
LEMMA AppendsTurn ==
  ASSUME IInv, NEW t \in Tasks, NEW row \in [TurnIds -> Turn],
         \A j \in TurnIds : /\ TurnInv(row[j])
                            /\ row[j].status = "running" => turns[t][j].status = "running",
         len[t] < MaxTurns,
         Save(t, [row EXCEPT ![len[t] + 1] = NewTurn]),
         len' = [len EXCEPT ![t] = @ + 1], closed' \in [Tasks -> BOOLEAN], RowOnly
  PROVE  Keeps
<1> DEFINE next == [row EXCEPT ![len[t] + 1] = NewTurn]
<1>1. len \in [Tasks -> TurnIds]
  BY DEF IInv, TypeOK
<1>2. len[t] + 1 \in TurnIds
  BY <1>1, TaskQueueAssumption DEF TurnIds
<1>3. len' \in [Tasks -> TurnIds]
  BY <1>1, <1>2
<1>4. next \in [TurnIds -> Turn]
  BY <1>2, NewTurnTurn
<1>5. \A j \in TurnIds : /\ TurnInv(next[j])
                         /\ next[j].status = "running" => turns[t][j].status = "running"
  BY <1>2, NewTurnTurn
<1>6. Save(t, next)
  OBVIOUS
<1> HIDE DEF next
<1> QED
  BY <1>3, <1>4, <1>5, <1>6, SavesRow

LEMMA FinishProjectKeeps ==
  ASSUME IInv, NEW t \in Tasks, NEW i \in TurnIds, NEW k \in Tokens, FinishProject(t, i, k)
  PROVE  Keeps
<1> DEFINE r    == turns[t][i]
           done == [r EXCEPT !.status = r.project, !.jobToken = NoToken,
                             !.completed = k, !.project = "none"]
           bad  == [done EXCEPT !.planBlocked = TRUE]
           good == [done EXCEPT !.planBlocked = FALSE]
           row  == [turns[t] EXCEPT ![i] = good]
<1>1. r \in Turn /\ TurnInv(r)
  BY TurnOf
<1>2. r.project \in {"failed", "review", "submitted"} /\ r.status = "running"
  BY <1>1 DEF FinishProject, Holds, Plans, Turn
<1>3. \/ SaveTurn(t, i, bad)
      \/ /\ len[t] < MaxTurns
         /\ Save(t, [row EXCEPT ![len[t] + 1] = NewTurn])
         /\ len' = [len EXCEPT ![t] = @ + 1]
         /\ UNCHANGED closed
         /\ RowOnly
  <2>1. CASE SaveTurn(t, i, bad)
    BY <2>1
  <2>2. CASE ~SaveTurn(t, i, bad)
    <3>1. /\ len[t] < MaxTurns
          /\ Save(t, [turns[t] EXCEPT ![i] = good, ![len[t] + 1] = NewTurn])
          /\ len' = [len EXCEPT ![t] = @ + 1]
          /\ UNCHANGED closed
          /\ RowOnly
      BY <2>2 DEF FinishProject
    <3> QED
      BY <3>1
  <2> QED
    BY <2>1, <2>2
<1> HIDE DEF r
<1>4. done \in Turn /\ done.status # "running" /\ TurnInv(done)
  BY <1>1, <1>2 DEF Turn, Status, Token, TurnInv, Active
<1> HIDE DEF done
<1>5. /\ bad \in Turn /\ bad.status # "running" /\ TurnInv(bad)
      /\ good \in Turn /\ good.status # "running" /\ TurnInv(good)
  BY <1>4 DEF Turn, TurnInv
<1> HIDE DEF bad, good
<1>6. CASE SaveTurn(t, i, bad)
  BY <1>5, <1>6, SavesTurn
<1>7. turns[t] \in [TurnIds -> Turn] /\ \A j \in TurnIds : TurnInv(turns[t][j])
  BY DEF IInv, TypeOK, TurnsInv
<1>8. /\ row \in [TurnIds -> Turn]
      /\ \A j \in TurnIds : /\ TurnInv(row[j])
                            /\ row[j].status = "running" => turns[t][j].status = "running"
  BY <1>5, <1>7
<1> HIDE DEF row
<1>9. UNCHANGED closed => closed' \in [Tasks -> BOOLEAN]
  BY DEF IInv, TypeOK
<1> QED
  BY <1>3, <1>6, <1>8, <1>9, AppendsTurn

LEMMA FinishRunKeeps ==
  ASSUME IInv, NEW t \in Tasks, NEW i \in TurnIds, NEW k \in Tokens,
         NEW success \in BOOLEAN, NEW outcome \in Outcome, NEW runtime \in BOOLEAN,
         FinishRun(t, i, k, success, outcome, runtime)
  PROVE  Keeps
<1> DEFINE f   == Finished(turns[t][i], k, success, outcome, runtime)
           row == [turns[t] EXCEPT ![i] = f]
<1>1. turns[t] \in [TurnIds -> Turn] /\ \A j \in TurnIds : TurnInv(turns[t][j])
  BY DEF IInv, TypeOK, TurnsInv
<1>2. turns[t][i].status = "running"
  BY DEF FinishRun, Holds
<1>3. f \in Turn /\ TurnInv(f) /\ f.status # "running"
  BY <1>1, <1>2, FinishedTurn
<1>4. /\ RowOnly
      /\ \/ Save(t, row) /\ UNCHANGED len /\ UNCHANGED closed
         \/ /\ MayAppend(t, i, row)
            /\ Save(t, [row EXCEPT ![len[t] + 1] = NewTurn])
            /\ len' = [len EXCEPT ![t] = @ + 1]
            /\ UNCHANGED closed
         \/ /\ Save(t, row) /\ UNCHANGED len
            /\ closed' = [closed EXCEPT ![t] = TRUE]
  BY DEF FinishRun
<1> HIDE DEF f
<1>5. /\ row \in [TurnIds -> Turn]
      /\ \A j \in TurnIds : /\ TurnInv(row[j])
                            /\ row[j].status = "running" => turns[t][j].status = "running"
  BY <1>1, <1>3
<1> HIDE DEF row
<1>6. len \in [Tasks -> TurnIds] /\ closed \in [Tasks -> BOOLEAN]
  BY DEF IInv, TypeOK
<1>7. CASE Save(t, row) /\ UNCHANGED len /\ UNCHANGED closed
  <2>1. len' \in [Tasks -> TurnIds] /\ closed' \in [Tasks -> BOOLEAN]
    BY <1>6, <1>7
  <2> QED
    BY <1>4, <1>5, <1>7, <2>1, SavesRow
<1>8. CASE /\ MayAppend(t, i, row)
           /\ Save(t, [row EXCEPT ![len[t] + 1] = NewTurn])
           /\ len' = [len EXCEPT ![t] = @ + 1]
           /\ UNCHANGED closed
  <2>1. len[t] < MaxTurns
    BY <1>8 DEF MayAppend
  <2>2. closed' \in [Tasks -> BOOLEAN]
    BY <1>6, <1>8
  <2> QED
    BY <1>4, <1>5, <1>8, <2>1, <2>2, AppendsTurn
<1>9. CASE Save(t, row) /\ UNCHANGED len /\ closed' = [closed EXCEPT ![t] = TRUE]
  <2>1. len' \in [Tasks -> TurnIds] /\ closed' \in [Tasks -> BOOLEAN]
    BY <1>6, <1>9
  <2> QED
    BY <1>4, <1>5, <1>9, <2>1, SavesRow
<1> QED
  BY <1>4, <1>7, <1>8, <1>9

-----------------------------------------------------------------------------
(* The user's operations. *)

LEMMA EnqueueKeeps ==
  ASSUME IInv, NEW t \in Tasks, Enqueue(t)
  PROVE  Keeps
<1>1. turns[t] \in [TurnIds -> Turn] /\ \A j \in TurnIds : TurnInv(turns[t][j])
  BY DEF IInv, TypeOK, TurnsInv
<1>2. UNCHANGED closed => closed' \in [Tasks -> BOOLEAN]
  BY DEF IInv, TypeOK
<1> QED
  BY <1>1, <1>2, AppendsTurn DEF Enqueue

\* A user's operation on a turn that does not run gives it another status and
\* other marks, but touches neither its tokens nor its block.
LEMMA MarksTurn ==
  ASSUME IInv, NEW t \in Tasks, NEW i \in TurnIds, NEW q \in Turn, SaveTurn(t, i, q),
         turns[t][i].status # "running", q.status \notin {"running", "absent"},
         q.status = "queued" => ~turns[t][i].blocked,
         q.jobToken = turns[t][i].jobToken, q.blocked = turns[t][i].blocked,
         q.recoveryToken = turns[t][i].recoveryToken
  PROVE  Keeps
<1>1. TurnInv(turns[t][i])
  BY TurnOf
<1>2. TurnInv(q)
  BY <1>1 DEF TurnInv, Active
<1> QED
  BY <1>2, SavesTurn

LEMMA RetryKeeps ==
  ASSUME IInv, NEW t \in Tasks, NEW i \in TurnIds, NEW work \in RetryWork, Retry(t, i, work)
  PROVE  Keeps
<1> DEFINE r == turns[t][i]
           project == CASE work = "plan"    -> r.status
                        [] work = "prepare" -> "none"
                        [] OTHER            -> r.project
           again == r.stageRecovery # "none" /\ work # "replan" /\ project = "none"
           retrying == r.retrying \/ again
           q == [r EXCEPT !.status = "queued", !.project = project, !.retrying = retrying]
<1>1. r \in Turn
  BY TurnOf
<1>2. SaveTurn(t, i, q)
  BY DEF Retry
<1>3. r.status \in {"failed", "review"} /\ ~r.blocked
  BY DEF Retry, CanRetry, BlockedProjectRetryAllowed, Pending, Blocked
<1> HIDE DEF r
<1>4. project \in {"none", "failed", "review", "submitted"} /\ retrying \in BOOLEAN
  BY <1>1, <1>3 DEF Turn, RetryWork
<1> HIDE DEF project, retrying, again
<1>5. /\ q \in Turn /\ q.status = "queued"
      /\ q.jobToken = r.jobToken /\ q.blocked = r.blocked
      /\ q.recoveryToken = r.recoveryToken
  BY <1>1, <1>4 DEF Turn, Status
<1> HIDE DEF q
<1> QED
  BY <1>2, <1>3, <1>5, MarksTurn DEF r

LEMMA RetryValidationKeeps ==
  ASSUME IInv, NEW t \in Tasks, NEW i \in TurnIds, RetryValidation(t, i)
  PROVE  Keeps
<1> DEFINE r == turns[t][i]
           s == IF HistoricalValidationRetryAllowed(t, i) THEN "historical" ELSE "validation"
           q == [r EXCEPT !.stageRecovery = s, !.retrying = TRUE, !.project = "none",
                          !.status = "queued"]
<1>1. r \in Turn
  BY TurnOf
<1>2. SaveTurn(t, i, q)
  BY DEF RetryValidation
<1>3. r.status # "running" /\ ~r.blocked
  BY DEF RetryValidation, HistoricalValidationRetryAllowed, ValidationRetryAllowed
<1>4. s \in Recovery
  BY DEF Recovery
<1> HIDE DEF r, s
<1>5. /\ q \in Turn /\ q.status = "queued"
      /\ q.jobToken = r.jobToken /\ q.blocked = r.blocked
      /\ q.recoveryToken = r.recoveryToken
  BY <1>1, <1>4 DEF Turn, Status
<1> HIDE DEF q
<1> QED
  BY <1>2, <1>3, <1>5, MarksTurn DEF r

LEMMA OtherMarksKeep ==
  ASSUME IInv, NEW t \in Tasks, NEW i \in TurnIds,
         RetryPlan(t, i) \/ Assess(t, i) \/ Exclude(t, i) \/ Submit(t, i)
  PROVE  Keeps
<1> DEFINE r == turns[t][i]
<1>1. r \in Turn
  BY TurnOf
<1>2. CASE RetryPlan(t, i)
  <2> DEFINE q == [r EXCEPT !.status = "queued"]
  <2>1. SaveTurn(t, i, q) /\ r.status # "running" /\ ~r.blocked
    BY <1>2 DEF RetryPlan, Pending, Blocked
  <2> HIDE DEF r
  <2>2. /\ q \in Turn /\ q.status = "queued"
        /\ q.jobToken = r.jobToken /\ q.blocked = r.blocked
        /\ q.recoveryToken = r.recoveryToken
    BY <1>1 DEF Turn, Status
  <2> HIDE DEF q
  <2> QED
    BY <2>1, <2>2, MarksTurn DEF r
<1>3. CASE Assess(t, i)
  <2> DEFINE q == [r EXCEPT !.status = "review"]
  <2>1. SaveTurn(t, i, q) /\ r.status # "running"
    BY <1>3 DEF Assess
  <2> HIDE DEF r
  <2>2. /\ q \in Turn /\ q.status = "review"
        /\ q.jobToken = r.jobToken /\ q.blocked = r.blocked
        /\ q.recoveryToken = r.recoveryToken
    BY <1>1 DEF Turn, Status
  <2> HIDE DEF q
  <2> QED
    BY <2>1, <2>2, MarksTurn DEF r
<1>4. CASE Exclude(t, i)
  <2> DEFINE q == [r EXCEPT !.excluded = TRUE]
  <2>1. SaveTurn(t, i, q) /\ r.status \in {"failed", "review"}
    BY <1>4 DEF Exclude
  <2> HIDE DEF r
  <2>2. /\ q \in Turn /\ q.status = r.status
        /\ q.jobToken = r.jobToken /\ q.blocked = r.blocked
        /\ q.recoveryToken = r.recoveryToken
    BY <1>1 DEF Turn, Status
  <2> HIDE DEF q
  <2> QED
    BY <2>1, <2>2, MarksTurn DEF r
<1>5. CASE Submit(t, i)
  <2> DEFINE q == [r EXCEPT !.status = "submitted", !.receipt = TRUE]
  <2>1. SaveTurn(t, i, q) /\ r.status # "running"
    BY <1>5 DEF Submit
  <2> HIDE DEF r
  <2>2. /\ q \in Turn /\ q.status = "submitted"
        /\ q.jobToken = r.jobToken /\ q.blocked = r.blocked
        /\ q.recoveryToken = r.recoveryToken
    BY <1>1 DEF Turn, Status
  <2> HIDE DEF q
  <2> QED
    BY <2>1, <2>2, MarksTurn DEF r
<1> QED
  BY <1>2, <1>3, <1>4, <1>5

\* close, resume-project and the handlers of other data save the row as it is.
LEMMA SavesDataKeeps ==
  ASSUME IInv, NEW t \in Tasks, Close(t) \/ ResumeProject(t) \/ SaveData(t)
  PROVE  Keeps
<1>1. turns[t] \in [TurnIds -> Turn] /\ \A j \in TurnIds : TurnInv(turns[t][j])
  BY DEF IInv, TypeOK, TurnsInv
<1>2. Save(t, turns[t]) /\ UNCHANGED len /\ RowOnly
  BY DEF Close, ResumeProject, SetClosed, SaveData
<1>3. len' \in [Tasks -> TurnIds]
  BY <1>2 DEF IInv, TypeOK
<1>4. closed' \in [Tasks -> BOOLEAN]
  BY DEF Close, ResumeProject, SetClosed, SaveData, IInv, TypeOK
<1> QED
  BY <1>1, <1>2, <1>3, <1>4, SavesRow

-----------------------------------------------------------------------------
(* Claims. *)

LEMMA SelectsSound ==
  ASSUME IInv, NEW t \in Tasks, NEW w \in Work, NEW late, Selects(t, w, late)
  PROVE  /\ w.turn \in TurnIds
         /\ \A i \in TurnIds : turns[t][i].status # "running"
         /\ ~turns[t][w.turn].blocked
         /\ w.plan => turns[t][w.turn].status \in {"failed", "review", "submitted"}
<1>1. w.turn \in TurnIds
  BY DEF Selects, Selected
<1>2. \A i \in TurnIds : turns[t][i].status # "running"
  BY DEF Selects, Claimable
<1>3. w.plan => turns[t][w.turn].status \in {"failed", "review", "submitted"}
  BY DEF Selects, RecoverProject
<1>4. w.stage \/ w.plan => ~turns[t][w.turn].blocked
  BY <1>1 DEF Selects, RetryStage, RecoverProject, Pending, Blocked
<1>5. turns[t][w.turn].status = "queued" => ~turns[t][w.turn].blocked
  BY <1>1, TurnOf DEF TurnInv, Active
<1> QED
  BY <1>1, <1>2, <1>3, <1>4, <1>5 DEF Selects

LEMMA ClaimReadKeeps ==
  ASSUME IInv, NEW h \in Handlers, ClaimRead(h)
  PROVE  Keeps
<1>0. PICK late \in SUBSET Deferred : \E p \in Offers(late) :
        /\ pick' = [pick EXCEPT ![h] = p]
        /\ fresh' = [fresh EXCEPT ![h] = {t \in Tasks : p[t] # NoWork}]
  BY DEF ClaimRead
<1>1. PICK p \in Offers(late) :
        /\ pick' = [pick EXCEPT ![h] = p]
        /\ fresh' = [fresh EXCEPT ![h] = {t \in Tasks : p[t] # NoWork}]
  BY <1>0
<1>2. PICK c \in 1 .. config.concurrency : capacity' = [capacity EXCEPT ![h] = c]
  BY DEF ClaimRead
<1>3. UNCHANGED <<turns, len, closed, config, jobs>>
  BY DEF ClaimRead
<1>4. p \in [Tasks -> Work]
  BY DEF Offers
<1>5. c \in 0 .. MaxConcurrency
  <2>1. config.concurrency \in 1 .. MaxConcurrency
    BY DEF IInv, TypeOK, Config
  <2> QED
    BY <2>1, TaskQueueAssumption
<1>6. TypeOK'
  BY <1>1, <1>2, <1>3, <1>4, <1>5 DEF IInv, TypeOK, Config
<1>7. TurnsInv' /\ OneRunningPerTask' /\ RunningBound'
  BY <1>3 DEF IInv, TurnsInv, TurnInv, OneRunningPerTask, RunningBound, Running
<1>8. PickInv'
  <2> SUFFICES ASSUME NEW g \in Handlers, NEW t \in fresh'[g]
               PROVE  LET w == pick'[g][t] IN
                      /\ w.turn \in TurnIds
                      /\ \A i \in TurnIds : turns'[t][i].status # "running"
                      /\ ~turns'[t][w.turn].blocked
                      /\ w.plan => turns'[t][w.turn].status \in {"failed", "review", "submitted"}
    BY DEF PickInv
  <2>1. fresh \in [Handlers -> SUBSET Tasks] /\ pick \in [Handlers -> [Tasks -> Work]]
    BY DEF IInv, TypeOK
  <2>2. CASE g = h
    <3>1. t \in Tasks /\ p[t] # NoWork /\ pick'[g][t] = p[t]
      BY <1>1, <2>1, <2>2
    <3>2. p[t] \in Work /\ Selects(t, p[t], late)
      BY <1>4, <3>1 DEF Offers
    <3> QED
      BY <1>3, <3>1, <3>2, SelectsSound
  <2>3. CASE g # h
    <3>1. t \in fresh[g] /\ pick'[g] = pick[g]
      BY <1>1, <2>1, <2>3
    <3> QED
      BY <1>3, <3>1 DEF IInv, PickInv
  <2> QED
    BY <2>2, <2>3
<1> QED
  BY <1>3, <1>6, <1>7, <1>8 DEF IInv, Keeps, StartsNothing, Starts

LEMMA ClaimMissKeeps ==
  ASSUME IInv, NEW h \in Handlers, NEW t \in Tasks, ClaimMiss(h, t)
  PROVE  Keeps
<1>1. /\ pick \in [Handlers -> [Tasks -> Work]] /\ fresh \in [Handlers -> SUBSET Tasks]
      /\ capacity \in [Handlers -> 0 .. MaxConcurrency]
  BY DEF IInv, TypeOK
<1>2. NoWork \in Work
  BY TaskQueueAssumption DEF NoWork, Work
<1>3. /\ UNCHANGED <<turns, len, closed, config, jobs>>
      /\ pick' = [pick EXCEPT ![h][t] = NoWork]
      /\ fresh' = [fresh EXCEPT ![h] = @ \ {t}]
  BY DEF ClaimMiss
<1>4. capacity' \in [Handlers -> 0 .. MaxConcurrency]
  <2>1. 0 \in 0 .. MaxConcurrency
    BY TaskQueueAssumption
  <2>2. capacity' \in {capacity, [capacity EXCEPT ![h] = 0]}
    BY DEF ClaimMiss
  <2> QED
    BY <1>1, <2>1, <2>2
<1>5. pick' \in [Handlers -> [Tasks -> Work]] /\ fresh' \in [Handlers -> SUBSET Tasks]
  BY <1>1, <1>2, <1>3
<1>6. TypeOK'
  BY <1>3, <1>4, <1>5 DEF IInv, TypeOK, Config
<1>7. TurnsInv' /\ OneRunningPerTask' /\ RunningBound'
  BY <1>3 DEF IInv, TurnsInv, TurnInv, OneRunningPerTask, RunningBound, Running
<1>8. PickInv'
  <2> SUFFICES ASSUME NEW g \in Handlers, NEW u \in fresh'[g]
               PROVE  u \in fresh[g] /\ pick'[g][u] = pick[g][u]
    BY <1>3 DEF IInv, PickInv
  <2> QED
    BY <1>1, <1>3
<1> QED
  BY <1>3, <1>6, <1>7, <1>8 DEF IInv, Keeps, StartsNothing, Starts

LEMMA ClaimCommitKeeps ==
  ASSUME IInv, NEW h \in Handlers, NEW t \in Tasks, NEW k \in Tokens, ClaimCommit(h, t, k)
  PROVE  /\ IInv'
         /\ \A u \in Tasks, j \in TurnIds : Starts(u, j) => Drains(u, j)
<1> DEFINE w == pick[h][t]
           i == w.turn
           q == Claimed(turns[t][i], k, w)
<1>1. /\ turns \in [Tasks -> [TurnIds -> Turn]]
      /\ pick \in [Handlers -> [Tasks -> Work]] /\ fresh \in [Handlers -> SUBSET Tasks]
      /\ capacity \in [Handlers -> 0 .. MaxConcurrency]
      /\ jobs \subseteq Tasks \X TurnIds \X Tokens
  BY DEF IInv, TypeOK
<1>2. t \in fresh[h] /\ Cardinality(Running) < capacity[h]
  BY DEF ClaimCommit, Admits
<1>3. /\ i \in TurnIds
      /\ \A j \in TurnIds : turns[t][j].status # "running"
      /\ ~turns[t][i].blocked
      /\ w.plan => turns[t][i].status \in {"failed", "review", "submitted"}
  BY <1>2 DEF IInv, PickInv
<1>4. q \in Turn /\ TurnInv(q) /\ q.status = "running"
  <2>1. turns[t][i] \in Turn /\ TurnInv(turns[t][i]) /\ w \in Work
    BY <1>1, <1>3, TurnOf
  <2> HIDE DEF w
  <2> QED
    BY <1>3, <2>1, ClaimedTurn
<1>5. /\ turns' = [turns EXCEPT ![t][i] = q]
      /\ jobs' = jobs \cup {<<t, i, k>>}
      /\ pick' = [pick EXCEPT ![h] = [u \in Tasks |-> NoWork]]
      /\ capacity' = [capacity EXCEPT ![h] = 0]
      /\ fresh' = [g \in Handlers |-> IF g = h THEN {} ELSE fresh[g] \ {t}]
      /\ UNCHANGED <<len, closed, config>>
  BY <1>1, <1>3 DEF ClaimCommit
<1> HIDE DEF q, i, w
<1>6. \A u \in Tasks, j \in TurnIds :
        turns'[u][j] = IF u = t /\ j = i THEN q ELSE turns[u][j]
  BY <1>1, <1>3, <1>5
<1>7. TypeOK'
  <2>1. turns' \in [Tasks -> [TurnIds -> Turn]]
    BY <1>1, <1>3, <1>4, <1>5
  <2>2. jobs' \subseteq Tasks \X TurnIds \X Tokens
    BY <1>1, <1>3, <1>5
  <2>3. pick' \in [Handlers -> [Tasks -> Work]]
    BY <1>1, <1>5, TaskQueueAssumption DEF NoWork, Work
  <2>4. capacity' \in [Handlers -> 0 .. MaxConcurrency]
    BY <1>1, <1>5, TaskQueueAssumption
  <2>5. fresh' \in [Handlers -> SUBSET Tasks]
    BY <1>1, <1>5
  <2> QED
    BY <1>5, <2>1, <2>2, <2>3, <2>4, <2>5 DEF IInv, TypeOK, Config
<1>8. TurnsInv'
  <2> SUFFICES ASSUME NEW u \in Tasks, NEW j \in TurnIds
               PROVE  TurnInv(turns[u][j])'
    BY DEF TurnsInv
  <2>1. TurnInv(turns'[u][j])
    BY <1>4, <1>6, TurnOf
  <2> QED
    BY <2>1 DEF TurnInv
<1>9. PickInv'
  <2> SUFFICES ASSUME NEW g \in Handlers, NEW u \in fresh'[g]
               PROVE  u \in fresh[g] /\ u # t /\ u \in Tasks /\ pick'[g] = pick[g]
    BY <1>6 DEF IInv, PickInv
  <2> QED
    BY <1>1, <1>5
<1>10. OneRunningPerTask'
  BY <1>3, <1>6 DEF IInv, OneRunningPerTask
<1>11. RunningBound'
  <2> DEFINE more == Running \cup {<<t, i>>}
  <2>1. Running' \subseteq more
    BY <1>6 DEF Running
  <2>2. /\ IsFiniteSet(more)
        /\ Cardinality(more) = IF <<t, i>> \in Running THEN Cardinality(Running)
                               ELSE Cardinality(Running) + 1
    BY RunningFinite, FS_AddElement
  <2> HIDE DEF more
  <2>3. IsFiniteSet(Running') /\ Cardinality(Running') <= Cardinality(more)
    BY <2>1, <2>2, FS_Subset
  <2>4. Cardinality(Running) \in Nat /\ Cardinality(Running') \in Nat
    BY <2>3, RunningFinite, FS_CardinalityType
  <2>5. capacity[h] \in 0 .. MaxConcurrency
    BY <1>1
  <2>6. Cardinality(Running') <= MaxConcurrency
    BY <1>2, <2>2, <2>3, <2>4, <2>5, TaskQueueAssumption
  <2> QED
    BY <2>6 DEF RunningBound
<1>12. \A u \in Tasks, j \in TurnIds : Starts(u, j) => Drains(u, j)
  <2>1. Drains(t, i)
    BY DEF ClaimCommit, Admits, i, w
  <2> QED
    BY <1>6, <2>1 DEF Starts
<1> QED
  BY <1>7, <1>8, <1>9, <1>10, <1>11, <1>12 DEF IInv

-----------------------------------------------------------------------------
(* The specification. *)

LEMMA InitHolds == Init => IInv
<1> SUFFICES ASSUME Init PROVE IInv
  OBVIOUS
<1>1. 1 \in TurnIds
  BY TaskQueueAssumption DEF TurnIds
<1>2. turns \in [Tasks -> [TurnIds -> Turn]]
  BY AbsentTurn, NewTurnTurn DEF Init
<1>3. \A t \in Tasks, i \in TurnIds :
        turns[t][i] \in {NewTurn, Absent} /\ turns[t][i].status # "running"
  BY DEF Init, NewTurn, Absent
<1>4. TypeOK
  <2>1. config \in Config
    BY TaskQueueAssumption DEF Init, Config
  <2>2. pick \in [Handlers -> [Tasks -> Work]]
    BY TaskQueueAssumption DEF Init, NoWork, Work
  <2>3. capacity \in [Handlers -> 0 .. MaxConcurrency]
    BY TaskQueueAssumption DEF Init
  <2> QED
    BY <1>1, <1>2, <2>1, <2>2, <2>3 DEF Init, TypeOK
<1>5. TurnsInv
  BY <1>3, AbsentTurn, NewTurnTurn DEF TurnsInv
<1>6. PickInv
  BY DEF Init, PickInv
<1>7. OneRunningPerTask
  BY <1>3 DEF OneRunningPerTask
<1>8. RunningBound
  <2>1. Running = {}
    BY <1>3 DEF Running
  <2> QED
    BY <2>1, FS_EmptySet, TaskQueueAssumption DEF RunningBound
<1> QED
  BY <1>4, <1>5, <1>6, <1>7, <1>8 DEF IInv

LEMMA StepKeeps ==
  IInv /\ [Next]_vars
    => IInv' /\ \A t \in Tasks, i \in TurnIds : Starts(t, i) => Drains(t, i)
<1> DEFINE Drained == \A t \in Tasks, i \in TurnIds : Starts(t, i) => Drains(t, i)
<1> SUFFICES ASSUME IInv, [Next]_vars PROVE IInv' /\ Drained
  OBVIOUS
<1>0. Keeps => IInv' /\ Drained
  BY DEF Keeps, StartsNothing
<1> HIDE DEF Drained
<1>1. CASE UNCHANGED vars
  <2>1. IInv'
    BY <1>1 DEF vars, IInv, TypeOK, TurnsInv, TurnInv, PickInv, OneRunningPerTask,
                RunningBound, Running, Config
  <2>2. Drained
    BY <1>1 DEF vars, Starts, Drained
  <2> QED
    BY <2>1, <2>2
<1>2. CASE \E h \in Handlers : ClaimRead(h)
  BY <1>0, <1>2, ClaimReadKeeps
<1>3. CASE \E h \in Handlers, t \in Tasks :
             (\E k \in Tokens : ClaimCommit(h, t, k)) \/ ClaimMiss(h, t)
  BY <1>0, <1>3, ClaimCommitKeeps, ClaimMissKeeps DEF Drained
<1>4. CASE \E c \in jobs : Report(c[1], c[2], c[3])
  <2>1. PICK c \in jobs : Report(c[1], c[2], c[3])
    BY <1>4
  <2> DEFINE t == c[1]
             i == c[2]
             k == c[3]
  <2>2. t \in Tasks /\ i \in TurnIds /\ k \in Tokens
    BY DEF IInv, TypeOK
  <2> HIDE DEF t, i, k
  <2>3. Report(t, i, k)
    BY <2>1 DEF t, i, k
  <2>4. CASE Reserve(t, i, k)
    BY <1>0, <2>2, <2>4, ReserveKeeps
  <2>5. CASE HandoffObserver(t, i, k)
    BY <1>0, <2>2, <2>5, HandoffObserverKeeps
  <2>6. CASE \E live, salvage \in BOOLEAN : Recover(t, i, k, live, salvage)
    BY <1>0, <2>2, <2>6, RecoverKeeps
  <2>7. CASE FinishProject(t, i, k)
    BY <1>0, <2>2, <2>7, FinishProjectKeeps
  <2>8. CASE \E success, runtime \in BOOLEAN : \E outcome \in Outcome :
               FinishRun(t, i, k, success, outcome, runtime)
    BY <1>0, <2>2, <2>8, FinishRunKeeps
  <2> QED
    BY <2>3, <2>4, <2>5, <2>6, <2>7, <2>8 DEF Report
<1>5. CASE \E t \in Tasks : Enqueue(t) \/ Close(t) \/ ResumeProject(t) \/ SaveData(t)
  BY <1>0, <1>5, EnqueueKeeps, SavesDataKeeps
<1>6. CASE \E t \in Tasks, i \in TurnIds : UserStep(t, i)
  BY <1>0, <1>6, RetryKeeps, RetryValidationKeeps, OtherMarksKeep DEF UserStep
<1>7. CASE SetScheduler
  <2>1. /\ config' \in Config
        /\ UNCHANGED <<turns, len, closed, jobs, pick, capacity, fresh>>
    BY <1>7 DEF SetScheduler
  <2> QED
    <3>1. TypeOK' /\ TurnsInv'
      BY <1>0, <2>1 DEF IInv, TypeOK, TurnsInv
    <3>2. PickInv' /\ OneRunningPerTask' /\ RunningBound'
      BY <1>0, <2>1 DEF IInv, PickInv, OneRunningPerTask, RunningBound, Running
    <3>3. StartsNothing
      BY <2>1 DEF StartsNothing, Starts
    <3> QED
      BY <1>0, <3>1, <3>2, <3>3 DEF IInv, Keeps
<1> QED
  BY <1>1, <1>2, <1>3, <1>4, <1>5, <1>6, <1>7 DEF Next

\* The strengthened invariant holds in every reachable state.
THEOREM Inductive == Spec => []IInv
BY InitHolds, StepKeeps, PTL DEF Spec

\* The store, the claim handlers' snapshots and the tokens keep their types
\* under every interleaving of claims, reports and user operations.
THEOREM TypeCorrect == Spec => []TypeOK
<1>1. IInv => TypeOK
  BY DEF IInv
<1> QED
  BY <1>1, Inductive, PTL

\* Never more turns run than the largest concurrency the scheduler accepts,
\* although every claim compares with a limit it read earlier.
THEOREM ConcurrencyRespected == Spec => []RunningBound
<1>1. IInv => RunningBound
  BY DEF IInv
<1> QED
  BY <1>1, Inductive, PTL

\* Two turns of one task never run at once: a claim decides on an old snapshot,
\* and the revision of the row makes that decision safe.
THEOREM MutualExclusionPerTask == Spec => []OneRunningPerTask
<1>1. IInv => OneRunningPerTask
  BY DEF IInv
<1> QED
  BY <1>1, Inductive, PTL

\* A turn runs exactly while it holds a job token.
THEOREM TokensFollowRunning == Spec => []JobTokenIffRunning
<1>1. IInv => JobTokenIffRunning
  BY DEF IInv, TurnsInv, TurnInv, JobTokenIffRunning
<1> QED
  BY <1>1, Inductive, PTL

\* A turn whose interrupted attempt has living children is neither queued nor
\* run, and it is blocked exactly while the attempt may still be recovered.
THEOREM BlockedTurnsIdle == Spec => []BlockedIdle
<1>1. IInv => BlockedIdle
  BY DEF IInv, TurnsInv, TurnInv, BlockedIdle
<1> QED
  BY <1>1, Inductive, PTL

\* An attempt starts only for a turn the scheduler admits at that moment, and
\* nothing but the commit of a claim starts one.
THEOREM AdmissionRespected == Spec => DrainRespected
<1> DEFINE Drained == \A t \in Tasks, i \in TurnIds : Starts(t, i) => Drains(t, i)
<1>1. IInv /\ [Next]_vars => [Drained]_vars
  BY StepKeeps
<1> QED
  BY <1>1, Inductive, PTL DEF Spec, DrainRespected

-----------------------------------------------------------------------------
(* Work behind the last turn, and the life of the attempts. *)

\* A turn that may be worked on: the last of an open project, or one whose old
\* evaluation is validated again.
InPlace(t, i) ==
  (~closed[t] /\ IsLast(t, i)) \/ turns[t][i].stageRecovery = "historical"

Occupied(r) == r.status \in Active \/ r.blocked

\* A row ends with its last turn, and what is queued, running or blocked in it
\* is in place.
RowsInv ==
  \A t \in Tasks, i \in TurnIds :
    /\ i > len[t] => turns[t][i] = Absent
    /\ i <= len[t] => turns[t][i].status # "absent"
    /\ Occupied(turns[t][i]) => InPlace(t, i)

\* So is the work a handler has picked, as long as the row is unchanged.
PicksInPlace ==
  \A h \in Handlers : \A t \in fresh[h] :
    LET i == pick[h][t].turn IN i <= len[t] /\ InPlace(t, i)

BInv == RowsInv /\ PicksInPlace

\* A step of the abstract store, or none.
StoreStep == Store!Next \/ UNCHANGED <<Leases, Issued>>

LEMMA LeaseAt ==
  ASSUME NEW t \in Tasks, NEW i \in TurnIds
  PROVE  <<t, i>> \in Tasks \X TurnIds /\ Leases[<<t, i>>] = LeaseOf(turns[t][i])
BY DEF Leases

\* The steps of the abstract store, in terms of the turn they are about.
LEMMA BeginStep ==
  ASSUME IInv, NEW t \in Tasks, NEW i \in TurnIds, NEW k \in Tokens,
         k \notin Issued, Issued' = Issued \cup {k},
         \A j \in TurnIds : turns[t][j].jobToken = NoToken,
         turns[t][i].recoveryToken = NoToken,
         Leases' = [Leases EXCEPT ![<<t, i>>].running = k]
  PROVE  Store!Next
<1>1. <<t, i>> \in Store!TurnRef
  BY DEF Store!TurnRef, TurnIds
<1>2. Leases[<<t, i>>].parked = NoToken
  <2>1. Leases[<<t, i>>] = LeaseOf(turns[t][i])
    BY LeaseAt
  <2> QED
    BY <2>1 DEF LeaseOf
<1>3. \A u \in Store!TurnRef : u[1] = t => Leases[u].running = NoToken
  BY DEF Store!TurnRef, TurnIds, Leases, LeaseOf
<1>4. Store!Begin(<<t, i>>, k)
  BY <1>2, <1>3 DEF Store!Begin, Store!TaskIdle
<1> QED
  BY <1>1, <1>4 DEF Store!Next

LEMMA FinishStep ==
  ASSUME NEW t \in Tasks, NEW i \in TurnIds, NEW k \in Tokens,
         Holds(t, i, k), ~Superseded(turns[t][i], k), Issued' = Issued,
         Leases' = [Leases EXCEPT ![<<t, i>>] = [@ EXCEPT !.running = NoToken, !.completed = k]]
  PROVE  Store!Next
<1>1. <<t, i>> \in Store!TurnRef
  BY DEF Store!TurnRef, TurnIds
<1>2. Leases[<<t, i>>].running = k /\ Leases[<<t, i>>].handedOff # k
  <2>1. Leases[<<t, i>>] = LeaseOf(turns[t][i])
    BY LeaseAt
  <2> QED
    BY <2>1 DEF LeaseOf, Holds, Superseded
<1>3. Store!Finish(<<t, i>>, k)
  BY <1>2 DEF Store!Finish, Store!Superseded
<1> QED
  BY <1>1, <1>3 DEF Store!Next

LEMMA HandOffStep ==
  ASSUME NEW t \in Tasks, NEW i \in TurnIds, NEW k \in Tokens,
         Holds(t, i, k), ~Superseded(turns[t][i], k), Issued' = Issued,
         Leases' = [Leases EXCEPT ![<<t, i>>] = [@ EXCEPT !.running = NoToken, !.handedOff = k]]
  PROVE  Store!Next
<1>1. <<t, i>> \in Store!TurnRef
  BY DEF Store!TurnRef, TurnIds
<1>2. Leases[<<t, i>>].running = k /\ Leases[<<t, i>>].handedOff # k
  <2>1. Leases[<<t, i>>] = LeaseOf(turns[t][i])
    BY LeaseAt
  <2> QED
    BY <2>1 DEF LeaseOf, Holds, Superseded
<1>3. Store!HandOff(<<t, i>>, k)
  BY <1>2 DEF Store!HandOff, Store!Superseded
<1> QED
  BY <1>1, <1>3 DEF Store!Next

LEMMA RecoverStep ==
  ASSUME NEW t \in Tasks, NEW i \in TurnIds, NEW k \in Tokens, NEW live \in BOOLEAN,
         Owns(turns[t][i], k), ~Superseded(turns[t][i], k), turns[t][i].completed # k,
         Issued' = Issued,
         Leases' = [Leases EXCEPT ![<<t, i>>] =
                      [@ EXCEPT !.running = NoToken, !.parked = IF live THEN k ELSE NoToken]]
  PROVE  Store!Next
<1>1. <<t, i>> \in Store!TurnRef
  BY DEF Store!TurnRef, TurnIds
<1>2. Store!Owns(<<t, i>>, k) /\ ~Store!Superseded(<<t, i>>, k)
      /\ ~Store!Completed(<<t, i>>, k)
  <2>1. Leases[<<t, i>>] = LeaseOf(turns[t][i])
    BY LeaseAt
  <2> QED
    BY <2>1 DEF LeaseOf, Owns, Superseded, Store!Owns, Store!Superseded, Store!Completed
<1>3. Store!Recover(<<t, i>>, k, live)
  BY <1>2 DEF Store!Recover
<1> QED
  BY <1>1, <1>3 DEF Store!Next

-----------------------------------------------------------------------------
(* What a handler that saves one row does to both. *)

\* turn i of row t becomes q; a new question may follow, the project may end
Rewrites(t, i, q) ==
  /\ \/ len' = len
     \/ len[t] < MaxTurns /\ len' = [len EXCEPT ![t] = @ + 1]
  /\ turns' = [turns EXCEPT ![t] =
       [j \in TurnIds |-> IF j = i THEN q
                          ELSE IF len' # len /\ j = len[t] + 1 THEN NewTurn
                          ELSE turns[t][j]]]
  /\ fresh' = [h \in Handlers |-> fresh[h] \ {t}]
  /\ \A u \in Tasks \ {t} : closed'[u] = closed[u]
  /\ RowOnly

LEMMA SaveTurnRewrites ==
  ASSUME IInv, NEW t \in Tasks, NEW i \in TurnIds, NEW q, SaveTurn(t, i, q)
  PROVE  Rewrites(t, i, q) /\ len' = len /\ closed' = closed
<1>1. turns[t] \in [TurnIds -> Turn]
  BY DEF IInv, TypeOK
<1>2. [turns[t] EXCEPT ![i] = q]
        = [j \in TurnIds |-> IF j = i THEN q ELSE turns[t][j]]
  BY <1>1
<1> QED
  BY <1>2 DEF SaveTurn, Save, Rewrites

LEMMA RewrittenRows ==
  ASSUME IInv, NEW t \in Tasks, NEW i \in TurnIds, NEW q, Rewrites(t, i, q),
         NEW u \in Tasks, NEW j \in TurnIds
  PROVE  turns'[u][j] = IF u # t THEN turns[u][j]
                        ELSE IF j = i THEN q
                        ELSE IF len' # len /\ j = len[t] + 1 THEN NewTurn
                        ELSE turns[t][j]
BY DEF Rewrites, IInv, TypeOK

LEMMA RewritesRows ==
  ASSUME IInv, BInv, NEW t \in Tasks, NEW i \in TurnIds, NEW q, Rewrites(t, i, q),
         turns[t][i].status # "absent", q.status # "absent",
         Occupied(q) => \/ ~closed'[t] /\ len' = len /\ IsLast(t, i)
                        \/ q.stageRecovery = "historical",
         \/ len' = len /\ closed'[t] = closed[t]
         \/ \A j \in TurnIds \ {i} : Occupied(turns[t][j])
                                      => turns[t][j].stageRecovery = "historical",
         len' # len => ~closed'[t]
  PROVE  BInv'
<1>1. /\ len \in [Tasks -> TurnIds] /\ fresh \in [Handlers -> SUBSET Tasks]
      /\ TurnIds \subseteq Nat
  BY DEF IInv, TypeOK, TurnIds
<1>2. i <= len[t]
  <2>1. i > len[t] => turns[t][i] = Absent
    BY DEF BInv, RowsInv
  <2>2. Absent.status = "absent"
    BY DEF Absent
  <2>3. i \in Nat /\ len[t] \in Nat
    BY <1>1
  <2> QED
    BY <2>1, <2>2, <2>3
<1>3. \A u \in Tasks : len'[u] = IF u = t /\ len' # len THEN len[t] + 1 ELSE len[u]
  BY <1>1 DEF Rewrites
<1>4. RowsInv'
  <2> SUFFICES ASSUME NEW u \in Tasks, NEW j \in TurnIds
               PROVE  /\ j > len'[u] => turns'[u][j] = Absent
                      /\ j <= len'[u] => turns'[u][j].status # "absent"
                      /\ Occupied(turns'[u][j]) =>
                           \/ ~closed'[u] /\ j = len'[u]
                           \/ turns'[u][j].stageRecovery = "historical"
    BY DEF RowsInv, Occupied, InPlace, IsLast
  <2>1. /\ j > len[u] => turns[u][j] = Absent
        /\ j <= len[u] => turns[u][j].status # "absent"
        /\ Occupied(turns[u][j]) =>
             (~closed[u] /\ j = len[u]) \/ turns[u][j].stageRecovery = "historical"
    BY DEF BInv, RowsInv, InPlace, IsLast
  <2>2. CASE u # t
    <3>1. turns'[u][j] = turns[u][j] /\ len'[u] = len[u] /\ closed'[u] = closed[u]
      BY <1>3, <2>2, RewrittenRows DEF Rewrites
    <3> QED
      BY <2>1, <3>1
  <2>3. CASE u = t /\ j = i
    <3>1. turns'[u][j] = q
      BY <2>3, RewrittenRows
    <3> QED
      BY <1>1, <1>2, <1>3, <2>3, <3>1 DEF IsLast
  <2>4. CASE u = t /\ j # i /\ len' # len /\ j = len[t] + 1
    <3>1. turns'[u][j] = NewTurn /\ len'[u] = j
      BY <1>3, <2>4, RewrittenRows
    <3> QED
      BY <2>4, <3>1, NewTurnTurn, <1>1
  <2>5. CASE u = t /\ j # i /\ ~(len' # len /\ j = len[t] + 1)
    <3>1. turns'[u][j] = turns[t][j]
      BY <2>5, RewrittenRows
    <3>2. len[t] \in Nat /\ len'[t] \in {len[t], len[t] + 1} /\ j \in Nat
      BY <1>1, <1>3
    <3>3. /\ j > len'[u] => turns'[u][j] = Absent
          /\ j <= len'[u] => turns'[u][j].status # "absent"
      <4>1. /\ len'[t] = IF len' # len THEN len[t] + 1 ELSE len[t]
            /\ ~(len' # len /\ j = len[t] + 1)
        BY <1>3, <2>5
      <4>2. j <= len'[t] <=> j <= len[t]
        BY <3>2, <4>1
      <4>3. j > len'[t] <=> j > len[t]
        BY <3>2, <4>1
      <4>4. /\ j > len[t] => turns[t][j] = Absent
            /\ j <= len[t] => turns[t][j].status # "absent"
        BY <2>1, <2>5
      <4> HIDE DEF Rewrites
      <4>5. u = t
        BY <2>5
      <4> QED
        BY ONLY <3>1, <4>2, <4>3, <4>4, <4>5
    <3>4. CASE len' = len /\ closed'[t] = closed[t]
      BY <2>1, <2>5, <3>1, <3>3, <3>4
    <3>5. CASE \A n \in TurnIds \ {i} : Occupied(turns[t][n])
                                          => turns[t][n].stageRecovery = "historical"
      BY <2>5, <3>1, <3>3, <3>5
    <3> QED
      BY <3>4, <3>5
  <2> QED
    BY <2>2, <2>3, <2>4, <2>5
<1>5. PicksInPlace'
  <2> SUFFICES ASSUME NEW h \in Handlers, NEW u \in fresh'[h]
               PROVE  LET j == pick'[h][u].turn IN
                      /\ j <= len'[u]
                      /\ \/ ~closed'[u] /\ j = len'[u]
                         \/ turns'[u][j].stageRecovery = "historical"
    BY DEF PicksInPlace, InPlace, IsLast
  <2>1. u \in fresh[h] /\ u # t /\ u \in Tasks /\ pick' = pick
    BY <1>1 DEF Rewrites, RowOnly
  <2>2. pick[h][u].turn \in TurnIds
    BY <2>1 DEF IInv, PickInv
  <2>3. turns'[u] = turns[u] /\ len'[u] = len[u] /\ closed'[u] = closed[u]
    BY <1>3, <2>1 DEF Rewrites, IInv, TypeOK
  <2> QED
    BY <2>1, <2>2, <2>3 DEF BInv, PicksInPlace, InPlace, IsLast
<1> QED
  BY <1>4, <1>5 DEF BInv

LEMMA RewritesLease ==
  ASSUME IInv, BInv, NEW t \in Tasks, NEW i \in TurnIds, NEW q, Rewrites(t, i, q)
  PROVE  /\ Leases' = [Leases EXCEPT ![<<t, i>>] = LeaseOf(q)]
         /\ Issued' = Issued
<1>1. LeaseOf(NewTurn) = LeaseOf(Absent)
  BY DEF LeaseOf, NewTurn, Absent
<1>2. \A u \in Tasks, j \in TurnIds :
        LeaseOf(turns'[u][j]) = IF u = t /\ j = i THEN LeaseOf(q) ELSE LeaseOf(turns[u][j])
  <2> SUFFICES ASSUME NEW u \in Tasks, NEW j \in TurnIds
               PROVE  LeaseOf(turns'[u][j])
                        = IF u = t /\ j = i THEN LeaseOf(q) ELSE LeaseOf(turns[u][j])
    OBVIOUS
  <2>1. len[t] \in Nat
    BY DEF IInv, TypeOK, TurnIds
  <2>2. j = len[t] + 1 => turns[t][j] = Absent
    BY <2>1 DEF BInv, RowsInv
  <2> HIDE DEF LeaseOf
  <2> QED
    BY <1>1, <2>2, RewrittenRows
<1>3. Leases' = [Leases EXCEPT ![<<t, i>>] = LeaseOf(q)]
  <2>1. Leases' = [u \in Tasks \X TurnIds |-> LeaseOf(turns'[u[1]][u[2]])]
    BY DEF Leases, LeaseOf
  <2>2. Leases = [u \in Tasks \X TurnIds |-> LeaseOf(turns[u[1]][u[2]])]
    BY DEF Leases
  <2>3. \A u \in Tasks \X TurnIds :
          LeaseOf(turns'[u[1]][u[2]])
            = IF u = <<t, i>> THEN LeaseOf(q) ELSE LeaseOf(turns[u[1]][u[2]])
    BY <1>2
  <2> HIDE DEF LeaseOf
  <2> QED
    BY <2>1, <2>2, <2>3
<1> QED
  BY <1>3 DEF Rewrites, RowOnly, Issued

LEMMA LeaseType ==
  ASSUME NEW r \in Turn
  PROVE  LeaseOf(r) \in Store!Lease
BY DEF Turn, Token, LeaseOf, Store!Lease, Store!MaybeToken

LEMMA EqualLeases ==
  ASSUME NEW l \in Store!Lease, NEW m \in Store!Lease,
         l.running = m.running, l.parked = m.parked,
         l.completed = m.completed, l.handedOff = m.handedOff
  PROVE  l = m
BY DEF Store!Lease

\* An action of the task store keeps the rows in order, and is a step of the
\* life of an attempt or none.
Advances == BInv' /\ StoreStep

LEMMA SameLease ==
  ASSUME IInv, BInv, NEW t \in Tasks, NEW i \in TurnIds, NEW q, Rewrites(t, i, q),
         LeaseOf(q) = LeaseOf(turns[t][i])
  PROVE  StoreStep
<1>1. /\ Leases' = [Leases EXCEPT ![<<t, i>>] = LeaseOf(q)]
      /\ Issued' = Issued
  BY RewritesLease
<1>2. Leases = [u \in Tasks \X TurnIds |-> LeaseOf(turns[u[1]][u[2]])]
  BY DEF Leases
<1>3. [Leases EXCEPT ![<<t, i>>] = LeaseOf(q)] = Leases
  <2>1. Leases[<<t, i>>] = LeaseOf(turns[t][i])
    BY LeaseAt
  <2> HIDE DEF LeaseOf
  <2> QED
    BY <1>2, <2>1
<1> QED
  BY <1>1, <1>3 DEF StoreStep

LEMMA FinishAdvances ==
  ASSUME IInv, BInv, NEW t \in Tasks, NEW i \in TurnIds, NEW k \in Tokens, NEW q \in Turn,
         Rewrites(t, i, q), Holds(t, i, k), ~Superseded(turns[t][i], k),
         q.jobToken = NoToken, q.completed = k,
         q.recoveryToken = turns[t][i].recoveryToken, q.handedOff = turns[t][i].handedOff
  PROVE  StoreStep
<1>1. /\ Leases' = [Leases EXCEPT ![<<t, i>>] = LeaseOf(q)]
      /\ Issued' = Issued
  BY RewritesLease
<1>2. LeaseOf(q) = [LeaseOf(turns[t][i]) EXCEPT !.running = NoToken, !.completed = k]
  <2> DEFINE l == LeaseOf(turns[t][i])
             m == [l EXCEPT !.running = NoToken, !.completed = k]
             n == LeaseOf(q)
  <2>1. l \in Store!Lease /\ n \in Store!Lease
    BY LeaseType, TurnOf
  <2>2. /\ n.running = q.jobToken /\ n.parked = q.recoveryToken
        /\ n.completed = q.completed /\ n.handedOff = q.handedOff
        /\ l.running = turns[t][i].jobToken /\ l.parked = turns[t][i].recoveryToken
        /\ l.completed = turns[t][i].completed /\ l.handedOff = turns[t][i].handedOff
    BY DEF LeaseOf
  <2> HIDE DEF l, n
  <2>3. m \in Store!Lease
    BY <2>1 DEF Store!Lease, Store!MaybeToken
  <2>4. /\ m.running = n.running /\ m.parked = n.parked
        /\ m.completed = n.completed /\ m.handedOff = n.handedOff
    BY <2>1, <2>2 DEF Store!Lease
  <2> HIDE DEF m
  <2>5. n = m
    BY <2>1, <2>3, <2>4, EqualLeases
  <2> QED
    BY <2>5 DEF l, m, n
<1>3. /\ <<t, i>> \in Tasks \X TurnIds
      /\ Leases = [u \in Tasks \X TurnIds |-> LeaseOf(turns[u[1]][u[2]])]
      /\ Leases[<<t, i>>] = LeaseOf(turns[t][i])
  BY LeaseAt DEF Leases
<1>4. LeaseOf(q) = [Leases[<<t, i>>] EXCEPT !.running = NoToken, !.completed = k]
  BY <1>2, <1>3
<1>5. Leases' = [Leases EXCEPT ![<<t, i>>] = [@ EXCEPT !.running = NoToken, !.completed = k]]
  BY <1>1, <1>4
<1> QED
  BY <1>1, <1>5, FinishStep DEF StoreStep

LEMMA HandOffAdvances ==
  ASSUME IInv, BInv, NEW t \in Tasks, NEW i \in TurnIds, NEW k \in Tokens, NEW q \in Turn,
         Rewrites(t, i, q), Holds(t, i, k), ~Superseded(turns[t][i], k),
         q.jobToken = NoToken, q.handedOff = k,
         q.recoveryToken = turns[t][i].recoveryToken, q.completed = turns[t][i].completed
  PROVE  StoreStep
<1>1. /\ Leases' = [Leases EXCEPT ![<<t, i>>] = LeaseOf(q)]
      /\ Issued' = Issued
  BY RewritesLease
<1>2. LeaseOf(q) = [LeaseOf(turns[t][i]) EXCEPT !.running = NoToken, !.handedOff = k]
  <2> DEFINE l == LeaseOf(turns[t][i])
             m == [l EXCEPT !.running = NoToken, !.handedOff = k]
             n == LeaseOf(q)
  <2>1. l \in Store!Lease /\ n \in Store!Lease
    BY LeaseType, TurnOf
  <2>2. /\ n.running = q.jobToken /\ n.parked = q.recoveryToken
        /\ n.completed = q.completed /\ n.handedOff = q.handedOff
        /\ l.running = turns[t][i].jobToken /\ l.parked = turns[t][i].recoveryToken
        /\ l.completed = turns[t][i].completed /\ l.handedOff = turns[t][i].handedOff
    BY DEF LeaseOf
  <2> HIDE DEF l, n
  <2>3. m \in Store!Lease
    BY <2>1 DEF Store!Lease, Store!MaybeToken
  <2>4. /\ m.running = n.running /\ m.parked = n.parked
        /\ m.completed = n.completed /\ m.handedOff = n.handedOff
    BY <2>1, <2>2 DEF Store!Lease
  <2> HIDE DEF m
  <2>5. n = m
    BY <2>1, <2>3, <2>4, EqualLeases
  <2> QED
    BY <2>5 DEF l, m, n
<1>3. /\ <<t, i>> \in Tasks \X TurnIds
      /\ Leases = [u \in Tasks \X TurnIds |-> LeaseOf(turns[u[1]][u[2]])]
      /\ Leases[<<t, i>>] = LeaseOf(turns[t][i])
  BY LeaseAt DEF Leases
<1>4. LeaseOf(q) = [Leases[<<t, i>>] EXCEPT !.running = NoToken, !.handedOff = k]
  BY <1>2, <1>3
<1>5. Leases' = [Leases EXCEPT ![<<t, i>>] = [@ EXCEPT !.running = NoToken, !.handedOff = k]]
  BY <1>1, <1>4
<1> QED
  BY <1>1, <1>5, HandOffStep DEF StoreStep

LEMMA RecoverAdvances ==
  ASSUME IInv, BInv, NEW t \in Tasks, NEW i \in TurnIds, NEW k \in Tokens,
         NEW live \in BOOLEAN, NEW q \in Turn, Rewrites(t, i, q),
         Owns(turns[t][i], k), ~Superseded(turns[t][i], k), turns[t][i].completed # k,
         q.jobToken = NoToken, q.recoveryToken = IF live THEN k ELSE NoToken,
         q.handedOff = turns[t][i].handedOff, q.completed = turns[t][i].completed
  PROVE  StoreStep
<1> DEFINE parked == IF live THEN k ELSE NoToken
<1>1. /\ Leases' = [Leases EXCEPT ![<<t, i>>] = LeaseOf(q)]
      /\ Issued' = Issued
  BY RewritesLease
<1>2. LeaseOf(q) = [LeaseOf(turns[t][i]) EXCEPT !.running = NoToken, !.parked = parked]
  <2> DEFINE l == LeaseOf(turns[t][i])
             m == [l EXCEPT !.running = NoToken, !.parked = parked]
             n == LeaseOf(q)
  <2>1. l \in Store!Lease /\ n \in Store!Lease
    BY LeaseType, TurnOf
  <2>2. /\ n.running = q.jobToken /\ n.parked = q.recoveryToken
        /\ n.completed = q.completed /\ n.handedOff = q.handedOff
        /\ l.running = turns[t][i].jobToken /\ l.parked = turns[t][i].recoveryToken
        /\ l.completed = turns[t][i].completed /\ l.handedOff = turns[t][i].handedOff
    BY DEF LeaseOf
  <2> HIDE DEF l, n
  <2>3. m \in Store!Lease
    BY <2>1 DEF Store!Lease, Store!MaybeToken, parked
  <2>4. /\ m.running = n.running /\ m.parked = n.parked
        /\ m.completed = n.completed /\ m.handedOff = n.handedOff
    BY <2>1, <2>2 DEF Store!Lease, parked
  <2> HIDE DEF m
  <2>5. n = m
    BY <2>1, <2>3, <2>4, EqualLeases
  <2> QED
    BY <2>5 DEF l, m, n
<1>3. /\ <<t, i>> \in Tasks \X TurnIds
      /\ Leases = [u \in Tasks \X TurnIds |-> LeaseOf(turns[u[1]][u[2]])]
      /\ Leases[<<t, i>>] = LeaseOf(turns[t][i])
  BY LeaseAt DEF Leases
<1> HIDE DEF parked
<1>4. LeaseOf(q) = [Leases[<<t, i>>] EXCEPT !.running = NoToken, !.parked = parked]
  BY <1>2, <1>3
<1>5. Leases' = [Leases EXCEPT ![<<t, i>>] = [@ EXCEPT !.running = NoToken, !.parked = parked]]
  BY <1>1, <1>4
<1> QED
  BY <1>1, <1>5, RecoverStep DEF StoreStep, parked

\* A handler that replaces one turn, without moving anything behind another.
LEMMA SaveTurnRows ==
  ASSUME IInv, BInv, NEW t \in Tasks, NEW i \in TurnIds, NEW q, SaveTurn(t, i, q),
         turns[t][i].status # "absent", q.status # "absent",
         Occupied(q) => \/ ~closed[t] /\ IsLast(t, i)
                        \/ q.stageRecovery = "historical"
  PROVE  BInv' /\ Rewrites(t, i, q)
BY SaveTurnRewrites, RewritesRows

\* What is occupied was in place before, and stays so with its evaluation.
LEMMA OccupiedInPlace ==
  ASSUME BInv, NEW t \in Tasks, NEW i \in TurnIds, Occupied(turns[t][i])
  PROVE  /\ InPlace(t, i)
         /\ turns[t][i].stageRecovery # "historical" =>
              \A j \in TurnIds \ {i} :
                Occupied(turns[t][j]) => turns[t][j].stageRecovery = "historical"
BY DEF BInv, RowsInv, InPlace, IsLast

LEMMA ReserveAdvances ==
  ASSUME IInv, BInv, NEW t \in Tasks, NEW i \in TurnIds, NEW k \in Tokens, Reserve(t, i, k)
  PROVE  Advances
<1> DEFINE r == turns[t][i]
           q == [r EXCEPT !.sent = TRUE]
<1>1. r \in Turn /\ r.status = "running" /\ SaveTurn(t, i, q)
  BY TurnOf DEF Reserve, Holds
<1>2. Occupied(r) /\ InPlace(t, i)
  BY <1>1, OccupiedInPlace DEF Occupied, Active
<1> HIDE DEF r
<1>3. /\ q.status = "running" /\ q.stageRecovery = r.stageRecovery
      /\ q.jobToken = r.jobToken /\ q.recoveryToken = r.recoveryToken
      /\ q.completed = r.completed /\ q.handedOff = r.handedOff
  BY <1>1 DEF Turn
<1> HIDE DEF q
<1>4. BInv' /\ Rewrites(t, i, q)
  BY <1>1, <1>2, <1>3, SaveTurnRows DEF InPlace, r
<1>5. LeaseOf(q) = LeaseOf(r)
  BY <1>3 DEF LeaseOf
<1> QED
  BY <1>4, <1>5, SameLease DEF Advances, r

LEMMA HandoffObserverAdvances ==
  ASSUME IInv, BInv, NEW t \in Tasks, NEW i \in TurnIds, NEW k \in Tokens,
         HandoffObserver(t, i, k)
  PROVE  Advances
<1> DEFINE r == turns[t][i]
           q == [r EXCEPT !.status = "queued", !.jobToken = NoToken, !.handedOff = k]
<1>1. r \in Turn /\ r.status = "running" /\ SaveTurn(t, i, q)
  BY TurnOf DEF HandoffObserver, Holds
<1>2. Holds(t, i, k) /\ ~Superseded(r, k)
  BY DEF HandoffObserver
<1>3. Occupied(r) /\ InPlace(t, i)
  BY <1>1, OccupiedInPlace DEF Occupied, Active
<1> HIDE DEF r
<1>4. /\ q \in Turn /\ q.status = "queued" /\ q.stageRecovery = r.stageRecovery
      /\ q.jobToken = NoToken /\ q.recoveryToken = r.recoveryToken
      /\ q.completed = r.completed /\ q.handedOff = k
  BY <1>1 DEF Turn, Status, Token
<1> HIDE DEF q
<1>5. BInv' /\ Rewrites(t, i, q)
  BY <1>1, <1>3, <1>4, SaveTurnRows DEF InPlace, r
<1> QED
  BY <1>2, <1>4, <1>5, HandOffAdvances DEF Advances, r

LEMMA RecoverRowAdvances ==
  ASSUME IInv, BInv, NEW t \in Tasks, NEW i \in TurnIds, NEW k \in Tokens,
         NEW live \in BOOLEAN, NEW salvage \in BOOLEAN, Recover(t, i, k, live, salvage)
  PROVE  Advances
<1> DEFINE r == turns[t][i]
           q == Interrupted(r, k, live, salvage)
<1>1. r \in Turn /\ TurnInv(r) /\ SaveTurn(t, i, q)
  BY TurnOf DEF Recover
<1>2. Owns(r, k) /\ ~Superseded(r, k) /\ r.completed # k
  BY DEF Recover
<1>3. q \in Turn
  BY <1>1, InterruptedTurn
<1> HIDE DEF r
<1>4. Occupied(r) /\ r.status # "absent"
  BY <1>1, <1>2, TaskQueueAssumption DEF Owns, TurnInv, Occupied, Active
<1>5. InPlace(t, i)
  BY <1>4, OccupiedInPlace DEF r
<1>6. /\ q.status # "absent" /\ q.stageRecovery = r.stageRecovery
      /\ q.jobToken = NoToken /\ q.recoveryToken = IF live THEN k ELSE NoToken
      /\ q.completed = r.completed /\ q.handedOff = r.handedOff
  BY <1>1 DEF Interrupted, Turn
<1> HIDE DEF q
<1>7. BInv' /\ Rewrites(t, i, q)
  BY <1>1, <1>4, <1>5, <1>6, SaveTurnRows DEF InPlace, r
<1> QED
  BY <1>2, <1>3, <1>6, <1>7, RecoverAdvances DEF Advances, r

\* A report that ends the attempt at turn i and appends the next question.
LEMMA AppendRewrites ==
  ASSUME IInv, NEW t \in Tasks, NEW i \in TurnIds, i <= len[t], NEW q,
         NEW row, row = [turns[t] EXCEPT ![i] = q], len[t] < MaxTurns,
         Save(t, [row EXCEPT ![len[t] + 1] = NewTurn]),
         len' = [len EXCEPT ![t] = @ + 1], UNCHANGED closed, RowOnly
  PROVE  Rewrites(t, i, q) /\ len' # len
<1>1. turns[t] \in [TurnIds -> Turn] /\ len \in [Tasks -> TurnIds] /\ TurnIds \subseteq Nat
  BY DEF IInv, TypeOK, TurnIds
<1>2. len' # len
  <2>1. len[t] \in Nat /\ len'[t] = len[t] + 1
    BY <1>1
  <2>2. len'[t] # len[t]
    BY <2>1
  <2> QED
    BY <2>2
<1>3. [row EXCEPT ![len[t] + 1] = NewTurn]
        = [j \in TurnIds |-> IF j = i THEN q
                             ELSE IF len' # len /\ j = len[t] + 1 THEN NewTurn
                             ELSE turns[t][j]]
  <2>1. row = [j \in TurnIds |-> IF j = i THEN q ELSE turns[t][j]]
    BY <1>1
  <2>2. len[t] + 1 # i /\ len[t] + 1 \in TurnIds
    BY <1>1, TaskQueueAssumption DEF TurnIds
  <2> QED
    BY <1>2, <2>1, <2>2
<1> QED
  BY <1>2, <1>3 DEF Save, Rewrites

LEMMA FinishProjectAdvances ==
  ASSUME IInv, BInv, NEW t \in Tasks, NEW i \in TurnIds, NEW k \in Tokens,
         FinishProject(t, i, k)
  PROVE  Advances
<1> DEFINE r    == turns[t][i]
           done == [r EXCEPT !.status = r.project, !.jobToken = NoToken,
                             !.completed = k, !.project = "none"]
           bad  == [done EXCEPT !.planBlocked = TRUE]
           good == [done EXCEPT !.planBlocked = FALSE]
           row  == [turns[t] EXCEPT ![i] = good]
<1>1. /\ r \in Turn /\ TurnInv(r) /\ Holds(t, i, k) /\ ~Superseded(r, k)
      /\ r.stageRecovery # "historical"
      /\ r.project \in {"failed", "review", "submitted"} /\ r.status = "running"
  BY TurnOf DEF FinishProject, Holds, Plans, Turn
<1>2. \/ SaveTurn(t, i, bad)
      \/ /\ len[t] < MaxTurns
         /\ Save(t, [row EXCEPT ![len[t] + 1] = NewTurn])
         /\ len' = [len EXCEPT ![t] = @ + 1]
         /\ UNCHANGED closed
         /\ RowOnly
  <2>1. CASE SaveTurn(t, i, bad)
    BY <2>1
  <2>2. CASE ~SaveTurn(t, i, bad)
    <3>1. /\ len[t] < MaxTurns
          /\ Save(t, [turns[t] EXCEPT ![i] = good, ![len[t] + 1] = NewTurn])
          /\ len' = [len EXCEPT ![t] = @ + 1]
          /\ UNCHANGED closed
          /\ RowOnly
      BY <2>2 DEF FinishProject
    <3> QED
      BY <3>1
  <2> QED
    BY <2>1, <2>2
<1>3. /\ ~closed[t] /\ IsLast(t, i)
      /\ \A j \in TurnIds \ {i} :
           Occupied(turns[t][j]) => turns[t][j].stageRecovery = "historical"
  BY <1>1, OccupiedInPlace DEF Occupied, Active, InPlace
<1>4. ~r.blocked
  BY <1>1 DEF TurnInv, Active
<1> HIDE DEF r
<1>5. /\ done \in Turn /\ done.status = r.project /\ done.jobToken = NoToken
      /\ done.completed = k /\ done.recoveryToken = r.recoveryToken
      /\ done.handedOff = r.handedOff /\ done.blocked = r.blocked
  BY <1>1 DEF Turn, Status, Token
<1> HIDE DEF done
<1>6. /\ bad \in Turn /\ bad.status = r.project /\ bad.jobToken = NoToken
      /\ bad.completed = k /\ bad.recoveryToken = r.recoveryToken
      /\ bad.handedOff = r.handedOff /\ bad.blocked = r.blocked
      /\ good \in Turn /\ good.status = r.project /\ good.jobToken = NoToken
      /\ good.completed = k /\ good.recoveryToken = r.recoveryToken
      /\ good.handedOff = r.handedOff /\ good.blocked = r.blocked
  BY <1>5 DEF Turn
<1> HIDE DEF bad, good
<1>7. /\ bad.status # "absent" /\ ~Occupied(bad)
      /\ good.status # "absent" /\ ~Occupied(good)
  BY <1>1, <1>4, <1>6 DEF Occupied, Active
<1>8. \E q \in {bad, good} : BInv' /\ Rewrites(t, i, q)
  <2>1. CASE SaveTurn(t, i, bad)
    <3> QED
      BY <1>1, <1>7, <2>1, SaveTurnRows DEF r
  <2>2. CASE ~SaveTurn(t, i, bad)
    <3>1. i <= len[t]
      BY <1>3 DEF IsLast, IInv, TypeOK, TurnIds
    <3>2. Rewrites(t, i, good) /\ len' # len /\ closed' = closed
      BY <1>2, <2>2, <3>1, AppendRewrites
    <3> QED
      BY <1>1, <1>3, <1>7, <3>2, RewritesRows DEF r
  <2> QED
    BY <2>1, <2>2
<1> QED
  BY <1>1, <1>6, <1>8, FinishAdvances DEF Advances, r

LEMMA FinishedFields ==
  ASSUME NEW r \in Turn, NEW k \in Tokens, NEW success \in BOOLEAN,
         NEW outcome \in Outcome, NEW runtime \in BOOLEAN
  PROVE  LET f == Finished(r, k, success, outcome, runtime) IN
         /\ f.status \in {"review", "failed", "queued"}
         /\ f.jobToken = NoToken /\ f.completed = k
         /\ f.recoveryToken = r.recoveryToken /\ f.handedOff = r.handedOff
         /\ f.blocked = r.blocked
         /\ f.stageRecovery = "historical" <=> r.stageRecovery = "historical"
<1> DEFINE s    == IF success THEN "review" ELSE "failed"
           b    == r.sent \/ outcome # "none"
           base == [r EXCEPT !.status = s, !.jobToken = NoToken, !.completed = k,
                             !.retrying = FALSE, !.outcome = outcome,
                             !.sent = b, !.runtime = runtime]
           v    == IF base.stageRecovery = "historical"
                   THEN base.stageRecovery ELSE "validation"
           again == [base EXCEPT !.status = "queued", !.retrying = TRUE,
                                 !.stageRecovery = v]
           f    == Finished(r, k, success, outcome, runtime)
<1>1. b \in BOOLEAN /\ s \in {"review", "failed"}
  OBVIOUS
<1>2. f = IF ~success /\ RuntimeRecoveryEligible(base) THEN again ELSE base
  BY DEF Finished
<1> HIDE DEF s, b, f
<1>3. /\ base \in Turn
      /\ base.status = s /\ base.jobToken = NoToken /\ base.completed = k
      /\ base.blocked = r.blocked /\ base.recoveryToken = r.recoveryToken
      /\ base.handedOff = r.handedOff /\ base.stageRecovery = r.stageRecovery
  BY ZenonT(40), <1>1 DEF Turn, Token, Status
<1> HIDE DEF base
<1>4. v \in Recovery /\ (v = "historical" <=> r.stageRecovery = "historical")
  BY <1>3 DEF Turn, Recovery
<1> HIDE DEF v
<1>5. /\ again.status = "queued" /\ again.jobToken = NoToken /\ again.completed = k
      /\ again.blocked = r.blocked /\ again.recoveryToken = r.recoveryToken
      /\ again.handedOff = r.handedOff /\ again.stageRecovery = v
  BY <1>3, <1>4 DEF Turn, Status
<1> HIDE DEF again
<1>6. f \in {base, again}
  BY <1>2
<1> QED
  BY <1>1, <1>3, <1>4, <1>5, <1>6 DEF f

LEMMA SaveRewrites ==
  ASSUME IInv, NEW t \in Tasks, NEW i \in TurnIds, NEW q,
         Save(t, [turns[t] EXCEPT ![i] = q]), len' = len, RowOnly,
         \A u \in Tasks \ {t} : closed'[u] = closed[u]
  PROVE  Rewrites(t, i, q)
<1>1. turns[t] \in [TurnIds -> Turn]
  BY DEF IInv, TypeOK
<1>2. [turns[t] EXCEPT ![i] = q]
        = [j \in TurnIds |-> IF j = i THEN q ELSE turns[t][j]]
  BY <1>1
<1> QED
  BY <1>2 DEF Save, Rewrites

LEMMA FinishRunAdvances ==
  ASSUME IInv, BInv, NEW t \in Tasks, NEW i \in TurnIds, NEW k \in Tokens,
         NEW success \in BOOLEAN, NEW outcome \in Outcome, NEW runtime \in BOOLEAN,
         FinishRun(t, i, k, success, outcome, runtime)
  PROVE  Advances
<1> DEFINE r   == turns[t][i]
           f   == Finished(r, k, success, outcome, runtime)
           row == [turns[t] EXCEPT ![i] = f]
<1>1. /\ r \in Turn /\ TurnInv(r) /\ Holds(t, i, k) /\ ~Superseded(r, k)
      /\ r.status = "running"
  BY TurnOf DEF FinishRun, Holds
<1>2. f \in Turn
  BY <1>1, FinishedTurn
<1>3. /\ f.status \in {"review", "failed", "queued"}
      /\ f.jobToken = NoToken /\ f.completed = k
      /\ f.recoveryToken = r.recoveryToken /\ f.handedOff = r.handedOff
      /\ ~f.blocked
      /\ f.stageRecovery = "historical" <=> r.stageRecovery = "historical"
  BY <1>1, FinishedFields DEF TurnInv, Active
<1>4. /\ RowOnly
      /\ \/ Save(t, row) /\ UNCHANGED len /\ UNCHANGED closed
         \/ /\ MayAppend(t, i, row)
            /\ Save(t, [row EXCEPT ![len[t] + 1] = NewTurn])
            /\ len' = [len EXCEPT ![t] = @ + 1]
            /\ UNCHANGED closed
         \/ /\ r.stageRecovery # "historical"
            /\ \A j \in TurnIds : row[j].status \notin Active
            /\ Save(t, row) /\ UNCHANGED len
            /\ closed' = [closed EXCEPT ![t] = TRUE]
  BY DEF FinishRun
<1>5. turns[t] \in [TurnIds -> Turn] /\ closed \in [Tasks -> BOOLEAN]
  BY DEF IInv, TypeOK
<1>6. row[i] = f
  BY <1>5
<1>7. /\ InPlace(t, i)
      /\ r.stageRecovery # "historical" =>
           /\ ~closed[t] /\ IsLast(t, i)
           /\ \A j \in TurnIds \ {i} :
                Occupied(turns[t][j]) => turns[t][j].stageRecovery = "historical"
  BY <1>1, OccupiedInPlace DEF Occupied, Active, InPlace
<1> HIDE DEF f
<1>8. BInv' /\ Rewrites(t, i, f)
  <2>1. CASE Save(t, row) /\ UNCHANGED len /\ UNCHANGED closed
    <3>1. Rewrites(t, i, f)
      BY <1>4, <2>1, SaveRewrites
    <3> QED
      BY <1>1, <1>3, <1>7, <2>1, <3>1, RewritesRows DEF InPlace
  <2>2. CASE /\ MayAppend(t, i, row)
             /\ Save(t, [row EXCEPT ![len[t] + 1] = NewTurn])
             /\ len' = [len EXCEPT ![t] = @ + 1]
             /\ UNCHANGED closed
    <3>1. len[t] < MaxTurns /\ f.stageRecovery # "historical" /\ f.status # "queued"
      BY <1>6, <2>2 DEF MayAppend
    <3>2. ~closed[t] /\ IsLast(t, i) /\ i <= len[t]
      BY <1>3, <1>7, <3>1 DEF IsLast, IInv, TypeOK, TurnIds
    <3> HIDE DEF row
    <3>3. Rewrites(t, i, f) /\ len' # len
      BY <1>4, <2>2, <3>1, <3>2, AppendRewrites DEF row
    <3>4. ~Occupied(f)
      BY <1>3, <3>1 DEF Occupied, Active
    <3> QED
      BY <1>1, <1>3, <1>7, <2>2, <3>1, <3>2, <3>3, <3>4, RewritesRows
  <2>3. CASE /\ r.stageRecovery # "historical"
             /\ \A j \in TurnIds : row[j].status \notin Active
             /\ Save(t, row) /\ UNCHANGED len
             /\ closed' = [closed EXCEPT ![t] = TRUE]
    <3>1. Rewrites(t, i, f)
      BY <1>4, <1>5, <2>3, SaveRewrites
    <3>2. ~Occupied(f)
      BY <1>3, <1>6, <2>3 DEF Occupied
    <3> QED
      BY <1>1, <1>3, <1>7, <2>3, <3>1, <3>2, RewritesRows
  <2> QED
    BY <1>4, <2>1, <2>2, <2>3
<1> HIDE DEF row
<1> QED
  BY <1>1, <1>2, <1>3, <1>8, FinishAdvances DEF Advances

\* The user's operations and the handlers of other data touch no token.
LEMMA MarksAdvance ==
  ASSUME IInv, BInv, NEW t \in Tasks, NEW i \in TurnIds, NEW q, SaveTurn(t, i, q),
         turns[t][i].status # "absent", q.status # "absent",
         q.jobToken = turns[t][i].jobToken, q.recoveryToken = turns[t][i].recoveryToken,
         q.completed = turns[t][i].completed, q.handedOff = turns[t][i].handedOff,
         Occupied(q) => \/ ~closed[t] /\ IsLast(t, i)
                        \/ q.stageRecovery = "historical"
  PROVE  Advances
<1>1. BInv' /\ Rewrites(t, i, q)
  BY SaveTurnRows
<1>2. LeaseOf(q) = LeaseOf(turns[t][i])
  BY DEF LeaseOf
<1> QED
  BY <1>1, <1>2, SameLease DEF Advances

LEMMA RetryAdvances ==
  ASSUME IInv, BInv, NEW t \in Tasks, NEW i \in TurnIds, NEW work \in RetryWork,
         Retry(t, i, work)
  PROVE  Advances
<1> DEFINE r == turns[t][i]
           project == CASE work = "plan"    -> r.status
                        [] work = "prepare" -> "none"
                        [] OTHER            -> r.project
           again == r.stageRecovery # "none" /\ work # "replan" /\ project = "none"
           retrying == r.retrying \/ again
           q == [r EXCEPT !.status = "queued", !.project = project, !.retrying = retrying]
<1>1. r \in Turn /\ SaveTurn(t, i, q)
  BY TurnOf DEF Retry
<1>2. r.status # "absent" /\ ~closed[t] /\ IsLast(t, i)
  BY DEF Retry, CanRetry, BlockedProjectRetryAllowed
<1> HIDE DEF r, project, retrying
<1>3. /\ q.status = "queued"
      /\ q.jobToken = r.jobToken /\ q.recoveryToken = r.recoveryToken
      /\ q.completed = r.completed /\ q.handedOff = r.handedOff
  BY <1>1 DEF Turn
<1> HIDE DEF q
<1> QED
  BY <1>1, <1>2, <1>3, MarksAdvance DEF r

LEMMA RetryValidationAdvances ==
  ASSUME IInv, BInv, NEW t \in Tasks, NEW i \in TurnIds, RetryValidation(t, i)
  PROVE  Advances
<1> DEFINE r == turns[t][i]
           s == IF HistoricalValidationRetryAllowed(t, i) THEN "historical" ELSE "validation"
           q == [r EXCEPT !.stageRecovery = s, !.retrying = TRUE, !.project = "none",
                          !.status = "queued"]
<1>1. r \in Turn /\ SaveTurn(t, i, q)
  BY TurnOf DEF RetryValidation
<1>2. r.status # "absent" /\ (s # "historical" => ~closed[t] /\ IsLast(t, i))
  BY DEF RetryValidation, HistoricalValidationRetryAllowed, ValidationRetryAllowed
<1> HIDE DEF r, s
<1>3. /\ q.status = "queued" /\ q.stageRecovery = s
      /\ q.jobToken = r.jobToken /\ q.recoveryToken = r.recoveryToken
      /\ q.completed = r.completed /\ q.handedOff = r.handedOff
  BY <1>1 DEF Turn
<1> HIDE DEF q
<1> QED
  BY <1>1, <1>2, <1>3, MarksAdvance DEF r

LEMMA OtherMarksAdvance ==
  ASSUME IInv, BInv, NEW t \in Tasks, NEW i \in TurnIds,
         RetryPlan(t, i) \/ Assess(t, i) \/ Exclude(t, i) \/ Submit(t, i)
  PROVE  Advances
<1> DEFINE r == turns[t][i]
<1>1. /\ r \in Turn
      /\ Occupied(r) => (~closed[t] /\ IsLast(t, i)) \/ r.stageRecovery = "historical"
  BY TurnOf DEF BInv, RowsInv, InPlace
<1>2. CASE RetryPlan(t, i)
  <2> DEFINE q == [r EXCEPT !.status = "queued"]
  <2>1. SaveTurn(t, i, q) /\ r.status # "absent" /\ ~closed[t] /\ IsLast(t, i)
    BY <1>2 DEF RetryPlan
  <2> HIDE DEF r
  <2>2. /\ q.status = "queued"
        /\ q.jobToken = r.jobToken /\ q.recoveryToken = r.recoveryToken
        /\ q.completed = r.completed /\ q.handedOff = r.handedOff
    BY <1>1 DEF Turn
  <2> HIDE DEF q
  <2> QED
    BY <2>1, <2>2, MarksAdvance DEF r
<1>3. CASE Assess(t, i)
  <2> DEFINE q == [r EXCEPT !.status = "review"]
  <2>1. SaveTurn(t, i, q) /\ r.status # "absent"
    BY <1>3 DEF Assess
  <2> HIDE DEF r
  <2>2. /\ q.status = "review" /\ q.blocked = r.blocked
        /\ q.jobToken = r.jobToken /\ q.recoveryToken = r.recoveryToken
        /\ q.completed = r.completed /\ q.handedOff = r.handedOff
        /\ q.stageRecovery = r.stageRecovery
    BY <1>1 DEF Turn
  <2> HIDE DEF q
  <2>3. Occupied(q) => Occupied(r)
    BY <2>2 DEF Occupied, Active
  <2> QED
    BY <1>1, <2>1, <2>2, <2>3, MarksAdvance DEF r
<1>4. CASE Exclude(t, i)
  <2> DEFINE q == [r EXCEPT !.excluded = TRUE]
  <2>1. SaveTurn(t, i, q) /\ r.status # "absent"
    BY <1>4 DEF Exclude
  <2> HIDE DEF r
  <2>2. /\ q.status = r.status /\ q.blocked = r.blocked
        /\ q.jobToken = r.jobToken /\ q.recoveryToken = r.recoveryToken
        /\ q.completed = r.completed /\ q.handedOff = r.handedOff
        /\ q.stageRecovery = r.stageRecovery
    BY <1>1 DEF Turn
  <2> HIDE DEF q
  <2>3. Occupied(q) => Occupied(r)
    BY <2>2 DEF Occupied
  <2> QED
    BY <1>1, <2>1, <2>2, <2>3, MarksAdvance DEF r
<1>5. CASE Submit(t, i)
  <2> DEFINE q == [r EXCEPT !.status = "submitted", !.receipt = TRUE]
  <2>1. SaveTurn(t, i, q) /\ r.status # "absent"
    BY <1>5 DEF Submit
  <2> HIDE DEF r
  <2>2. /\ q.status = "submitted" /\ q.blocked = r.blocked
        /\ q.jobToken = r.jobToken /\ q.recoveryToken = r.recoveryToken
        /\ q.completed = r.completed /\ q.handedOff = r.handedOff
        /\ q.stageRecovery = r.stageRecovery
    BY <1>1 DEF Turn
  <2> HIDE DEF q
  <2>3. Occupied(q) => Occupied(r)
    BY <2>2 DEF Occupied, Active
  <2> QED
    BY <1>1, <2>1, <2>2, <2>3, MarksAdvance DEF r
<1> QED
  BY <1>2, <1>3, <1>4, <1>5

\* enqueue, close, resume-project and the handlers of other data rewrite no
\* turn: the last one stands for "as it was".
LEMMA LastAsItWas ==
  ASSUME IInv, BInv, NEW t \in Tasks, RowOnly,
         \A u \in Tasks \ {t} : closed'[u] = closed[u],
         \/ /\ Save(t, turns[t]) /\ len' = len
            /\ closed'[t] = closed[t] \/ ~Pending(t)
         \/ /\ len[t] < MaxTurns /\ Save(t, [turns[t] EXCEPT ![len[t] + 1] = NewTurn])
            /\ len' = [len EXCEPT ![t] = @ + 1]
            /\ closed' = closed /\ ~closed[t] /\ ~Pending(t)
  PROVE  Advances
<1> DEFINE i == len[t]
           q == turns[t][i]
<1>1. i \in TurnIds /\ i <= len[t] /\ turns[t] \in [TurnIds -> Turn]
  BY DEF IInv, TypeOK, TurnIds
<1>2. q.status # "absent"
  BY <1>1 DEF BInv, RowsInv
<1>3. Occupied(q) => (~closed[t] /\ IsLast(t, i)) \/ q.stageRecovery = "historical"
  BY <1>1 DEF BInv, RowsInv, InPlace
<1>4. ~Pending(t) => \A j \in TurnIds : ~Occupied(turns[t][j])
  BY DEF Pending, Busy, Blocked, Occupied
<1>5. turns[t] = [turns[t] EXCEPT ![i] = q]
  BY <1>1
<1> HIDE DEF i, q
<1>6. BInv' /\ Rewrites(t, i, q)
  <2>1. CASE /\ Save(t, turns[t]) /\ len' = len
             /\ closed'[t] = closed[t] \/ ~Pending(t)
    <3>1. Rewrites(t, i, q)
      BY <1>1, <1>5, <2>1, SaveRewrites
    <3>2. closed'[t] = closed[t] \/ \A j \in TurnIds : ~Occupied(turns[t][j])
      BY <1>4, <2>1
    <3>3. Occupied(q) => \/ ~closed'[t] /\ len' = len /\ IsLast(t, i)
                         \/ q.stageRecovery = "historical"
      BY <1>1, <1>3, <2>1, <3>2 DEF q
    <3> QED
      BY <1>1, <1>2, <2>1, <3>1, <3>2, <3>3, RewritesRows DEF q
  <2>2. CASE /\ len[t] < MaxTurns /\ Save(t, [turns[t] EXCEPT ![len[t] + 1] = NewTurn])
             /\ len' = [len EXCEPT ![t] = @ + 1]
             /\ closed' = closed /\ ~closed[t] /\ ~Pending(t)
    <3>1. Rewrites(t, i, q) /\ len' # len
      BY <1>1, <1>5, <2>2, AppendRewrites
    <3>2. ~Occupied(q)
      BY <1>1, <1>4, <2>2 DEF q
    <3> QED
      BY <1>1, <1>2, <1>4, <2>2, <3>1, <3>2, RewritesRows DEF q
  <2> QED
    BY <2>1, <2>2
<1>7. LeaseOf(q) = LeaseOf(turns[t][i])
  BY DEF q
<1> QED
  BY <1>1, <1>6, <1>7, SameLease DEF Advances

LEMMA RowsAsTheyWere ==
  ASSUME IInv, BInv, NEW t \in Tasks, Enqueue(t) \/ Close(t) \/ ResumeProject(t) \/ SaveData(t)
  PROVE  Advances
<1>1. closed \in [Tasks -> BOOLEAN]
  BY DEF IInv, TypeOK
<1>2. CASE Enqueue(t)
  BY <1>2, LastAsItWas DEF Enqueue
<1>3. CASE Close(t) \/ ResumeProject(t)
  <2>1. PICK value \in BOOLEAN : SetClosed(t, value)
    BY <1>3 DEF Close, ResumeProject
  <2> QED
    BY <1>1, <2>1, LastAsItWas DEF SetClosed
<1>4. CASE SaveData(t)
  BY <1>4, LastAsItWas DEF SaveData
<1> QED
  BY <1>2, <1>3, <1>4

-----------------------------------------------------------------------------
(* Claims *)

LEMMA SelectsInPlace ==
  ASSUME IInv, BInv, NEW t \in Tasks, NEW w \in Work, NEW late, Selects(t, w, late)
  PROVE  w.turn <= len[t] /\ InPlace(t, w.turn)
<1>1. w.turn \in TurnIds /\ len[t] \in TurnIds
  BY SelectsSound DEF IInv, TypeOK
<1>2. CASE w.stage \/ w.plan
  <2>1. ~closed[t] /\ IsLast(t, w.turn)
    BY <1>2 DEF Selects, RetryStage, RecoverProject
  <2> QED
    BY <1>1, <2>1 DEF InPlace, IsLast, TurnIds
<1>3. CASE turns[t][w.turn].status = "queued"
  <2>1. InPlace(t, w.turn)
    BY <1>1, <1>3 DEF BInv, RowsInv, Occupied, Active
  <2>2. w.turn > len[t] => turns[t][w.turn] = Absent
    BY <1>1 DEF BInv, RowsInv
  <2>3. Absent.status = "absent"
    BY DEF Absent
  <2>4. ~(w.turn > len[t])
    BY <1>3, <2>2, <2>3
  <2> QED
    BY <1>1, <2>1, <2>4 DEF TurnIds
<1> QED
  BY <1>2, <1>3 DEF Selects

LEMMA ClaimReadAdvances ==
  ASSUME IInv, BInv, NEW h \in Handlers, ClaimRead(h)
  PROVE  Advances
<1>0. PICK late \in SUBSET Deferred : \E p \in Offers(late) :
        /\ pick' = [pick EXCEPT ![h] = p]
        /\ fresh' = [fresh EXCEPT ![h] = {t \in Tasks : p[t] # NoWork}]
  BY DEF ClaimRead
<1>1. PICK p \in Offers(late) :
        /\ pick' = [pick EXCEPT ![h] = p]
        /\ fresh' = [fresh EXCEPT ![h] = {t \in Tasks : p[t] # NoWork}]
  BY <1>0
<1>2. UNCHANGED <<turns, len, closed, config, jobs>>
  BY DEF ClaimRead
<1>3. p \in [Tasks -> Work]
  BY DEF Offers
<1>4. RowsInv'
  BY <1>2 DEF BInv, RowsInv, Occupied, InPlace, IsLast
<1>5. PicksInPlace'
  <2> SUFFICES ASSUME NEW g \in Handlers, NEW t \in fresh'[g]
               PROVE  LET i == pick'[g][t].turn IN i <= len[t] /\ InPlace(t, i)
    BY <1>2 DEF PicksInPlace, InPlace, IsLast
  <2>1. fresh \in [Handlers -> SUBSET Tasks] /\ pick \in [Handlers -> [Tasks -> Work]]
    BY DEF IInv, TypeOK
  <2>2. CASE g = h
    <3>1. t \in Tasks /\ p[t] # NoWork /\ pick'[g][t] = p[t]
      BY <1>1, <2>1, <2>2
    <3>2. p[t] \in Work /\ Selects(t, p[t], late)
      BY <1>3, <3>1 DEF Offers
    <3> QED
      BY <3>1, <3>2, SelectsInPlace
  <2>3. CASE g # h
    <3>1. t \in fresh[g] /\ pick'[g] = pick[g]
      BY <1>1, <2>1, <2>3
    <3> QED
      BY <3>1 DEF BInv, PicksInPlace
  <2> QED
    BY <2>2, <2>3
<1>6. UNCHANGED <<Leases, Issued>>
  BY <1>2 DEF Leases, LeaseOf, Issued
<1> QED
  BY <1>4, <1>5, <1>6 DEF BInv, Advances, StoreStep

LEMMA ClaimMissAdvances ==
  ASSUME IInv, BInv, NEW h \in Handlers, NEW t \in Tasks, ClaimMiss(h, t)
  PROVE  Advances
<1>1. /\ pick \in [Handlers -> [Tasks -> Work]] /\ fresh \in [Handlers -> SUBSET Tasks]
  BY DEF IInv, TypeOK
<1>2. /\ UNCHANGED <<turns, len, closed, config, jobs>>
      /\ pick' = [pick EXCEPT ![h][t] = NoWork]
      /\ fresh' = [fresh EXCEPT ![h] = @ \ {t}]
  BY DEF ClaimMiss
<1>3. RowsInv'
  BY <1>2 DEF BInv, RowsInv, Occupied, InPlace, IsLast
<1>4. PicksInPlace'
  <2> SUFFICES ASSUME NEW g \in Handlers, NEW u \in fresh'[g]
               PROVE  u \in fresh[g] /\ pick'[g][u] = pick[g][u]
    BY <1>2 DEF BInv, PicksInPlace, InPlace, IsLast
  <2> QED
    BY <1>1, <1>2
<1>5. UNCHANGED <<Leases, Issued>>
  BY <1>2 DEF Leases, LeaseOf, Issued
<1> QED
  BY <1>3, <1>4, <1>5 DEF BInv, Advances, StoreStep

LEMMA ClaimCommitAdvances ==
  ASSUME IInv, BInv, NEW h \in Handlers, NEW t \in Tasks, NEW k \in Tokens,
         ClaimCommit(h, t, k)
  PROVE  Advances
<1> DEFINE w == pick[h][t]
           i == w.turn
           r == turns[t][i]
           q == Claimed(r, k, w)
<1>1. /\ turns \in [Tasks -> [TurnIds -> Turn]]
      /\ pick \in [Handlers -> [Tasks -> Work]] /\ fresh \in [Handlers -> SUBSET Tasks]
      /\ jobs \subseteq Tasks \X TurnIds \X Tokens
      /\ len \in [Tasks -> TurnIds] /\ TurnIds \subseteq Nat
  BY DEF IInv, TypeOK, TurnIds
<1>2. t \in fresh[h] /\ \A c \in jobs : c[3] # k
  BY DEF ClaimCommit, Admits
<1>3. /\ i \in TurnIds
      /\ \A j \in TurnIds : turns[t][j].status # "running"
      /\ ~r.blocked
  BY <1>2 DEF IInv, PickInv
<1>4. i <= len[t] /\ InPlace(t, i)
  BY <1>2 DEF BInv, PicksInPlace
<1>5. r \in Turn /\ w \in Work /\ TurnInv(r)
  BY <1>1, <1>3, TurnOf
<1>6. /\ turns' = [turns EXCEPT ![t][i] = q]
      /\ jobs' = jobs \cup {<<t, i, k>>}
      /\ pick' = [pick EXCEPT ![h] = [u \in Tasks |-> NoWork]]
      /\ fresh' = [g \in Handlers |-> IF g = h THEN {} ELSE fresh[g] \ {t}]
      /\ UNCHANGED <<len, closed, config>>
  BY <1>1, <1>3 DEF ClaimCommit
<1> HIDE DEF w, r, i
<1>7. /\ q.status = "running"
      /\ r.stageRecovery = "historical" => q.stageRecovery = "historical"
      /\ q.jobToken = k /\ q.recoveryToken = r.recoveryToken
      /\ q.completed = r.completed /\ q.handedOff = r.handedOff
  BY <1>5 DEF Claimed, Turn, Work
<1> HIDE DEF q
<1>8. \A u \in Tasks, j \in TurnIds :
        turns'[u][j] = IF u = t /\ j = i THEN q ELSE turns[u][j]
  BY <1>1, <1>3, <1>6
<1>9. RowsInv'
  <2> SUFFICES ASSUME NEW u \in Tasks, NEW j \in TurnIds
               PROVE  /\ j > len[u] => turns'[u][j] = Absent
                      /\ j <= len[u] => turns'[u][j].status # "absent"
                      /\ Occupied(turns'[u][j]) =>
                           \/ ~closed[u] /\ j = len[u]
                           \/ turns'[u][j].stageRecovery = "historical"
    BY <1>6 DEF RowsInv, Occupied, InPlace, IsLast
  <2>1. CASE u = t /\ j = i
    <3>1. turns'[u][j] = q /\ ~(j > len[u])
      <4>0. i \in Nat /\ len[t] \in Nat
        BY <1>1, <1>3
      <4>1. ~(i > len[t])
        BY <1>4, <4>0
      <4>2. turns'[u][j] = q
        BY <1>8, <2>1
      <4> QED
        BY <2>1, <4>1, <4>2
    <3>2. (~closed[u] /\ j = len[u]) \/ q.stageRecovery = "historical"
      BY <1>4, <1>7, <2>1 DEF InPlace, IsLast, r
    <3> QED
      BY <1>7, <3>1, <3>2
  <2>2. CASE ~(u = t /\ j = i)
    <3>1. turns'[u][j] = turns[u][j]
      BY <1>8, <2>2
    <3> QED
      BY <3>1 DEF BInv, RowsInv, InPlace, IsLast
  <2> QED
    BY <2>1, <2>2
<1>10. PicksInPlace'
  <2> SUFFICES ASSUME NEW g \in Handlers, NEW u \in fresh'[g]
               PROVE  LET j == pick'[g][u].turn IN
                      /\ j <= len[u]
                      /\ \/ ~closed[u] /\ j = len[u]
                         \/ turns'[u][j].stageRecovery = "historical"
    BY <1>6 DEF PicksInPlace, InPlace, IsLast
  <2>1. u \in fresh[g] /\ u # t /\ u \in Tasks /\ pick'[g] = pick[g]
    BY <1>1, <1>6
  <2>2. pick[g][u].turn \in TurnIds
    BY <2>1 DEF IInv, PickInv
  <2>3. turns'[u][pick[g][u].turn] = turns[u][pick[g][u].turn]
    BY <1>8, <2>1, <2>2
  <2> QED
    BY <2>1, <2>3 DEF BInv, PicksInPlace, InPlace, IsLast
<1>11. Store!Next
  <2>1. k \notin Issued /\ Issued' = Issued \cup {k}
    <3>1. k \notin Issued
      BY <1>2 DEF Issued
    <3>2. <<t, i, k>>[3] = k
      OBVIOUS
    <3>3. Issued' = {c[3] : c \in jobs \cup {<<t, i, k>>}}
      BY <1>6 DEF Issued
    <3> QED
      BY <3>1, <3>2, <3>3 DEF Issued
  <2>2. r.recoveryToken = NoToken /\ \A j \in TurnIds : turns[t][j].jobToken = NoToken
    BY <1>3, <1>5, TurnOf DEF TurnInv
  <2>3. Leases' = [Leases EXCEPT ![<<t, i>>].running = k]
    <3> DEFINE l == LeaseOf(r)
               m == [l EXCEPT !.running = k]
               n == LeaseOf(q)
    <3>1. /\ n.running = k /\ n.parked = l.parked
          /\ n.completed = l.completed /\ n.handedOff = l.handedOff
      BY <1>7 DEF LeaseOf
    <3>2. l \in Store!Lease /\ n \in Store!Lease
      BY <1>5, <1>7, LeaseType DEF LeaseOf, Store!Lease, Store!MaybeToken, Turn, Token
    <3> HIDE DEF l, n
    <3>3. /\ m \in Store!Lease /\ m.running = n.running /\ m.parked = n.parked
          /\ m.completed = n.completed /\ m.handedOff = n.handedOff
      BY <3>1, <3>2 DEF Store!Lease, Store!MaybeToken
    <3> HIDE DEF m
    <3>4. n = m
      BY <3>2, <3>3, EqualLeases
    <3>5. \A u \in Tasks, j \in TurnIds :
            LeaseOf(turns'[u][j]) = IF u = t /\ j = i THEN n ELSE LeaseOf(turns[u][j])
      BY <1>8 DEF n
    <3>6. /\ Leases' = [u \in Tasks \X TurnIds |-> LeaseOf(turns'[u[1]][u[2]])]
          /\ Leases = [u \in Tasks \X TurnIds |-> LeaseOf(turns[u[1]][u[2]])]
      BY DEF Leases, LeaseOf
    <3>7. \A u \in Tasks \X TurnIds :
            LeaseOf(turns'[u[1]][u[2]]) = IF u = <<t, i>> THEN n ELSE LeaseOf(turns[u[1]][u[2]])
      BY <3>5
    <3>8. Leases' = [Leases EXCEPT ![<<t, i>>] = n]
      BY <3>6, <3>7
    <3>9. Leases[<<t, i>>] = l
      BY <1>3, LeaseAt DEF l, r
    <3>10. n = [Leases[<<t, i>>] EXCEPT !.running = k]
      BY <3>4, <3>9 DEF m
    <3> QED
      BY <3>8, <3>10
  <2> QED
    BY <1>3, <2>1, <2>2, <2>3, BeginStep DEF r
<1> QED
  BY <1>9, <1>10, <1>11 DEF BInv, Advances, StoreStep

-----------------------------------------------------------------------------
(* The specification. *)

LEMMA InitOrdered == Init => BInv /\ Store!Init
<1> SUFFICES ASSUME Init PROVE BInv /\ Store!Init
  OBVIOUS
<1>1. 1 \in TurnIds /\ TurnIds \subseteq Nat
  BY TaskQueueAssumption DEF TurnIds
<1>2. \A t \in Tasks, i \in TurnIds : turns[t][i] = IF i = 1 THEN NewTurn ELSE Absent
  BY DEF Init
<1>3. \A t \in Tasks : len[t] = 1 /\ ~closed[t]
  BY DEF Init
<1>4. ~Occupied(Absent) /\ NewTurn.status # "absent"
  BY DEF Occupied, Active, Absent, NewTurn
<1>5. RowsInv
  <2> SUFFICES ASSUME NEW t \in Tasks, NEW i \in TurnIds
               PROVE  /\ i > len[t] => turns[t][i] = Absent
                      /\ i <= len[t] => turns[t][i].status # "absent"
                      /\ Occupied(turns[t][i]) => InPlace(t, i)
    BY DEF RowsInv
  <2>1. i \in Nat /\ i >= 1
    BY DEF TurnIds
  <2> QED
    BY <1>2, <1>3, <1>4, <2>1 DEF InPlace, IsLast
<1>6. PicksInPlace
  BY DEF Init, PicksInPlace
<1>7. Store!Init
  <2>1. \A r \in {NewTurn, Absent} : LeaseOf(r) = Store!NeverRun
    BY DEF LeaseOf, NewTurn, Absent, Store!NeverRun
  <2>2. \A u \in Tasks \X TurnIds : LeaseOf(turns[u[1]][u[2]]) = Store!NeverRun
    BY <1>2, <2>1
  <2>3. Leases = [u \in Store!TurnRef |-> Store!NeverRun]
    BY <2>2 DEF Leases, Store!TurnRef, TurnIds
  <2>4. Issued = {}
    BY DEF Init, Issued
  <2> QED
    BY <2>3, <2>4 DEF Store!Init
<1> QED
  BY <1>5, <1>6, <1>7 DEF BInv

LEMMA StepAdvances == IInv /\ BInv /\ [Next]_vars => Advances
<1> SUFFICES ASSUME IInv, BInv, [Next]_vars PROVE Advances
  OBVIOUS
<1>1. CASE UNCHANGED vars
  BY <1>1 DEF vars, BInv, RowsInv, PicksInPlace, Occupied, InPlace, IsLast,
              Advances, StoreStep, Leases, LeaseOf, Issued
<1>2. CASE \E h \in Handlers : ClaimRead(h)
  BY <1>2, ClaimReadAdvances
<1>3. CASE \E h \in Handlers, t \in Tasks :
             (\E k \in Tokens : ClaimCommit(h, t, k)) \/ ClaimMiss(h, t)
  BY <1>3, ClaimCommitAdvances, ClaimMissAdvances
<1>4. CASE \E c \in jobs : Report(c[1], c[2], c[3])
  <2>1. PICK c \in jobs : Report(c[1], c[2], c[3])
    BY <1>4
  <2> DEFINE t == c[1]
             i == c[2]
             k == c[3]
  <2>2. t \in Tasks /\ i \in TurnIds /\ k \in Tokens
    BY DEF IInv, TypeOK
  <2> HIDE DEF t, i, k
  <2>3. Report(t, i, k)
    BY <2>1 DEF t, i, k
  <2>4. CASE Reserve(t, i, k)
    BY <2>2, <2>4, ReserveAdvances
  <2>5. CASE HandoffObserver(t, i, k)
    BY <2>2, <2>5, HandoffObserverAdvances
  <2>6. CASE \E live, salvage \in BOOLEAN : Recover(t, i, k, live, salvage)
    BY <2>2, <2>6, RecoverRowAdvances
  <2>7. CASE FinishProject(t, i, k)
    BY <2>2, <2>7, FinishProjectAdvances
  <2>8. CASE \E success, runtime \in BOOLEAN : \E outcome \in Outcome :
               FinishRun(t, i, k, success, outcome, runtime)
    BY <2>2, <2>8, FinishRunAdvances
  <2> QED
    BY <2>3, <2>4, <2>5, <2>6, <2>7, <2>8 DEF Report
<1>5. CASE \E t \in Tasks : Enqueue(t) \/ Close(t) \/ ResumeProject(t) \/ SaveData(t)
  BY <1>5, RowsAsTheyWere
<1>6. CASE \E t \in Tasks, i \in TurnIds : UserStep(t, i)
  BY <1>6, RetryAdvances, RetryValidationAdvances, OtherMarksAdvance DEF UserStep
<1>7. CASE SetScheduler
  <2>1. UNCHANGED <<turns, len, closed, jobs, pick, capacity, fresh>>
    BY <1>7 DEF SetScheduler
  <2> QED
    BY <2>1 DEF BInv, RowsInv, PicksInPlace, Occupied, InPlace, IsLast,
                Advances, StoreStep, Leases, LeaseOf, Issued
<1> QED
  BY <1>1, <1>2, <1>3, <1>4, <1>5, <1>6, <1>7 DEF Next

LEMMA Ordered == Spec => []BInv
<1>1. IInv /\ BInv /\ [Next]_vars => BInv'
  BY StepAdvances DEF Advances
<1> QED
  BY <1>1, InitOrdered, Inductive, PTL DEF Spec

\* Work on a turn behind another one, or in a task that was ended, is only ever
\* the validation of an old evaluation.
THEOREM WorkInOrder == Spec => []OnlyHistoricalBehind
<1>1. IInv /\ BInv => OnlyHistoricalBehind
  BY DEF BInv, RowsInv, Occupied, InPlace, OnlyHistoricalBehind
<1> QED
  BY <1>1, Inductive, Ordered, PTL

\* Every step of the task store, seen through the leases of its turns, is a step
\* of the life of one attempt as Attempts states it, or changes nothing of it.
THEOREM StoreImplementsAttempts == Spec => ImplementsAttempts
<1>1. Init => Store!Init
  BY InitOrdered
<1>2. IInv /\ BInv /\ [Next]_vars => [Store!Next]_<<Leases, Issued>>
  BY StepAdvances DEF Advances, StoreStep
<1> QED
  BY <1>1, <1>2, Inductive, Ordered, PTL DEF Spec, ImplementsAttempts, Store!Spec

=============================================================================
