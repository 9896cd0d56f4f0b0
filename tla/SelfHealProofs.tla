--------------------------- MODULE SelfHealProofs ---------------------------
(***************************************************************************)
(* Proofs about self-heal, for any number of faults, repairs, crashes,     *)
(* deaths and edits.  Of the controller (SelfHeal): a request reaches the  *)
(* store once, and a fault is diagnosed once and once more.  Of the        *)
(* release of a repair (SelfRelease): what runs was built and is on the    *)
(* main branch, and a repair is put on exactly the commit it was validated *)
(* on.  The two have no variable in common.                                *)
(***************************************************************************)
EXTENDS SelfHeal, SelfRelease, TLAPS

(***************************************************************************)
(* The controller.                                                         *)
(***************************************************************************)

(* What the incidents, the rows and the job's file are made of.            *)
Incident == [state : IncidentStates, direct : BOOLEAN,
             job : 0 .. MaxJobs, fixed : SUBSET Conditions]
Row == [fault : Faults, cond : Conditions, mode : {"repair", "escalation"},
        state : Terminal \cup {"running", "resolved"}]
JobFile == [state : Terminal \cup {"none", "running", "ready"},
            action : {"none", "retry", "publish"}]

(* A request's purpose, and where the controller may be.                   *)
Purposes ==
    {<<"direct", f>> : f \in Faults}
    \cup {<<"fixed", f, c>> : f \in Faults, c \in Conditions}
    \cup {<<kind, n>> : kind \in {"job", "published"}, n \in JobNumbers}
Stages ==
    {<<p>> : p \in {"idle", "next", "job", "launch", "down"}}
    \cup {<<p, f, why>> : p \in {"send", "answered", "refused", "lost"},
                          f \in Faults, why \in Purposes}
Requesting == stage[1] \in {"send", "answered", "refused", "lost"}

(* The states of a job's file from the intent to retry on.                 *)
Asking == {"retry_intent", "uncertain", "retried"}

(* The slot holds the last job or none; no job is started while it holds   *)
(* one, and a worker that has left a result is gone.                       *)
SlotInv ==
    /\ activeJob \in {0, Len(rows)}
    /\ activeJob = 0 => worker = "none" /\ file.state = "none"
    /\ stage = <<"next">> => activeJob = 0
    /\ stage = <<"launch">> => worker = "none" /\ file.state = "running"
    /\ file.state \in Asking \cup {"ready", "published"} => worker = "gone"

(* What was sent is marked: in the incident, or in the file of the job     *)
(* while it holds the slot.                                                *)
SentInv ==
    /\ \A f \in Faults : <<"direct", f>> \in sent => incident[f].direct
    /\ \A f \in Faults, c \in Conditions :
           <<"fixed", f, c>> \in sent => c \in incident[f].fixed
    /\ \A n \in JobNumbers : <<"job", n>> \in sent =>
           n <= Len(rows) /\ (n = activeJob => file.state \in Asking)

(* What is about to be sent is marked too, and was not sent before.        *)
SendInv ==
    /\ stage[1] = "send" => stage[3] \notin sent \/ stage[3][1] = "published"
    /\ Requesting /\ stage[3][1] = "direct" =>
           stage[3][2] = stage[2] /\ incident[stage[2]].direct
    /\ Requesting /\ stage[3][1] = "fixed" =>
           stage[3][2] = stage[2] /\ stage[3][3] \in incident[stage[2]].fixed
    /\ Requesting /\ stage[3][1] = "job" =>
           stage[3][2] = activeJob /\ file.state = "retry_intent"

HInv == /\ SelfHealTypeOK /\ stage \in Stages /\ sent \subseteq Purposes
        /\ SlotInv /\ SentInv /\ SendInv /\ RequestSentOnce /\ DiagnosedOnce

(* A step that leaves the marks of f's incident alone.                     *)
SameMarks(f) ==
    incident'[f].direct = incident[f].direct /\ incident'[f].fixed = incident[f].fixed

-----------------------------------------------------------------------------
(* The bounds are numbers.                                                 *)
LEMMA HealBounds ==
    {MaxJobs, MaxReleases, MaxChanges, MaxMishaps} \subseteq Nat
BY SelfHealAssumption

(* The type invariant's set of incidents, named.                           *)
LEMMA IncidentTypes == HInv => incident \in [Faults -> Incident]
BY DEF HInv, SelfHealTypeOK, Incident

(* A step of one incident.                                                 *)
LEMMA IncidentSet ==
  ASSUME HInv, NEW f \in Faults, NEW i \in Incident, incident' = [incident EXCEPT ![f] = i]
  PROVE  /\ incident' \in [Faults -> Incident] /\ incident'[f] = i
         /\ \A g \in Faults : g # f => incident'[g] = incident[g]
BY IncidentTypes

(* The invariant holds at the start.                                       *)
LEMMA HealInitHolds == HealInit => HInv
<1> SUFFICES ASSUME HealInit PROVE HInv
  OBVIOUS
<1>1. SelfHealTypeOK
  BY SelfHealAssumption DEF HealInit, SelfHealTypeOK, IncidentStates, Conditions,
                            NoFile, Terminal, Unsuccessful
<1>2. stage \in Stages
  BY DEF HealInit, Stages
<1>3. SlotInv /\ SentInv /\ SendInv /\ sent \subseteq Purposes
  BY DEF HealInit, SlotInv, SentInv, SendInv, Requesting, NoFile, Asking
<1>4. RequestSentOnce /\ DiagnosedOnce
  BY DEF HealInit, RequestSentOnce, DiagnosedOnce
<1> QED
  BY <1>1, <1>2, <1>3, <1>4 DEF HInv

(* A step that only moves the controller, and sends nothing.               *)
LEMMA QuietKeeps ==
  ASSUME HInv, UNCHANGED <<turn, ev, rev, incident, rows, activeJob, file, worker>>,
         UNCHANGED <<sent, resent>>,
         stage' \in {<<"idle">>, <<"job">>, <<"down">>}
  PROVE  HInv'
<1>1. /\ stage' \in Stages /\ ~Requesting' /\ stage'[1] # "send"
      /\ stage' # <<"next">> /\ stage' # <<"launch">>
  BY DEF Stages, Requesting
<1>2. SelfHealTypeOK' /\ sent' \subseteq Purposes
  BY DEF HInv, SelfHealTypeOK
<1>3. SlotInv' /\ SentInv' /\ SendInv'
  BY <1>1 DEF HInv, SlotInv, SentInv, SendInv
<1>4. RequestSentOnce' /\ DiagnosedOnce'
  BY DEF HInv, RequestSentOnce, DiagnosedOnce, Evidence
<1> QED
  BY <1>1, <1>2, <1>3, <1>4 DEF HInv

(* Waiting for the worker, the end of a tick, a death and a restart.       *)
LEMMA WaitingKeeps ==
  ASSUME HInv, Working \/ Rest \/ HealCrash \/ HealRestart
  PROVE  HInv'
<1>1. CASE Working
  BY <1>1, QuietKeeps DEF Working, store, jobs
<1>2. CASE Rest
  BY <1>2, QuietKeeps DEF Rest, store, jobs
<1>3. CASE HealCrash
  BY <1>3, QuietKeeps DEF HealCrash, store, jobs
<1>4. CASE HealRestart
  BY <1>4, QuietKeeps DEF HealRestart, store, jobs
<1> QED
  BY <1>1, <1>2, <1>3, <1>4

(* Only the last row may come to have failed.                              *)
LEMMA DiagnosesKept ==
  ASSUME HInv, Len(rows') = Len(rows), rows' \in Seq(Row),
         \A n \in 1 .. Len(rows) :
             /\ rows'[n].fault = rows[n].fault /\ rows'[n].cond = rows[n].cond
             /\ rows'[n].mode = rows[n].mode
             /\ n < Len(rows) /\ rows'[n].state \in Unsuccessful => rows'[n].state = rows[n].state
  PROVE  DiagnosedOnce'
<1>1. Len(rows) \in Nat /\ DOMAIN rows = 1 .. Len(rows) /\ DOMAIN rows' = 1 .. Len(rows)
  BY DEF HInv, SelfHealTypeOK
<1> SUFFICES ASSUME NEW n \in 1 .. Len(rows), NEW m \in 1 .. Len(rows), n < m,
                    rows'[n].fault = rows'[m].fault, rows'[n].state \in Unsuccessful,
                    \/ rows'[n].cond = rows'[m].cond
                    \/ rows'[n].state = "needs_input" /\ rows'[n].cond[1] = rows'[m].cond[1]
             PROVE  rows'[n].mode = "repair" /\ rows'[m].mode = "escalation"
  BY <1>1 DEF DiagnosedOnce, Evidence
<1>2. n < Len(rows)
  BY <1>1
<1>3. rows'[n].state = rows[n].state
  BY <1>2
<1>4. rows[n].mode = "repair" /\ rows[m].mode = "escalation"
  BY <1>1, <1>3 DEF HInv, DiagnosedOnce, Evidence
<1> QED
  BY <1>4

(* Reconciling changes the states of incidents, and resolves rows.         *)
LEMMA ObserveKeeps ==
  ASSUME HInv, Observe
  PROVE  HInv'
<1> USE DEF HInv
<1>1. stage' \in {<<"next">>, <<"job">>} /\ (stage' = <<"next">> => activeJob = 0)
  BY DEF Observe
<1>2. stage' \in Stages /\ ~Requesting' /\ stage'[1] # "send" /\ stage' # <<"launch">>
  BY <1>1 DEF Stages, Requesting
<1>3. \A f \in Faults : Reconciled(f) \in IncidentStates
  BY DEF Reconciled, Afresh, SelfHealTypeOK, IncidentStates
<1>4. /\ incident' \in [Faults -> Incident]
      /\ \A f \in Faults : SameMarks(f)
  <2> DEFINE i(f) == [incident[f] EXCEPT !.state = Reconciled(f)]
  <2>1. \A f \in Faults : incident[f] \in Incident
    BY IncidentTypes
  <2>2. \A f \in Faults : /\ i(f) \in Incident /\ i(f).direct = incident[f].direct
                          /\ i(f).fixed = incident[f].fixed
    BY <1>3, <2>1 DEF Incident
  <2>3. incident' = [f \in Faults |-> i(f)]
    BY DEF Observe
  <2> HIDE DEF i
  <2> QED
    BY <2>2, <2>3 DEF SameMarks
<1>5. /\ Len(rows') = Len(rows)
      /\ rows' \in Seq(Row)
      /\ \A n \in 1 .. Len(rows) :
             /\ rows'[n].fault = rows[n].fault /\ rows'[n].cond = rows[n].cond
             /\ rows'[n].mode = rows[n].mode
             /\ rows'[n].state \in {rows[n].state, "resolved"}
  <2> DEFINE resolved(n) == Reconciled(rows[n].fault) = "resolved"
  <2>1. rows \in Seq(Row) /\ Len(rows) \in Nat /\ DOMAIN rows = 1 .. Len(rows)
    BY DEF SelfHealTypeOK, Row
  <2>2. \A n \in 1 .. Len(rows) : rows[n] \in Row
    BY <2>1
  <2>3. rows' = [n \in 1 .. Len(rows) |-> IF resolved(n) THEN [rows[n] EXCEPT !.state = "resolved"]
                                          ELSE rows[n]]
    <3>1. rows' = [n \in 1 .. Len(rows) |->
                     IF [f \in Faults |-> Reconciled(f)][rows[n].fault] = "resolved"
                     THEN [rows[n] EXCEPT !.state = "resolved"] ELSE rows[n]]
      BY <2>1 DEF Observe, Settled
    <3>2. \A n \in 1 .. Len(rows) : rows[n].fault \in Faults
      BY <2>2 DEF Row
    <3> QED
      BY <3>1, <3>2
  <2> HIDE DEF resolved
  <2>4. \A n \in 1 .. Len(rows) : rows'[n] \in Row
    BY <2>2, <2>3 DEF Row
  <2>5. rows' \in Seq(Row) /\ Len(rows') = Len(rows)
    BY <2>1, <2>3, <2>4
  <2>6. \A n \in 1 .. Len(rows) :
             /\ rows'[n].fault = rows[n].fault /\ rows'[n].cond = rows[n].cond
             /\ rows'[n].mode = rows[n].mode
             /\ rows'[n].state \in {rows[n].state, "resolved"}
    BY <2>2, <2>3
  <2> QED
    BY <2>5, <2>6
<1>6. DiagnosedOnce'
  BY <1>5, DiagnosesKept DEF Unsuccessful
<1>7. SelfHealTypeOK'
  BY <1>4, <1>5 DEF Observe, store, SelfHealTypeOK, Incident, Row, JobFile
<1>8. UNCHANGED <<activeJob, file, worker, sent, resent>>
  BY DEF Observe, store
<1>9. SlotInv'
  BY <1>1, <1>2, <1>5, <1>8 DEF SlotInv
<1>10. SentInv'
  BY <1>4, <1>5, <1>8 DEF SentInv, SameMarks
<1>11. SendInv' /\ RequestSentOnce' /\ sent' \subseteq Purposes
  BY <1>2, <1>8 DEF SendInv, RequestSentOnce
<1> QED
  BY <1>2, <1>6, <1>7, <1>9, <1>10, <1>11

(* Steps of the world leave the controller's state and the history alone.  *)
LEMMA WorldKeeps ==
  ASSUME HInv, NEW f \in Faults, TurnEnds(f) \/ Supply(f) \/ Hold(f)
  PROVE  HInv'
<1> USE DEF HInv
<1>1. UNCHANGED <<rev, incident, rows, activeJob, file, worker, stage, sent, resent>>
  BY DEF TurnEnds, Supply, Hold, jobs
<1>2. turn' \in [Faults -> {"failed", "moving", "delivered", "held"}]
  BY DEF TurnEnds, Supply, Hold, SelfHealTypeOK
<1>3. ev' \in [Faults -> 0 .. MaxChanges]
  <2>1. ev \in [Faults -> 0 .. MaxChanges]
    BY DEF SelfHealTypeOK
  <2>2. CASE ev' = ev
    BY <2>1, <2>2
  <2>3. CASE ev' = [ev EXCEPT ![f] = @ + 1] /\ EvidenceMayChange(f)
    <3>1. ev[f] + 1 \in 0 .. MaxChanges
      BY <2>1, <2>3, HealBounds DEF EvidenceMayChange
    <3> QED
      BY <2>1, <2>3, <3>1
  <2> QED
    BY <2>2, <2>3 DEF TurnEnds, Supply, Hold
<1>4. SelfHealTypeOK'
  BY <1>1, <1>2, <1>3 DEF SelfHealTypeOK
<1>5. SlotInv' /\ SentInv' /\ SendInv' /\ RequestSentOnce' /\ DiagnosedOnce'
  BY <1>1 DEF SlotInv, SentInv, SendInv, Requesting, RequestSentOnce, DiagnosedOnce,
              Evidence
<1> QED
  BY <1>1, <1>4, <1>5

(* The worker writes while the controller's request cannot be under way.   *)
LEMMA WorkerKeeps ==
  ASSUME HInv, WorkerStarts \/ WorkerEnds \/ WorkerDies \/ ChildEnds
  PROVE  HInv'
<1> USE DEF HInv
<1>1. UNCHANGED <<turn, ev, rev, incident, rows, activeJob, stage, sent, resent>>
  BY DEF WorkerStarts, WorkerEnds, WorkerDies, ChildEnds, store
<1>2. worker \in {"starting", "working", "child"} /\ activeJob # 0 /\ stage # <<"launch">>
  BY DEF WorkerStarts, WorkerEnds, WorkerDies, ChildEnds, SlotInv
<1>3. file.state \notin Asking \cup {"ready", "published"}
  BY <1>2 DEF SlotInv
<1>4. /\ worker' \in {"working", "child", "gone"}
      /\ file' \in JobFile
  BY DEF WorkerStarts, WorkerEnds, WorkerDies, ChildEnds, SelfHealTypeOK, JobFile,
         Terminal, Unsuccessful
<1>5. file'.state \notin Asking /\ (file'.state \in {"ready", "published"} => worker' = "gone")
  BY <1>3 DEF WorkerStarts, WorkerEnds, WorkerDies, ChildEnds, SelfHealTypeOK, Asking
<1>6. SelfHealTypeOK'
  BY <1>1, <1>4 DEF SelfHealTypeOK, Incident, Row, JobFile
<1>7. ~(Requesting /\ stage[3][1] = "job")
  BY <1>3 DEF SendInv, Asking
<1>8. SlotInv' /\ SentInv' /\ SendInv'
  BY <1>1, <1>2, <1>3, <1>5, <1>7 DEF SlotInv, SentInv, SendInv, Requesting
<1>9. RequestSentOnce' /\ DiagnosedOnce'
  BY <1>1 DEF RequestSentOnce, DiagnosedOnce, Evidence
<1> QED
  BY <1>1, <1>6, <1>8, <1>9

(* The controller's steps while it holds a job.                            *)
LEMMA JobFileKeeps ==
  ASSUME HInv,
         \/ WorkerMissing
         \/ \E f \in Faults : \/ ReleaseGoesOn(f) \/ ReleaseEnded(f) \/ RetriedJob(f)
                              \/ IntendRetry(f) /\ ~Action(f)
  PROVE  HInv'
<1> USE DEF HInv
<1>1. /\ UNCHANGED <<turn, ev, rows, activeJob, worker, sent, resent>>
      /\ stage' \in {<<"job">>, <<"idle">>}
  BY DEF WorkerMissing, ReleaseGoesOn, ReleaseEnded, Releasing, RetriedJob,
         IntendRetry, store
<1>2. /\ stage' \in Stages /\ ~Requesting' /\ stage'[1] # "send"
      /\ stage' # <<"next">> /\ stage' # <<"launch">>
  BY <1>1 DEF Stages, Requesting
<1>3. rev' \in 0 .. MaxReleases
  BY HealBounds DEF SelfHealTypeOK, WorkerMissing, ReleaseGoesOn, ReleaseEnded,
                    Releasing, RetriedJob, IntendRetry
<1>4. /\ incident' \in [Faults -> Incident]
      /\ \A g \in Faults : SameMarks(g)
  <2>1. ASSUME NEW f \in Faults, ReleaseGoesOn(f) \/ ReleaseEnded(f)
        PROVE  /\ incident' \in [Faults -> Incident]
               /\ \A g \in Faults : SameMarks(g)
    <3>1. incident' = [incident EXCEPT ![f].state = "deploying"] /\ "deploying" \in IncidentStates
      BY <2>1 DEF IncidentStates, ReleaseGoesOn, ReleaseEnded, Releasing
    <3> QED
      BY <3>1 DEF SelfHealTypeOK, Incident, SameMarks
  <2>2. CASE UNCHANGED incident
    BY <2>2 DEF SelfHealTypeOK, Incident, SameMarks
  <2> QED
    BY <2>1, <2>2 DEF WorkerMissing, RetriedJob, IntendRetry
<1>5. file' \in JobFile
  BY DEF SelfHealTypeOK, JobFile, Terminal, Unsuccessful, WorkerMissing,
         ReleaseGoesOn, ReleaseEnded, Releasing, RetriedJob, IntendRetry
<1>6. SelfHealTypeOK'
  BY <1>1, <1>3, <1>4, <1>5 DEF SelfHealTypeOK, Incident, Row, JobFile
<1>7. activeJob = 0 => file'.state = "none"
  BY DEF SlotInv, SelfHealTypeOK, WorkerMissing, ReleaseGoesOn, ReleaseEnded,
         Releasing, RetriedJob, Answered, SendInv, Requesting, IntendRetry
<1>8. file'.state \in Asking \cup {"ready", "published"} => worker = "gone"
  BY DEF SlotInv, SelfHealTypeOK, Asking, WorkerMissing, ReleaseGoesOn,
         ReleaseEnded, Releasing, RetriedJob, Answered, SendInv, Requesting,
         IntendRetry
<1>9. SlotInv'
  BY <1>1, <1>2, <1>7, <1>8 DEF SlotInv
<1>10. file.state \in Asking => file'.state \in Asking
  BY DEF Asking, SelfHealTypeOK, WorkerMissing, ReleaseGoesOn, ReleaseEnded,
         Releasing, RetriedJob, IntendRetry
<1>11. SentInv'
  BY <1>1, <1>4, <1>10 DEF SentInv, SameMarks
<1>12. SendInv' /\ RequestSentOnce' /\ DiagnosedOnce'
  BY <1>1, <1>2 DEF SendInv, RequestSentOnce, DiagnosedOnce, Evidence
<1> QED
  BY <1>1, <1>2, <1>6, <1>9, <1>11, <1>12

(* A request for a diagnosis is sent under its saved intent.               *)
LEMMA IntendKeeps ==
  ASSUME HInv, NEW f \in Faults, IntendRetry(f), Action(f)
  PROVE  HInv'
<1> USE DEF HInv
<1> DEFINE why == <<"job", activeJob>>
<1>1. UNCHANGED <<turn, ev, rev, incident, rows, activeJob, worker, sent, resent>>
  BY DEF IntendRetry, store
<1>2. /\ stage' = <<"send", f, why>> /\ activeJob # 0 /\ file.state = "ready"
      /\ file' = [file EXCEPT !.state = "retry_intent"]
  BY DEF IntendRetry, Send, Held
<1>3. activeJob \in JobNumbers /\ why \in Purposes /\ why \notin sent
  BY <1>2, HealBounds DEF SelfHealTypeOK, JobNumbers, Purposes, SentInv, Asking
<1>4. stage' \in Stages
  BY <1>2, <1>3 DEF Stages
<1>5. file'.state = "retry_intent" /\ SelfHealTypeOK'
  BY <1>1, <1>2 DEF SelfHealTypeOK, Terminal, Unsuccessful
<1>6. SlotInv'
  BY <1>1, <1>2, <1>5 DEF SlotInv, Asking
<1>7. SentInv'
  BY <1>1, <1>5 DEF SentInv, Asking
<1>8. SendInv'
  BY <1>1, <1>2, <1>3, <1>5 DEF SendInv
<1>9. RequestSentOnce' /\ DiagnosedOnce'
  BY <1>1 DEF RequestSentOnce, DiagnosedOnce, Evidence
<1> QED
  BY <1>1, <1>4, <1>5, <1>6, <1>7, <1>8, <1>9

(* What is sent was not sent before.                                       *)
LEMMA GuardedKeeps ==
  ASSUME HInv, GuardedRetry
  PROVE  HInv'
<1> USE DEF HInv
<1>1. PICK f \in Faults, why \in Purposes : stage = <<"send", f, why>>
  BY DEF GuardedRetry, Stages
<1>2. PICK answer \in {"answered", "lost", "refused"} : stage' = <<answer, f, why>>
  BY <1>1 DEF GuardedRetry
<1>3. UNCHANGED <<ev, rev, incident, rows, activeJob, file, worker>>
  BY DEF GuardedRetry, jobs
<1>4. turn' \in [Faults -> {"failed", "moving", "delivered", "held"}]
  BY <1>1 DEF GuardedRetry, SelfHealTypeOK
<1>5. sent' \in {sent, sent \cup {why}} /\ resent' \in {resent, resent \cup (sent \cap {why})}
  BY <1>1 DEF GuardedRetry
<1>6. /\ stage' \in Stages /\ sent' \subseteq Purposes
      /\ stage'[1] # "send" /\ stage' # <<"next">> /\ stage' # <<"launch">>
  BY <1>1, <1>2, <1>5 DEF Stages
<1>7. SelfHealTypeOK'
  BY <1>3, <1>4 DEF SelfHealTypeOK
<1>8. SlotInv'
  BY <1>3, <1>6 DEF SlotInv
<1>9. why \notin sent \/ why[1] = "published"
  BY <1>1 DEF SendInv
<1>10. RequestSentOnce'
  BY <1>5, <1>9 DEF RequestSentOnce
<1>11. SendInv'
  BY <1>1, <1>2, <1>3 DEF SendInv, Requesting
<1>12. /\ why[1] = "direct" => why = <<"direct", f>> /\ incident[f].direct
       /\ why[1] = "fixed" => why = <<"fixed", f, why[3]>> /\ why[3] \in incident[f].fixed
       /\ why[1] = "job" => why = <<"job", activeJob>> /\ file.state = "retry_intent"
  BY <1>1 DEF SendInv, Requesting, Purposes
<1>13. why = <<"job", activeJob>> => activeJob <= Len(rows)
  BY DEF SlotInv, SelfHealTypeOK
<1>14. SentInv'
  BY <1>3, <1>5, <1>12, <1>13 DEF SentInv, Asking
<1>15. DiagnosedOnce'
  BY <1>3 DEF DiagnosedOnce, Evidence
<1> QED
  BY <1>6, <1>7, <1>8, <1>10, <1>11, <1>14, <1>15

(* The job is concluded, and its slot is given up, at once or after the    *)
(* turn was retried.                                                       *)
LEMMA ConcludeKeeps ==
  ASSUME HInv, NEW f \in Faults, Conclude(f)
  PROVE  HInv'
<1> USE DEF HInv
<1> DEFINE why == <<"published", activeJob>>
<1>1. /\ activeJob = Len(rows) /\ activeJob \in JobNumbers
      /\ file.state \in Terminal /\ stage = <<"job">>
  BY HealBounds DEF Conclude, Held, SlotInv, SelfHealTypeOK, JobNumbers
<1>2. UNCHANGED <<turn, ev, rev, sent, resent>>
  BY DEF Conclude, store
<1>3. rows' \in Seq(Row) /\ Len(rows') = Len(rows)
  <2> DEFINE row == [rows[activeJob] EXCEPT !.state = file.state]
  <2>1. rows \in Seq(Row) /\ activeJob \in 1 .. Len(rows)
    BY <1>1 DEF SelfHealTypeOK, JobNumbers, Incident, Row, JobFile
  <2>2. rows[activeJob] \in Row
    BY <2>1
  <2>3. row \in Row
    BY <1>1, <2>2 DEF Row
  <2>4. rows' = [rows EXCEPT ![activeJob] = row]
    BY DEF Conclude
  <2> HIDE DEF row
  <2> QED
    BY <2>1, <2>3, <2>4
<1>4. \A n \in 1 .. Len(rows) :
          /\ rows'[n].fault = rows[n].fault /\ rows'[n].cond = rows[n].cond
          /\ rows'[n].mode = rows[n].mode
          /\ n # activeJob => rows'[n].state = rows[n].state
  BY DEF Conclude, SelfHealTypeOK
<1>5. DiagnosedOnce'
  <2>1. \A n \in 1 .. Len(rows) : n < Len(rows) => n # activeJob
    BY <1>1 DEF SelfHealTypeOK
  <2> QED
    BY <1>3, <1>4, <2>1, DiagnosesKept
<1>6. /\ incident' \in [Faults -> Incident]
      /\ \A g \in Faults : SameMarks(g)
  <2>1. PICK s \in IncidentStates : incident' = [incident EXCEPT ![f].state = s]
    BY DEF Conclude, IncidentStates
  <2> QED
    BY <2>1 DEF SelfHealTypeOK, Incident, SameMarks
<1>7. \/ stage' = <<"send", f, why>> /\ UNCHANGED <<activeJob, file, worker>>
      \/ stage' = <<"next">> /\ activeJob' = 0 /\ file' = NoFile /\ worker' = "none"
  BY DEF Conclude, Send, SlotFreed
<1>8. SelfHealTypeOK'
  <2>1. /\ activeJob' \in 0 .. MaxJobs
        /\ file' \in JobFile
        /\ worker' \in {"none", "starting", "working", "child", "gone"}
    BY <1>7, HealBounds DEF SelfHealTypeOK, NoFile, Incident, Row, JobFile
  <2> QED
    BY <1>2, <1>3, <1>6, <2>1 DEF SelfHealTypeOK, Incident, Row, JobFile
<1>9. stage' \in Stages
  BY <1>1, <1>7 DEF Stages, Purposes
<1>10. SlotInv'
  BY <1>3, <1>7 DEF SlotInv, NoFile, Asking
<1>11. SentInv'
  BY <1>2, <1>3, <1>6, <1>7, 0 \notin JobNumbers DEF SentInv, JobNumbers, SameMarks
<1>12. SendInv' /\ RequestSentOnce'
  BY <1>2, <1>7 DEF SendInv, Requesting, RequestSentOnce
<1> QED
  BY <1>2, <1>5, <1>8, <1>9, <1>10, <1>11, <1>12

(* After the retry of a published job's turn its slot is given up.         *)
LEMMA ReleaseRetriedKeeps ==
  ASSUME HInv, NEW f \in Faults, ReleaseRetried(f)
  PROVE  HInv'
<1> USE DEF HInv
<1>1. UNCHANGED <<turn, ev, rev, incident, rows, sent, resent>>
  BY DEF ReleaseRetried, store
<1>2. stage' = <<"next">> /\ activeJob' = 0 /\ file' = NoFile /\ worker' = "none"
  BY DEF ReleaseRetried, SlotFreed
<1>3. SelfHealTypeOK'
  BY <1>1, <1>2, HealBounds DEF SelfHealTypeOK, NoFile
<1>4. stage' \in Stages
  BY <1>2 DEF Stages
<1>5. SlotInv'
  BY <1>1, <1>2 DEF SlotInv, NoFile, Asking
<1>6. SentInv'
  BY <1>1, <1>2, 0 \notin JobNumbers DEF SentInv, JobNumbers
<1>7. SendInv' /\ RequestSentOnce' /\ DiagnosedOnce'
  BY <1>1, <1>2 DEF SendInv, Requesting, RequestSentOnce, DiagnosedOnce, Evidence
<1> QED
  BY <1>1, <1>3, <1>4, <1>5, <1>6, <1>7

(* A direct retry and a known recovery are marked before they are sent.    *)
LEMMA MarkedKeeps ==
  ASSUME HInv, NEW f \in Faults, DirectRetry(f) \/ FixedRecovery(f)
  PROVE  HInv'
<1> USE DEF HInv
<1>1. UNCHANGED <<turn, ev, rev, rows, activeJob, file, worker, sent, resent>>
  BY DEF DirectRetry, FixedRecovery, store, jobs
<1>2. Cond(f) \in Conditions
  BY DEF Cond, Conditions, SelfHealTypeOK
<1>3. /\ incident' \in [Faults -> Incident]
      /\ \A g \in Faults : /\ incident[g].direct => incident'[g].direct
                           /\ incident[g].fixed \subseteq incident'[g].fixed
  <2>1. CASE DirectRetry(f)
    <3> DEFINE i == [incident[f] EXCEPT !.direct = TRUE, !.state = "verifying"]
    <3>1. i \in Incident /\ i.direct /\ i.fixed = incident[f].fixed
      BY IncidentTypes DEF Incident, IncidentStates
    <3>2. incident' = [incident EXCEPT ![f] = i]
      BY <2>1 DEF DirectRetry
    <3> HIDE DEF i
    <3> QED
      BY <3>1, <3>2, IncidentSet
  <2>2. CASE FixedRecovery(f)
    <3> DEFINE i == [incident[f] EXCEPT !.fixed = @ \cup {Cond(f)}]
    <3>1. i \in Incident /\ i.direct = incident[f].direct /\ incident[f].fixed \subseteq i.fixed
      BY <1>2, IncidentTypes DEF Incident
    <3>2. incident' = [incident EXCEPT ![f] = i]
      BY <2>2 DEF FixedRecovery
    <3> HIDE DEF i
    <3> QED
      BY <3>1, <3>2, IncidentSet
  <2> QED
    BY <2>1, <2>2
<1>4. stage = <<"next">> /\ activeJob = 0
  BY DEF DirectRetry, FixedRecovery, Chosen, SlotInv
<1>5. \/ /\ stage' = <<"send", f, <<"direct", f>>>> /\ <<"direct", f>> \notin sent
         /\ incident'[f].direct
      \/ /\ stage' = <<"send", f, <<"fixed", f, Cond(f)>>>>
         /\ <<"fixed", f, Cond(f)>> \notin sent /\ Cond(f) \in incident'[f].fixed
  <2>1. CASE DirectRetry(f)
    BY <2>1 DEF DirectRetry, DirectDue, Send, SentInv, SelfHealTypeOK
  <2>2. CASE FixedRecovery(f)
    BY <1>2, <2>2 DEF FixedRecovery, FixedDue, Send, SentInv, SelfHealTypeOK
  <2> QED
    BY <2>1, <2>2
<1>6. stage' \in Stages
  BY <1>2, <1>5 DEF Stages, Purposes
<1>7. SelfHealTypeOK'
  BY <1>1, <1>3 DEF SelfHealTypeOK, Incident, Row, JobFile
<1>8. SlotInv'
  BY <1>1, <1>5 DEF SlotInv
<1>9. SentInv'
  BY <1>1, <1>3 DEF SentInv
<1>10. SendInv'
  BY <1>1, <1>5 DEF SendInv
<1>11. RequestSentOnce' /\ DiagnosedOnce'
  BY <1>1 DEF RequestSentOnce, DiagnosedOnce, Evidence
<1> QED
  BY <1>1, <1>6, <1>7, <1>8, <1>9, <1>10, <1>11

(* The answer to a marked request changes the incident's state only.       *)
LEMMA RequestEndedKeeps ==
  ASSUME HInv, NEW f \in Faults, RequestEnded(f)
  PROVE  HInv'
<1> USE DEF HInv
<1>1. /\ UNCHANGED <<turn, ev, rev, rows, activeJob, file, worker, sent, resent>>
      /\ stage' = <<"idle">>
  BY DEF RequestEnded, store, jobs
<1>2. /\ incident' \in [Faults -> Incident]
      /\ \A g \in Faults : SameMarks(g)
  <2>1. PICK s \in IncidentStates : incident' = [incident EXCEPT ![f].state = s]
    BY DEF RequestEnded, IncidentStates
  <2> QED
    BY <2>1 DEF SelfHealTypeOK, Incident, SameMarks
<1>3. stage' \in Stages /\ SelfHealTypeOK'
  BY <1>1, <1>2 DEF Stages, SelfHealTypeOK, Incident, Row, JobFile
<1>4. SlotInv'
  BY <1>1 DEF SlotInv
<1>5. SentInv'
  BY <1>1, <1>2 DEF SentInv, SameMarks
<1>6. SendInv' /\ RequestSentOnce' /\ DiagnosedOnce'
  BY <1>1 DEF SendInv, Requesting, RequestSentOnce, DiagnosedOnce, Evidence
<1> QED
  BY <1>1, <1>3, <1>4, <1>5, <1>6

(* A diagnosis is started only if no escalation failed under the same      *)
(* conditions, and as an escalation if a first one did.                    *)
LEMMA ReviewModeSays ==
  ASSUME NEW f, rows \in Seq(Row),
         ReviewMode(rows, f) # "none",
         NEW n \in DOMAIN rows, rows[n].fault = f, rows[n].state \in Unsuccessful,
         \/ rows[n].cond = Cond(f)
         \/ rows[n].state = "needs_input" /\ Evidence(rows[n]) = ev[f]
  PROVE  rows[n].mode = "repair" /\ ReviewMode(rows, f) = "escalation"
<1>1. rows[n] \in RowsOf(rows, f)
  BY DEF RowsOf
<1>2. rows[n] \in FailedAlready(rows, f)
  BY <1>1 DEF FailedAlready, InputBlocked
<1>3. rows[n].mode \in {"repair", "escalation"}
  <2>1. rows \in Seq(Row) /\ n \in 1 .. Len(rows)
    OBVIOUS
  <2>2. rows[n] \in Row
    BY <2>1
  <2> QED
    BY <2>2 DEF Row
<1> QED
  BY <1>2, <1>3 DEF ReviewMode

(* A diagnosis is a repair or an escalation.                               *)
LEMMA ModeKnown ==
  ASSUME NEW f, ReviewMode(rows, f) # "none"
  PROVE  ReviewMode(rows, f) \in {"repair", "escalation"}
BY DEF ReviewMode

(* A new job is a number that was never sent, and diagnoses anew.          *)
LEMMA StartKeeps ==
  ASSUME HInv, NEW f \in Faults, StartJob(f)
  PROVE  HInv'
<1> USE DEF HInv
<1> DEFINE mode == ReviewMode(rows, f)
           row == [fault |-> f, cond |-> Cond(f), mode |-> mode, state |-> "running"]
           j == Len(rows) + 1
<1>1. /\ UNCHANGED <<turn, ev, rev, worker, sent, resent>> /\ stage = <<"next">>
      /\ stage' = <<"launch">> /\ activeJob' = j /\ j \in JobNumbers /\ mode # "none"
      /\ file' = [state |-> "running", action |-> "none"] /\ rows' = Append(rows, row)
      /\ incident' = [incident EXCEPT ![f].state = "repairing", ![f].job = j]
  BY DEF StartJob, Chosen, store, NoFile
<1>2. mode \in {"repair", "escalation"}
  BY <1>1, ModeKnown
<1>3. Cond(f) \in Conditions
  BY DEF Cond, Conditions, SelfHealTypeOK
<1>4. row \in Row
  BY <1>2, <1>3 DEF Row
<1>5. rows \in Seq(Row) /\ Len(rows) \in Nat
  BY DEF SelfHealTypeOK, Incident, Row, JobFile
<1>6. /\ rows' \in Seq(Row) /\ Len(rows') = j
      /\ \A n \in 1 .. Len(rows) : rows'[n] = rows[n]
      /\ rows'[j] = row
  <2> HIDE DEF row
  <2> QED
    BY <1>1, <1>4, <1>5
<1>7. DiagnosedOnce'
  <2> SUFFICES ASSUME NEW n \in 1 .. j, NEW m \in 1 .. j, n < m,
                      rows'[n].fault = rows'[m].fault, rows'[n].state \in Unsuccessful,
                      \/ rows'[n].cond = rows'[m].cond
                      \/ rows'[n].state = "needs_input" /\ rows'[n].cond[1] = rows'[m].cond[1]
               PROVE  rows'[n].mode = "repair" /\ rows'[m].mode = "escalation"
    BY <1>6 DEF DiagnosedOnce, Evidence
  <2>1. n \in DOMAIN rows /\ rows'[n] = rows[n]
    BY <1>5, <1>6
  <2>2. CASE m = j
    <3>1. rows'[m] = row
      BY <1>6, <2>2
    <3>2. rows[n].fault = f
      BY <2>1, <3>1
    <3>3. \/ rows[n].cond = Cond(f)
          \/ rows[n].state = "needs_input" /\ Evidence(rows[n]) = ev[f]
      BY <2>1, <3>1 DEF Evidence, Cond
    <3>4. rows[n].mode = "repair" /\ mode = "escalation"
      BY <1>1, <1>5, <2>1, <3>2, <3>3, ReviewModeSays
    <3> QED
      BY <2>1, <3>1, <3>4
  <2>3. CASE m # j
    <3>1. m \in DOMAIN rows /\ rows'[m] = rows[m]
      BY <1>5, <1>6, <2>3
    <3> QED
      BY <2>1, <3>1 DEF DiagnosedOnce, Evidence
  <2> QED
    BY <2>2, <2>3
<1>8. /\ incident' \in [Faults -> Incident]
      /\ \A g \in Faults : SameMarks(g)
  <2>1. "repairing" \in IncidentStates /\ j \in 0 .. MaxJobs
    BY <1>1, HealBounds DEF IncidentStates, JobNumbers
  <2> DEFINE i == [incident[f] EXCEPT !.state = "repairing", !.job = j]
  <2>2. i \in Incident /\ i.direct = incident[f].direct /\ i.fixed = incident[f].fixed
    BY <2>1, IncidentTypes DEF Incident
  <2>3. incident' = [incident EXCEPT ![f] = i]
    BY <1>1
  <2> HIDE DEF i
  <2> QED
    BY <2>2, <2>3, IncidentSet DEF SameMarks
<1>9. SelfHealTypeOK'
  <2>1. activeJob' \in 0 .. MaxJobs
    BY <1>1, HealBounds DEF JobNumbers
  <2>2. file' \in JobFile
    BY <1>1 DEF JobFile
  <2> QED
    BY <1>1, <1>6, <1>8, <2>1, <2>2 DEF SelfHealTypeOK, Incident, Row, JobFile
<1>10. worker = "none"
  BY <1>1 DEF SlotInv
<1>11. SlotInv'
  BY <1>1, <1>5, <1>6, <1>10 DEF SlotInv, Asking
<1>12. SentInv'
  <2>1. \A n \in JobNumbers : <<"job", n>> \in sent => n <= Len(rows) /\ n # j
    BY <1>5 DEF SentInv, JobNumbers
  <2> QED
    BY <1>1, <1>5, <1>6, <1>8, <2>1 DEF SentInv, JobNumbers
<1>13. stage' \in Stages /\ SendInv' /\ RequestSentOnce'
  BY <1>1 DEF Stages, SendInv, Requesting, RequestSentOnce
<1> QED
  BY <1>1, <1>7, <1>9, <1>11, <1>12, <1>13

(* The worker is started once the state names its job.                    *)
LEMMA LaunchKeeps ==
  ASSUME HInv, Launch
  PROVE  HInv'
<1> USE DEF HInv
<1>1. /\ UNCHANGED <<turn, ev, rev, incident, rows, activeJob, file, sent, resent>>
      /\ stage = <<"launch">> /\ stage' = <<"idle">> /\ worker' = "starting"
  BY DEF Launch, store
<1>2. SelfHealTypeOK' /\ stage' \in Stages
  BY <1>1 DEF SelfHealTypeOK, Stages
<1>3. SlotInv'
  BY <1>1 DEF SlotInv, Asking
<1>4. SentInv' /\ SendInv' /\ RequestSentOnce' /\ DiagnosedOnce'
  BY <1>1 DEF SentInv, SendInv, Requesting, RequestSentOnce, DiagnosedOnce, Evidence
<1> QED
  BY <1>1, <1>2, <1>3, <1>4

-----------------------------------------------------------------------------
(* Every step keeps the invariant.                                         *)
LEMMA HealStepKeeps == HInv /\ [HealNext]_healVars => HInv'
<1> SUFFICES ASSUME HInv, [HealNext]_healVars PROVE HInv'
  OBVIOUS
<1>1. CASE UNCHANGED healVars
  <2>1. UNCHANGED <<turn, ev, rev, incident, rows, activeJob, file, worker, stage, sent, resent>>
    BY <1>1 DEF healVars
  <2>2. SelfHealTypeOK'
    BY <2>1 DEF HInv, SelfHealTypeOK
  <2>3. SlotInv' /\ SentInv' /\ SendInv' /\ RequestSentOnce' /\ DiagnosedOnce'
    BY <2>1 DEF HInv, SlotInv, SentInv, SendInv, Requesting, RequestSentOnce,
                DiagnosedOnce, Evidence
  <2> QED
    BY <2>1, <2>2, <2>3 DEF HInv
<1>2. CASE Observe
  BY <1>2, ObserveKeeps
<1>3. CASE Working \/ Rest \/ HealCrash \/ HealRestart
  BY <1>3, WaitingKeeps
<1>4. CASE GuardedRetry
  BY <1>4, GuardedKeeps
<1>5. CASE Launch
  BY <1>5, LaunchKeeps
<1>6. CASE WorkerSteps \/ WorkerDies
  BY <1>6, WorkerKeeps DEF WorkerSteps
<1>7. CASE WorkerMissing \/ \E f \in Faults : ReleaseGoesOn(f) \/ ReleaseEnded(f) \/ RetriedJob(f)
  BY <1>7, JobFileKeeps
<1>8. ASSUME NEW f \in Faults, IntendRetry(f) PROVE HInv'
  BY <1>8, JobFileKeeps, IntendKeeps
<1>9. ASSUME NEW f \in Faults, Conclude(f) \/ ReleaseRetried(f) PROVE HInv'
  BY <1>9, ConcludeKeeps, ReleaseRetriedKeeps
<1>10. ASSUME NEW f \in Faults, DirectRetry(f) \/ FixedRecovery(f) PROVE HInv'
  BY <1>10, MarkedKeeps
<1>11. ASSUME NEW f \in Faults, RequestEnded(f) \/ StartJob(f) PROVE HInv'
  BY <1>11, RequestEndedKeeps, StartKeeps
<1>12. ASSUME NEW f \in Faults, TurnEnds(f) \/ Supply(f) \/ Hold(f) PROVE HInv'
  BY <1>12, WorldKeeps
<1> QED
  BY <1>1, <1>2, <1>3, <1>4, <1>5, <1>6, <1>7, <1>8, <1>9, <1>10, <1>11, <1>12
     DEF HealNext, Tick

(* Self-heal's inductive invariant, its type invariant included.           *)
THEOREM HealInductive == HealSpec => []HInv
<1>1. HealInit => HInv
  BY HealInitHolds
<1>2. HInv /\ [HealNext]_healVars => HInv'
  BY HealStepKeeps
<1> QED
  BY <1>1, <1>2, PTL DEF HealSpec

(* "An interrupted/uncertain PATCH is only reconciled from fresh state; it *)
(* is never automatically sent twice" (self-heal.mjs:141), however often   *)
(* the controller and its workers die.                                     *)
THEOREM RequestReachesStoreOnce == HealSpec => []RequestSentOnce
<1>1. HInv => RequestSentOnce
  BY DEF HInv
<1> QED
  BY <1>1, HealInductive, PTL

(* Under one and the same conditions a fault is diagnosed once, and once   *)
(* more as an escalation (recoveryReviewMode, lib/self-heal.mjs:67).       *)
THEOREM FaultDiagnosedOnce == HealSpec => []DiagnosedOnce
<1>1. HInv => DiagnosedOnce
  BY DEF HInv
<1> QED
  BY <1>1, HealInductive, PTL

(***************************************************************************)
(* The release.                                                            *)
(***************************************************************************)

(* A person's commits have numbers above those of the repairs.             *)
UsedInv ==
    /\ used \in [crashes : 0 .. MaxCrashes, deaths : 0 .. MaxDeaths,
                 edits : 0 .. MaxEdits]
    /\ edited => used.edits # 0

OnMain(r) == \E n \in DOMAIN main : main[n] = r
Sound(r) == r \in built \cup {0} /\ OnMain(r)

(* What is running, and what a restart or a rollback would run.            *)
LiveInv ==
    \A r \in {pointer, api.rel, api.named, runner.rel, deploy.oldApi} : Sound(r)

(* The phases after the merge.                                             *)
Live == {"api-switch", "jobs", "drain", "waiting-runner", "start-runner",
         "verify-runner", "push"}

(* What each saved phase says of the release, and where the controller may *)
(* be while it is in that phase.                                           *)
DeployInv ==
    /\ deploy.phase \in Live => Sound(deploy.job)
    /\ deploy.phase = "activate" => deploy.job \in built
    /\ at \in {"headRead", "clean", "merged"} => deploy.phase = "activate"
    /\ at = "merged" => OnMain(deploy.job)
    /\ at \in {"stopped", "waitApi"} => deploy.phase = "api-switch"
    /\ at = "asked" => deploy.phase = "drain"
    /\ at \in {"ran", "ranBeside"} => deploy.phase = "start-runner"
    /\ at = "freezing" => deploy.phase = "prepare"
    /\ deploy.phase \notin {"complete", "failed"} => deploy.job \in Jobs

SInv == SelfReleaseTypeOK /\ main # << >> /\ UsedInv /\ LiveInv /\ DeployInv

-----------------------------------------------------------------------------
LEMMA Bounds ==
    /\ NJobs \in Nat /\ MaxEdits \in Nat /\ MaxCrashes \in Nat /\ MaxDeaths \in Nat
    /\ Jobs \subseteq Releases /\ 0 \in Releases /\ 0 \notin Jobs
    /\ Releases \subseteq 0 .. NJobs + MaxEdits
BY SelfReleaseAssumption DEF Jobs, Releases

(* The invariant holds at the start.                                       *)
LEMMA InitHolds == Init => SInv
<1> SUFFICES ASSUME Init PROVE SInv
  OBVIOUS
<1>1. main \in Seq(0 .. NJobs + MaxEdits) /\ main # << >>
  BY Bounds DEF Init
<1>2. SelfReleaseTypeOK
  BY <1>1, Bounds DEF Init, SelfReleaseTypeOK, Phases, Places
<1>3. UsedInv
  BY Bounds DEF Init, UsedInv
<1>4. OnMain(0)
  BY DEF Init, OnMain
<1>5. LiveInv
  BY <1>4 DEF Init, LiveInv, Sound
<1>6. DeployInv
  BY DEF Init, DeployInv, Live
<1> QED
  BY <1>1, <1>2, <1>3, <1>5, <1>6 DEF SInv

LEMMA LastOf ==
    ASSUME NEW S, NEW s \in Seq(S), s # << >>
    PROVE  Len(s) \in DOMAIN s /\ s[Len(s)] \in S
OBVIOUS

LEMMA Appended ==
    ASSUME NEW S, NEW s \in Seq(S), NEW x \in S
    PROVE  /\ Append(s, x) \in Seq(S) /\ Append(s, x) # << >>
           /\ Append(s, x)[Len(Append(s, x))] = x
OBVIOUS

LEMMA HeadCommit == SInv => Head0 \in 0 .. NJobs + MaxEdits /\ OnMain(Head0)
BY LastOf DEF SInv, SelfReleaseTypeOK, Head0, OnMain

(* Commits and builds are only added: what was sound stays so.             *)
LEMMA SoundStays ==
    ASSUME SInv, built \subseteq built',
           main' = main \/ \E x : main' = Append(main, x)
    PROVE  \A r : (OnMain(r) => OnMain(r)') /\ (Sound(r) => Sound(r)')
<1>1. main \in Seq(0 .. NJobs + MaxEdits)
  BY DEF SInv, SelfReleaseTypeOK
<1>2. \A n \in DOMAIN main : n \in DOMAIN main' /\ main'[n] = main[n]
  BY <1>1
<1> QED
  BY <1>2 DEF OnMain, Sound

(* Every step but Crash and Restart is within one of the following groups. *)

(* A person edits, and commits what was edited.                            *)
LEMMA EditKeeps == SInv /\ (Edit \/ CommitEdit) => SInv'
<1> SUFFICES ASSUME SInv, Edit \/ CommitEdit PROVE SInv'
  OBVIOUS
<1> USE DEF services
<1>1. built' = built /\ (main' = main \/ \E x : main' = Append(main, x))
  BY DEF Edit, CommitEdit
<1>2. \A r : (OnMain(r) => OnMain(r)') /\ (Sound(r) => Sound(r)')
  BY <1>1, SoundStays
<1>3. used' \in [crashes : 0 .. MaxCrashes, deaths : 0 .. MaxDeaths, edits : 0 .. MaxEdits]
      /\ (edited' => used'.edits # 0) /\ edited' \in BOOLEAN
  <2>1. CASE Edit
    <3>1. used.edits \in Nat /\ used.edits < MaxEdits
      BY <2>1, Bounds DEF SInv, UsedInv, Edit
    <3>2. used.edits + 1 \in 0 .. MaxEdits /\ used.edits + 1 # 0
      BY <3>1, Bounds
    <3> QED
      BY <2>1, <3>2 DEF SInv, UsedInv, Edit
  <2>2. CASE CommitEdit
    BY <2>2 DEF SInv, UsedInv, CommitEdit
  <2> QED
    BY <2>1, <2>2
<1>4. main' \in Seq(0 .. NJobs + MaxEdits) /\ main' # << >>
  <2>1. NJobs + used.edits \in 0 .. NJobs + MaxEdits
    BY Bounds DEF SInv, UsedInv
  <2>2. main \in Seq(0 .. NJobs + MaxEdits) /\ main # << >>
    BY DEF SInv, SelfReleaseTypeOK
  <2> QED
    BY <2>1, <2>2, Appended DEF Edit, CommitEdit
<1>5. UNCHANGED <<repair, held, deploy, frozen, built, pointer, api, runner, adoption, at, sick>>
  BY DEF Edit, CommitEdit
<1>6. SelfReleaseTypeOK'
  BY <1>3, <1>4, <1>5 DEF SInv, SelfReleaseTypeOK
<1>7. LiveInv' /\ DeployInv'
  BY <1>2, <1>5 DEF SInv, LiveInv, DeployInv
<1> QED
  BY <1>3, <1>4, <1>6, <1>7 DEF SInv, UsedInv

(* The controller dies and starts again, services die, come up and leave.  *)
LEMMA SurroundingsKeep ==
    SInv /\ (Crash \/ Restart \/ ApiRecords \/ ApiHealthy \/ ApiDies
             \/ RunnerLeaves \/ RunnerDies) => SInv'
<1> SUFFICES ASSUME SInv, Crash \/ Restart \/ ApiRecords \/ ApiHealthy \/ ApiDies
                            \/ RunnerLeaves \/ RunnerDies
             PROVE  SInv'
  OBVIOUS
<1> USE DEF world, services
<1>1. UNCHANGED <<world, repair, held, deploy>> /\ pointer' = pointer
  BY DEF Crash, Restart, ApiRecords, ApiHealthy, ApiDies, RunnerLeaves, RunnerDies
<1>2. api' \in [rel : {api.rel}, named : {api.named, api.rel},
                st : {"dead", "booting", "starting", "healthy"}]
  BY DEF SInv, SelfReleaseTypeOK, Crash, Restart, ApiRecords, ApiHealthy, ApiDies,
         RunnerLeaves, RunnerDies
<1>3. runner' \in [rel : {runner.rel}, st : {"down", "up", "asked"}]
  BY DEF SInv, SelfReleaseTypeOK, Crash, Restart, ApiRecords, ApiHealthy, ApiDies,
         RunnerLeaves, RunnerDies
<1>4. adoption' = adoption /\ at' \in {at, "down", "idle"}
  BY DEF Crash, Restart, ApiRecords, ApiHealthy, ApiDies, RunnerLeaves, RunnerDies
<1>5. used' \in [crashes : 0 .. MaxCrashes, deaths : 0 .. MaxDeaths, edits : {used.edits}]
  BY Bounds DEF SInv, UsedInv, Crash, Restart, ApiRecords, ApiHealthy, ApiDies,
                RunnerLeaves, RunnerDies
<1>6. SelfReleaseTypeOK'
  BY <1>1, <1>2, <1>3, <1>4 DEF SInv, SelfReleaseTypeOK, Places
<1>7. UsedInv' /\ main' # << >>
  BY <1>1, <1>5 DEF SInv, UsedInv
<1>8. \A r : OnMain(r)' = OnMain(r) /\ Sound(r)' = Sound(r)
  BY <1>1 DEF OnMain, Sound
<1>9. LiveInv'
  BY <1>1, <1>2, <1>3, <1>8 DEF SInv, LiveInv
<1>10. DeployInv'
  BY <1>1, <1>4, <1>8 DEF SInv, DeployInv
<1> QED
  BY <1>6, <1>7, <1>9, <1>10 DEF SInv

(* What the controller does beside a release.                              *)
LEMMA TickKeeps ==
    SInv /\ (AdoptIdleRunner \/ Signal \/ EnsureServices \/ Nothing \/ Concluded
             \/ BeginRelease \/ JobPublished \/ JobFailed \/ Ended
             \/ (\E j \in Jobs : StartRepair(j) \/ RepairReadsHead(j) \/ Repaired(j)))
      => SInv'
<1> SUFFICES ASSUME SInv, AdoptIdleRunner \/ Signal \/ EnsureServices \/ Nothing
                            \/ Concluded \/ BeginRelease \/ JobPublished \/ JobFailed
                            \/ Ended
                            \/ (\E j \in Jobs : StartRepair(j) \/ RepairReadsHead(j)
                                                \/ Repaired(j))
             PROVE  SInv'
  OBVIOUS
<1> USE DEF world, services
<1>1. UNCHANGED <<world, pointer, used>>
  BY DEF AdoptIdleRunner, Signal, EnsureServices, Nothing, Concluded, BeginRelease,
         JobPublished, JobFailed, Ended, StartRepair, RepairReadsHead, Repaired
<1>2. api' \in [rel : {api.rel, api.named}, named : {api.named},
                st : {"dead", "booting", "starting", "healthy"}]
  BY DEF SInv, SelfReleaseTypeOK, AdoptIdleRunner, Signal, EnsureServices, Nothing,
         Concluded, BeginRelease, JobPublished, JobFailed, Ended, StartRepair,
         RepairReadsHead, Repaired, Started
<1>3. runner' \in [rel : {runner.rel, pointer}, st : {"down", "up", "asked"}]
  BY DEF SInv, SelfReleaseTypeOK, AdoptIdleRunner, Signal, EnsureServices, Nothing,
         Concluded, BeginRelease, JobPublished, JobFailed, Ended, StartRepair,
         RepairReadsHead, Repaired
<1>4. held' \in Releases /\ adoption' \in {"none", "pending", "signaled"}
  BY Bounds DEF SInv, SelfReleaseTypeOK, AdoptIdleRunner, Signal, EnsureServices,
                Nothing, Concluded, BeginRelease, JobPublished, JobFailed, Ended,
                StartRepair, RepairReadsHead, Repaired
<1>5. repair' \in [Jobs -> [state : {"none", "running", "headRead", "ready", "failed", "published"},
                            base : 0 .. NJobs + MaxEdits]]
  <2>1. CASE \E j \in Jobs : StartRepair(j)
    BY <2>1, HeadCommit DEF SInv, SelfReleaseTypeOK, StartRepair
  <2>2. CASE JobPublished \/ JobFailed \/ \E j \in Jobs : RepairReadsHead(j) \/ Repaired(j)
    <3>1. PICK job : \E state \in {"headRead", "ready", "failed", "published"} :
            repair' = [repair EXCEPT ![job].state = state]
      <4>1. CASE JobPublished \/ JobFailed
        BY <4>1 DEF JobPublished, JobFailed
      <4>2. CASE \E j \in Jobs : RepairReadsHead(j) \/ Repaired(j)
        BY <4>2 DEF RepairReadsHead, Repaired
      <4> QED
        BY <2>2, <4>1, <4>2
    <3>2. PICK state \in {"headRead", "ready", "failed", "published"} :
            repair' = [repair EXCEPT ![job].state = state]
      BY <3>1
    <3>3. repair' = [j \in Jobs |-> IF j = job THEN [repair[j] EXCEPT !.state = state]
                                              ELSE repair[j]]
      BY <3>2 DEF SInv, SelfReleaseTypeOK
    <3>4. \A j \in Jobs : [repair[j] EXCEPT !.state = state]
             \in [state : {"none", "running", "headRead", "ready", "failed", "published"},
                  base : 0 .. NJobs + MaxEdits]
      <4>1. repair \in [Jobs -> [state : {"none", "running", "headRead", "ready", "failed", "published"},
                                 base : 0 .. NJobs + MaxEdits]]
        BY DEF SInv, SelfReleaseTypeOK
      <4>2. state \in {"none", "running", "headRead", "ready", "failed", "published"}
        BY <3>2
      <4> HIDE <3>2
      <4> QED
        BY <4>1, <4>2
    <3> QED
      BY <3>3, <3>4 DEF SInv, SelfReleaseTypeOK
  <2> QED
    BY <2>1, <2>2 DEF SInv, SelfReleaseTypeOK, AdoptIdleRunner, Signal,
                      EnsureServices, Nothing, Concluded, BeginRelease, Ended
<1>6. \/ at' \in {at, "idle", "signal", "ensure", "job"} /\ deploy' = deploy
      \/ /\ at' = "release" /\ held \in Jobs
         /\ deploy' \in [active : BOOLEAN, job : {held}, phase : Phases,
                         oldApi : {deploy.oldApi, api.named}, newRunner : BOOLEAN]
         /\ (deploy'.phase = "prepare" \/ deploy' = deploy)
  <2>1. CASE BeginRelease
    <3>1. held \in Jobs
      BY <2>1 DEF SInv, SelfReleaseTypeOK, BeginRelease, Jobs, Releases
    <3>2. CASE deploy.job = held
      BY <2>1, <3>1, <3>2 DEF SInv, SelfReleaseTypeOK, BeginRelease
    <3>3. CASE deploy.job # held
      BY <2>1, <3>1, <3>3 DEF BeginRelease, Phases
    <3> QED
      BY <3>2, <3>3
  <2>2. CASE \E j \in Jobs : StartRepair(j) \/ RepairReadsHead(j) \/ Repaired(j)
    BY <2>2 DEF StartRepair, RepairReadsHead, Repaired
  <2>3. CASE JobPublished \/ JobFailed \/ Ended
    BY <2>3 DEF JobPublished, JobFailed, Ended
  <2> QED
    BY <2>1, <2>2, <2>3 DEF AdoptIdleRunner, Signal, EnsureServices, Nothing, Concluded
<1>7. SelfReleaseTypeOK'
  BY SMTT(30), <1>1, <1>2, <1>3, <1>4, <1>5, <1>6, Bounds DEF SInv,
     SelfReleaseTypeOK, Places
<1>8. UsedInv' /\ main' # << >>
  BY <1>1 DEF SInv, UsedInv
<1>9. \A r : OnMain(r)' = OnMain(r) /\ Sound(r)' = Sound(r)
  BY <1>1 DEF OnMain, Sound
<1>10. LiveInv'
  BY <1>1, <1>2, <1>3, <1>6, <1>9 DEF SInv, LiveInv
<1>11. DeployInv'
  BY <1>1, <1>6, <1>9 DEF SInv, DeployInv, Live
<1> QED
  BY <1>7, <1>8, <1>10, <1>11 DEF SInv

(* What can be saved in deploy.json while a release is under way.          *)
Deploys == [active : BOOLEAN, job : {deploy.job}, phase : Phases,
            oldApi : {deploy.oldApi}, newRunner : BOOLEAN]

LEMMA NextPhase ==
    ASSUME SInv, NEW phase \in Phases
    PROVE  /\ deploy \in Deploys /\ [deploy EXCEPT !.phase = phase] \in Deploys
           /\ [deploy EXCEPT !.phase = phase].phase = phase
           /\ [deploy EXCEPT !.phase = phase].job = deploy.job
BY DEF SInv, SelfReleaseTypeOK, Deploys

(* A phase of a release ends in the next one, and fails where it stands.   *)
LEMMA PhaseKeeps ==
    ASSUME SInv, UNCHANGED <<edited, repair, held, sick, used>>,
           built' \in SUBSET Jobs, built \subseteq built',
           frozen' \in [Jobs -> {"none", "half", "whole"}],
           main' = main \/ (main' = Append(main, deploy.job) /\ deploy.job \in Jobs),
           pointer' \in {pointer, deploy.job}, pointer' # pointer => deploy.phase \in Live,
           api' \in [rel : Releases, named : {api.named},
                     st : {"dead", "booting", "starting", "healthy"}],
           api'.rel \in {api.rel, deploy.oldApi}
             \/ (api'.rel = deploy.job /\ deploy.phase \in Live),
           runner' \in [rel : Releases, st : {"down", "up", "asked"}],
           runner'.rel = runner.rel \/ (runner'.rel = deploy.job /\ deploy.phase \in Live),
           adoption' \in {"none", "pending", "signaled"},
           at' \in Places,
           deploy' \in Deploys, DeployInv'
    PROVE  SInv'
<1>1. \A r : Sound(r) => Sound(r)'
  BY SoundStays
<1>2. SelfReleaseTypeOK' /\ main' # << >>
  <2>1. main' \in Seq(0 .. NJobs + MaxEdits) /\ main' # << >>
    <3>1. main \in Seq(0 .. NJobs + MaxEdits) /\ main # << >>
      BY DEF SInv, SelfReleaseTypeOK
    <3>2. ASSUME deploy.job \in Jobs
          PROVE  Append(main, deploy.job) \in Seq(0 .. NJobs + MaxEdits)
                 /\ Append(main, deploy.job) # << >>
      <4>1. deploy.job \in 0 .. NJobs + MaxEdits
        BY <3>2, Bounds
      <4> QED
        BY <3>1, <4>1, Appended
    <3> QED
      BY <3>1, <3>2
  <2> QED
    BY <2>1 DEF SInv, SelfReleaseTypeOK, Deploys
<1>3. UsedInv'
  BY DEF SInv, UsedInv
<1>4. LiveInv'
  <2> deploy'.job = deploy.job /\ deploy'.oldApi = deploy.oldApi
    BY DEF Deploys
  <2>1. deploy.phase \in Live => Sound(deploy.job)'
    BY <1>1 DEF SInv, DeployInv, Sound, OnMain
  <2>2. \A r \in {pointer, api.rel, api.named, runner.rel, deploy.oldApi} : Sound(r)'
    BY <1>1 DEF SInv, LiveInv
  <2>3. Sound(pointer)' /\ Sound(api.rel)' /\ Sound(api.named)' /\ Sound(runner.rel)'
        /\ Sound(deploy.oldApi)'
    BY <2>1, <2>2 DEF Sound, OnMain
  <2> QED
    BY <2>3 DEF LiveInv, Deploys
<1> QED
  BY <1>2, <1>3, <1>4 DEF SInv

(* Before the switch: the release is frozen and built, and its commit put  *)
(* on the main branch.                                                     *)
LEMMA PreparationKeeps ==
    SInv /\ (Freeze \/ Frozen \/ Build \/ ReadHead \/ CheckClean \/ Merge \/ Merged) => SInv'
<1> SUFFICES ASSUME SInv, Freeze \/ Frozen \/ Build \/ ReadHead \/ CheckClean \/ Merge \/ Merged PROVE SInv'
  OBVIOUS
<1> USE DEF world, services
<1>1. UNCHANGED <<edited, repair, held, sick, used, pointer, api, runner, adoption>>
  BY DEF Freeze, Frozen, Build, ReadHead, CheckClean, Merge, Merged
<1>2. /\ built' \in SUBSET Jobs /\ built \subseteq built'
      /\ main' = main \/ (main' = Append(main, deploy.job) /\ deploy.job \in Jobs)
  BY DEF SInv, SelfReleaseTypeOK, DeployInv, Freeze, Frozen, Build, ReadHead, CheckClean, Merge, Merged,
         In, Rel
<1>3. frozen' \in [Jobs -> {"none", "half", "whole"}]
  BY DEF SInv, SelfReleaseTypeOK, DeployInv, Freeze, Frozen, Build, ReadHead, CheckClean, Merge, Merged,
         In, Rel
<1>4. \/ at' \in {"freezing", "headRead", "clean", "merged"} /\ deploy' = deploy
      \/ at' = "throwing" /\ deploy' = deploy
      \/ \E phase \in {"build", "activate", "api-switch", "jobs"} :
           at' = "release" /\ deploy' = [deploy EXCEPT !.phase = phase]
  <2>1. CASE Freeze
    BY <2>1 DEF SInv, SelfReleaseTypeOK, DeployInv, Freeze, In, Rel, To, Throw
  <2>2. CASE Frozen \/ Build \/ ReadHead \/ CheckClean \/ Merge \/ Merged
    BY <2>2 DEF Frozen, Build, ReadHead, CheckClean, Merge, Merged, To, Throw
  <2> QED
    BY <2>1, <2>2
<1>5. at' \in Places /\ deploy' \in Deploys
  BY <1>4, NextPhase DEF Places, Phases
<1>6. DeployInv'
  <2>1. \A r : (OnMain(r) => OnMain(r)') /\ (Sound(r) => Sound(r)')
    BY <1>2, SoundStays
  <2>2. CASE Freeze
    BY <2>1, <2>2 DEF SInv, SelfReleaseTypeOK, DeployInv, Live, Freeze, In, Rel, To,
                      Throw
  <2>3. CASE Frozen
    BY <2>1, <2>3 DEF SInv, SelfReleaseTypeOK, DeployInv, Live, Frozen, In, Rel, To,
                      Throw
  <2>4. CASE Build
    BY <2>1, <2>4 DEF SInv, SelfReleaseTypeOK, DeployInv, Live, Build, In, Rel, To,
                      Throw
  <2>5. CASE Merge
    <3>1. at' = "merged" => OnMain(deploy.job)'
      <4>1. CASE main' = Append(main, deploy.job)
        <5>1. main \in Seq(0 .. NJobs + MaxEdits) /\ deploy.job \in 0 .. NJobs + MaxEdits
          BY Bounds DEF SInv, SelfReleaseTypeOK
        <5>2. Len(main') \in DOMAIN main' /\ main'[Len(main')] = deploy.job
          BY <4>1, <5>1, Appended, LastOf
        <5> QED
          BY <2>5, <5>2 DEF Merge, Throw, OnMain
      <4> QED
        BY <2>5, <4>1 DEF Merge, Rel, Throw
    <3> QED
      BY <2>1, <2>5, <3>1 DEF SInv, SelfReleaseTypeOK, DeployInv, Live, Merge, In,
                              Rel, To, Throw
  <2>6. CASE ReadHead
    <3>1. at' = "merged" => Head0 = deploy.job
      BY <2>6 DEF ReadHead, Rel, Throw
    <3>2. at' = "merged" => OnMain(deploy.job)'
      BY <2>1, <2>6, <3>1, HeadCommit DEF ReadHead, Throw, OnMain
    <3> QED
      BY <2>1, <2>6, <3>2 DEF SInv, SelfReleaseTypeOK, DeployInv, Live, ReadHead, In,
                              Rel, Throw
  <2>7. CASE CheckClean
    BY <2>1, <2>7 DEF SInv, SelfReleaseTypeOK, DeployInv, Live, CheckClean, Throw
  <2>8. CASE Merged
    BY <2>1, <2>8 DEF SInv, SelfReleaseTypeOK, DeployInv, Live, Merged, In, Rel, To,
                      Throw, Sound
  <2> QED
    BY <2>2, <2>3, <2>4, <2>5, <2>6, <2>7, <2>8
<1>7. /\ api \in [rel : Releases, named : {api.named},
                   st : {"dead", "booting", "starting", "healthy"}]
      /\ runner \in [rel : Releases, st : {"down", "up", "asked"}]
      /\ adoption \in {"none", "pending", "signaled"}
  BY DEF SInv, SelfReleaseTypeOK
<1>8. built' \in SUBSET Jobs /\ built \subseteq built'
  BY <1>2
<1>9. main' = main \/ (main' = Append(main, deploy.job) /\ deploy.job \in Jobs)
  BY <1>2
<1> QED
  BY <1>1, <1>3, <1>5, <1>6, <1>7, <1>8, <1>9, PhaseKeeps

(* The API is switched to the release, or to the earlier one again.        *)
LEMMA SwitchKeeps ==
    SInv /\ (StopApi \/ LaunchApi \/ SwitchedBefore \/ WaitApi \/ GiveUpApi
             \/ RestoreApi) => SInv'
<1> SUFFICES ASSUME SInv, StopApi \/ LaunchApi \/ SwitchedBefore \/ WaitApi
                            \/ GiveUpApi \/ RestoreApi
             PROVE  SInv'
  OBVIOUS
<1> USE DEF world
<1>1. UNCHANGED <<main, edited, built, frozen, sick, repair, held, used, pointer,
                  runner, adoption>>
  BY DEF StopApi, LaunchApi, SwitchedBefore, WaitApi, GiveUpApi, RestoreApi, services
<1>2. \/ at' \in {"stopped", "waitApi"} /\ deploy' = deploy /\ deploy.phase = "api-switch"
      \/ at' \in {"childGone", "rollback", "throwing"} /\ deploy' = deploy
      \/ /\ at' = "release" /\ deploy.phase = "api-switch"
         /\ deploy' = [deploy EXCEPT !.phase = "jobs"]
  <2>1. at \in {"stopped", "waitApi"} => deploy.phase = "api-switch"
    BY DEF SInv, DeployInv
  <2>3. CASE StopApi \/ LaunchApi
    BY <2>1, <2>3 DEF StopApi, LaunchApi, In, Throw
  <2>4. CASE SwitchedBefore \/ WaitApi
    BY <2>1, <2>4 DEF SwitchedBefore, WaitApi, In, To
  <2> QED
    BY <2>3, <2>4 DEF GiveUpApi, RestoreApi, Throw
<1>3. at' \in Places /\ deploy' \in Deploys
  BY <1>2, NextPhase DEF Places, Phases
<1>4. DeployInv'
  <2>1. /\ deploy'.job = deploy.job
        /\ deploy' = deploy \/ (deploy.phase = "api-switch" /\ deploy'.phase = "jobs")
    <3>1. "jobs" \in Phases
      BY DEF Phases
    <3>2. /\ [deploy EXCEPT !.phase = "jobs"].phase = "jobs"
          /\ [deploy EXCEPT !.phase = "jobs"].job = deploy.job
      BY <3>1, NextPhase
    <3> QED
      BY <1>2, <3>2
  <2> QED
    BY <1>1, <1>2, <2>1 DEF SInv, DeployInv, Live, Sound, OnMain
<1>5. /\ api' \in [rel : Releases, named : {api.named},
                   st : {"dead", "booting", "starting", "healthy"}]
      /\ \/ api'.rel \in {api.rel, deploy.oldApi}
         \/ api'.rel = deploy.job /\ deploy.phase \in Live
  BY DEF SInv, SelfReleaseTypeOK, DeployInv, Live, StopApi, LaunchApi,
         SwitchedBefore, WaitApi, GiveUpApi, RestoreApi, services, Started, In, Rel
<1>6. /\ runner \in [rel : Releases, st : {"down", "up", "asked"}]
      /\ adoption \in {"none", "pending", "signaled"}
      /\ frozen \in [Jobs -> {"none", "half", "whole"}] /\ built \in SUBSET Jobs
  BY DEF SInv, SelfReleaseTypeOK
<1> QED
  BY <1>1, <1>3, <1>4, <1>5, <1>6, PhaseKeeps

(* The jobs and the runner change to the release, and it is published.     *)
LEMMA HandOverKeeps ==
    SInv /\ (PublishJobs \/ Drain \/ Asked \/ WaitRunner \/ StartRunner
             \/ RunnerStarted \/ VerifyRunner \/ PushFails \/ PushSucceeds
             \/ DeployFailed) => SInv'
<1> SUFFICES ASSUME SInv, PublishJobs \/ Drain \/ Asked \/ WaitRunner \/ StartRunner
                            \/ RunnerStarted \/ VerifyRunner \/ PushFails
                            \/ PushSucceeds \/ DeployFailed
             PROVE  SInv'
  OBVIOUS
<1> USE DEF world
<1>1. UNCHANGED <<main, edited, built, frozen, sick, repair, held, used, api>>
  BY DEF PublishJobs, Drain, Asked, WaitRunner, StartRunner, RunnerStarted,
         VerifyRunner, PushFails, PushSucceeds, DeployFailed, services
<1>2. /\ pointer' \in {pointer, deploy.job}
      /\ pointer' # pointer => deploy.phase \in Live
      /\ adoption' \in {"none", "pending", "signaled"}
  BY DEF SInv, SelfReleaseTypeOK, Live, In, Rel, PublishJobs, Drain, Asked,
         WaitRunner, StartRunner, RunnerStarted, VerifyRunner, PushFails,
         PushSucceeds, DeployFailed, services
<1>3. /\ runner' \in [rel : Releases, st : {"down", "up", "asked"}]
      /\ runner'.rel = runner.rel \/ (runner'.rel = deploy.job /\ deploy.phase \in Live)
  BY DEF SInv, SelfReleaseTypeOK, Live, In, Rel, PublishJobs, Drain, Asked,
         WaitRunner, StartRunner, RunnerStarted, VerifyRunner, PushFails,
         PushSucceeds, DeployFailed, services
<1>4. /\ deploy' \in Deploys
      /\ \/ deploy'.phase \in {"complete", "failed"} \/ deploy'.phase = deploy.phase
         \/ deploy'.phase \in Live /\ deploy.phase \in Live
  <2>1. deploy \in Deploys
    BY DEF SInv, SelfReleaseTypeOK, Deploys
  <2>2. CASE PublishJobs \/ Drain \/ WaitRunner \/ StartRunner \/ VerifyRunner \/ PushFails
    <3>1. \/ deploy' = deploy
          \/ \E phase \in Live : deploy.phase \in Live /\ deploy' = [deploy EXCEPT !.phase = phase]
      BY <2>2 DEF PublishJobs, Drain, WaitRunner, StartRunner, VerifyRunner,
                  PushFails, In, To, Throw, Return, Live
    <3>2. CASE \E phase \in Live :
                 deploy.phase \in Live /\ deploy' = [deploy EXCEPT !.phase = phase]
      <4>1. PICK phase \in Live :
              deploy.phase \in Live /\ deploy' = [deploy EXCEPT !.phase = phase]
        BY <3>2
      <4>2. phase \in Phases
        BY DEF Live, Phases
      <4> QED
        BY <4>1, <4>2, NextPhase
    <3> QED
      BY <2>1, <3>1, <3>2
  <2>3. CASE Asked
    BY <2>1, <2>3 DEF SInv, DeployInv, Asked, Return, Live, Deploys, Phases
  <2>4. CASE RunnerStarted
    BY <2>1, <2>4 DEF SInv, DeployInv, RunnerStarted, Live, Deploys, Phases
  <2>5. CASE PushSucceeds \/ DeployFailed
    BY <2>1, <2>5 DEF PushSucceeds, DeployFailed, Deploys, Phases
  <2> QED
    BY <2>2, <2>3, <2>4, <2>5
<1>5. /\ at' \in {"idle", "release", "throwing", "asked", "ran", "ranBeside", "completed", "thrown"}
      /\ at' = "asked" => deploy'.phase = "drain"
      /\ at' \in {"ran", "ranBeside"} => deploy'.phase = "start-runner"
  BY DEF SInv, DeployInv, In, Rel, To, Throw, Return, PublishJobs, Drain, Asked,
         WaitRunner, StartRunner, RunnerStarted, VerifyRunner, PushFails,
         PushSucceeds, DeployFailed
<1>6. DeployInv'
  BY <1>1, <1>4, <1>5 DEF SInv, DeployInv, Deploys, Live, Sound, OnMain
<1>7. /\ api \in [rel : Releases, named : {api.named},
                   st : {"dead", "booting", "starting", "healthy"}]
      /\ frozen \in [Jobs -> {"none", "half", "whole"}] /\ built \in SUBSET Jobs
  BY DEF SInv, SelfReleaseTypeOK
<1>8. at' \in Places
  BY <1>5 DEF Places
<1> QED
  BY <1>1, <1>2, <1>3, <1>4, <1>6, <1>7, <1>8, PhaseKeeps

LEMMA StepKeeps == SInv /\ [Next]_vars => SInv'
<1> SUFFICES ASSUME SInv, [Next]_vars PROVE SInv'
  OBVIOUS
<1>1. CASE UNCHANGED vars
  BY <1>1 DEF SInv, SelfReleaseTypeOK, UsedInv, LiveInv, DeployInv, Sound, OnMain, vars
<1>2. CASE Advance
  BY <1>2, TickKeeps, PreparationKeeps, SwitchKeeps, HandOverKeeps DEF Advance
<1>3. CASE Next /\ ~Advance
  BY <1>3, EditKeeps, SurroundingsKeep, TickKeeps DEF Next
<1> QED
  BY <1>1, <1>2, <1>3

(* The inductive invariant behind the other results.                       *)
THEOREM ReleaseInductive == Spec => []SInv
BY InitHolds, StepKeeps, PTL DEF Spec

(* What runs was built and is on the main branch, wherever the controller  *)
(* dies and whatever it restarts from its files.                           *)
THEOREM LiveWasMerged == Spec => []LiveIsMerged
<1>1. SInv => LiveIsMerged
  BY DEF SInv, LiveInv, Sound, OnMain, LiveIsMerged
<1> QED
  BY <1>1, ReleaseInductive, PTL

(* The main branch: which commits it has, that the repairs on it were      *)
(* started, and that each lies on its base and is there once.              *)
MainInv ==
    /\ \A n \in DOMAIN main : /\ main[n] <= NJobs + used.edits
                              /\ edited => main[n] # NJobs + used.edits
                              /\ main[n] \in Jobs => repair[main[n]].state # "none"
    /\ deploy.job \in Jobs => repair[deploy.job].state # "none"
    /\ AppliedToItsBase

LEMMA AppendsOne ==
    ASSUME SInv, NEW c \in 0 .. NJobs + MaxEdits, main' = Append(main, c)
    PROVE  /\ Len(main) \in Nat /\ Len(main) > 0 /\ Len(main') = Len(main) + 1
           /\ DOMAIN main = 1 .. Len(main) /\ DOMAIN main' = 1 .. Len(main) + 1
           /\ \A n \in DOMAIN main : main'[n] = main[n] /\ main[n] \in Nat
           /\ main'[Len(main) + 1] = c
<1>1. main \in Seq(0 .. NJobs + MaxEdits) /\ main # << >>
  BY DEF SInv, SelfReleaseTypeOK
<1>2. /\ Len(main) \in Nat /\ Len(main) > 0 /\ DOMAIN main = 1 .. Len(main)
      /\ \A n \in DOMAIN main : main[n] \in Nat
  BY <1>1, Bounds
<1> QED
  BY <1>1, <1>2

(* The only step that changes a base is the start of its repair.           *)
LEMMA BasesStay ==
    ASSUME SInv, Next, NEW j \in Jobs, repair[j].state # "none"
    PROVE  repair'[j].base = repair[j].base /\ repair'[j].state # "none"
<1>1. repair \in [Jobs -> [state : {"none", "running", "headRead", "ready", "failed",
                                    "published"},
                           base : 0 .. NJobs + MaxEdits]]
  BY DEF SInv, SelfReleaseTypeOK
<1>2. CASE \E i \in Jobs : StartRepair(i)
  <2>1. PICK i \in Jobs : StartRepair(i)
    BY <1>2
  <2>2. i # j
    BY <2>1 DEF StartRepair
  <2> QED
    BY <1>1, <2>1, <2>2 DEF StartRepair
<1>3. CASE \E i \in Jobs : RepairReadsHead(i) \/ Repaired(i)
  BY <1>1, <1>3 DEF RepairReadsHead, Repaired
<1>4. CASE JobPublished \/ JobFailed
  BY <1>1, <1>4 DEF JobPublished, JobFailed
<1>5. CASE UNCHANGED repair
  BY <1>5
<1> QED
  BY <1>2, <1>3, <1>4, <1>5 DEF Next, Advance, AdoptIdleRunner, Signal, EnsureServices,
     Nothing, Concluded, BeginRelease, Freeze, Frozen, Build, ReadHead, CheckClean, Merge,
     Merged, StopApi, LaunchApi, SwitchedBefore, WaitApi, GiveUpApi, RestoreApi,
     PublishJobs, Drain, Asked, WaitRunner, StartRunner, RunnerStarted, VerifyRunner,
     PushSucceeds, PushFails, DeployFailed, Ended, Restart, Crash, Edit, CommitEdit,
     ApiRecords, ApiHealthy, ApiDies, RunnerLeaves, RunnerDies

(* A release is begun for a repair that was started, and stays that one's. *)
LEMMA ReleaseStarted ==
    ASSUME SInv, MainInv, Next, deploy'.job \in Jobs
    PROVE  repair'[deploy'.job].state # "none"
<1>1. CASE BeginRelease
  <2>1. deploy'.job = held /\ repair[held].state = "ready" /\ repair' = repair
    BY <1>1 DEF BeginRelease
  <2> QED
    BY <2>1
<1>2. CASE deploy'.job = deploy.job
  BY <1>2, BasesStay DEF MainInv
<1>3. \/ BeginRelease
      \/ deploy' = deploy \/ RunnerStarted \/ PushSucceeds \/ DeployFailed
      \/ \E phase : deploy' = [deploy EXCEPT !.phase = phase]
  <2>1. CASE Freeze \/ Frozen \/ Build \/ Merged \/ SwitchedBefore \/ WaitApi \/ PublishJobs
             \/ Drain \/ Asked \/ WaitRunner \/ VerifyRunner \/ PushFails
    <3>1. CASE Freeze \/ Frozen \/ Build \/ Merged
      <4>1. CASE Freeze
        BY <4>1 DEF SInv, SelfReleaseTypeOK, DeployInv, Freeze, In, Rel, To, Throw
      <4>2. CASE Frozen \/ Build
        BY <4>2 DEF Frozen, Build, To, Throw
      <4>3. CASE Merged
        <5>1. PICK phase : phase = IF api.named # Rel THEN "api-switch" ELSE "jobs"
          OBVIOUS
        <5>2. deploy' = [deploy EXCEPT !.phase = phase]
          BY <4>3, <5>1 DEF Merged, To
        <5> QED
          BY <5>2
      <4> QED
        BY <3>1, <4>1, <4>2, <4>3
    <3>2. CASE SwitchedBefore \/ WaitApi \/ PublishJobs \/ Drain
      BY <3>2 DEF SwitchedBefore, WaitApi, PublishJobs, Drain, To, Throw
    <3>3. CASE Asked \/ WaitRunner \/ VerifyRunner \/ PushFails
      BY <3>3 DEF Asked, WaitRunner, VerifyRunner, PushFails, To, Throw, Return
    <3> QED
      BY <2>1, <3>1, <3>2, <3>3
  <2>2. CASE ReadHead \/ CheckClean \/ Merge \/ StopApi \/ LaunchApi \/ GiveUpApi
             \/ RestoreApi \/ StartRunner
    BY <2>2 DEF ReadHead, CheckClean, Merge, StopApi, LaunchApi, GiveUpApi, RestoreApi,
       StartRunner, Throw
  <2> QED
    BY <2>1, <2>2 DEF Next, Advance, AdoptIdleRunner, Signal, EnsureServices,
       Nothing, Concluded, Ended, Restart, Crash, Edit, CommitEdit,
       ApiRecords, ApiHealthy, ApiDies, RunnerLeaves, RunnerDies, StartRepair,
       RepairReadsHead, Repaired, JobPublished, JobFailed
<1>4. ASSUME \/ deploy' = deploy \/ RunnerStarted \/ PushSucceeds \/ DeployFailed
             \/ \E phase : deploy' = [deploy EXCEPT !.phase = phase]
      PROVE  deploy'.job = deploy.job
  <2>1. deploy \in [active : BOOLEAN, job : Releases, phase : Phases,
                    oldApi : Releases, newRunner : BOOLEAN]
    BY DEF SInv, SelfReleaseTypeOK
  <2>2. CASE RunnerStarted \/ PushSucceeds \/ DeployFailed
    BY <2>1, <2>2 DEF RunnerStarted, PushSucceeds, DeployFailed
  <2> QED
    BY <1>4, <2>1, <2>2
<1> QED
  BY <1>1, <1>2, <1>3, <1>4

(* A merge that only fast-forwards puts a repair on its base, and does so  *)
(* once: had it been there, the base would not have been the head.         *)
LEMMA MergeKeepsMain == SInv /\ MainInv /\ Merge => MainInv'
<1> SUFFICES ASSUME SInv, MainInv, Merge PROVE MainInv'
  OBVIOUS
<1> DEFINE j == deploy.job
<1>1. UNCHANGED <<edited, repair, used>> /\ deploy' = deploy
  BY DEF Merge, Throw
<1>2. CASE main' = main
  BY <1>1, <1>2 DEF MainInv, AppliedToItsBase
<1>3. CASE FastForwards(j) /\ main' = Append(main, j)
  <2>1. j \in Jobs /\ j \in 0 .. NJobs + MaxEdits /\ repair[j].state # "none"
    BY Bounds DEF SInv, DeployInv, MainInv, Merge
  <2>2. /\ Len(main) \in Nat /\ Len(main) > 0 /\ Len(main') = Len(main) + 1
        /\ DOMAIN main = 1 .. Len(main) /\ DOMAIN main' = 1 .. Len(main) + 1
        /\ \A n \in DOMAIN main : main'[n] = main[n] /\ main[n] \in Nat
        /\ main'[Len(main) + 1] = j
    BY <1>3, <2>1, AppendsOne
  <2>3. main[Len(main)] = repair[j].base
    <3>1. PICK m \in DOMAIN main : /\ main[Len(main)] = main[m]
                                   /\ \E k \in DOMAIN main : m <= k /\ main[k] = repair[j].base
      BY <1>3 DEF FastForwards, Below, Head0
    <3>2. m = Len(main)
      BY <2>2, <3>1 DEF MainInv, AppliedToItsBase
    <3> QED
      BY <2>2, <3>1, <3>2
  <2>4. ASSUME NEW n \in DOMAIN main PROVE main[n] # j
    <3> SUFFICES ASSUME main[n] = j PROVE FALSE
      OBVIOUS
    <3>1. n > 1 /\ main[n - 1] = main[Len(main)]
      BY <2>1, <2>3 DEF MainInv, AppliedToItsBase
    <3>2. n - 1 \in DOMAIN main /\ Len(main) \in DOMAIN main /\ n - 1 # Len(main)
      BY <2>2, <3>1
    <3> QED
      BY <3>1, <3>2 DEF MainInv, AppliedToItsBase
  <2>5. j <= NJobs + used.edits /\ (edited => j # NJobs + used.edits)
    <3>1. used.edits \in Nat /\ (edited => used.edits # 0) /\ j \in 1 .. NJobs /\ NJobs \in Nat
      BY <2>1, Bounds DEF SInv, UsedInv, Jobs
    <3> QED
      BY <3>1
  <2>6. AppliedToItsBase'
    <3>1. ASSUME NEW n \in DOMAIN main', main'[n] \in Jobs
          PROVE  n > 1 /\ main'[n - 1] = repair'[main'[n]].base
      <4>1. CASE n \in DOMAIN main
        <5>1. n > 1 /\ main[n - 1] = repair[main[n]].base
          BY <2>2, <3>1, <4>1 DEF MainInv, AppliedToItsBase
        <5> QED
          BY <1>1, <2>2, <4>1, <5>1
      <4>2. CASE n = Len(main) + 1
        BY <1>1, <2>2, <2>3, <4>2
      <4> QED
        BY <2>2, <4>1, <4>2
    <3>2. ASSUME NEW m \in DOMAIN main', NEW n \in DOMAIN main', main'[m] = main'[n]
          PROVE  m = n
      BY <2>2, <2>4, <3>2 DEF MainInv, AppliedToItsBase
    <3> QED
      BY <3>1, <3>2 DEF AppliedToItsBase
  <2> QED
    BY <1>1, <2>1, <2>2, <2>5, <2>6 DEF MainInv
<1> QED
  BY <1>2, <1>3 DEF Merge, Rel

(* A person's commit is a new one, above those of the repairs.             *)
LEMMA CommitKeepsMain == SInv /\ MainInv /\ CommitEdit => MainInv'
<1> SUFFICES ASSUME SInv, MainInv, CommitEdit PROVE MainInv'
  OBVIOUS
<1> DEFINE c == NJobs + used.edits
<1>1. UNCHANGED <<repair, deploy, used>> /\ edited /\ ~edited' /\ main' = Append(main, c)
  BY DEF CommitEdit
<1>2. c \in 0 .. NJobs + MaxEdits /\ c \notin Jobs
  BY <1>1, Bounds DEF SInv, UsedInv, Jobs
<1>3. /\ Len(main) \in Nat /\ Len(main) > 0 /\ Len(main') = Len(main) + 1
      /\ DOMAIN main = 1 .. Len(main) /\ DOMAIN main' = 1 .. Len(main) + 1
      /\ \A n \in DOMAIN main : main'[n] = main[n] /\ main[n] \in Nat
      /\ main'[Len(main) + 1] = c
  BY <1>1, <1>2, AppendsOne
<1>4. \A n \in DOMAIN main : main[n] # c
  BY <1>1 DEF MainInv
<1>5. AppliedToItsBase'
  <2>1. ASSUME NEW n \in DOMAIN main', main'[n] \in Jobs
        PROVE  n > 1 /\ main'[n - 1] = repair'[main'[n]].base
    <3>1. n \in DOMAIN main
      BY <1>2, <1>3, <2>1
    <3>2. n > 1 /\ main[n - 1] = repair[main[n]].base
      BY <1>3, <2>1, <3>1 DEF MainInv, AppliedToItsBase
    <3> QED
      BY <1>1, <1>3, <3>1, <3>2
  <2>2. ASSUME NEW m \in DOMAIN main', NEW n \in DOMAIN main', main'[m] = main'[n]
        PROVE  m = n
    BY <1>3, <1>4, <2>2 DEF MainInv, AppliedToItsBase
  <2> QED
    BY <2>1, <2>2 DEF AppliedToItsBase
<1> HIDE DEF c
<1>6. \A n \in DOMAIN main' : main'[n] <= NJobs + used'.edits
  BY <1>1, <1>2, <1>3 DEF MainInv, c
<1> QED
  BY <1>1, <1>2, <1>3, <1>5, <1>6 DEF MainInv

LEMMA MainKeeps == SInv /\ MainInv /\ [Next]_vars => MainInv'
<1> SUFFICES ASSUME SInv, MainInv, [Next]_vars PROVE MainInv'
  OBVIOUS
<1>1. CASE UNCHANGED vars
  BY <1>1 DEF MainInv, AppliedToItsBase, vars
<1>2. CASE Merge \/ CommitEdit
  BY <1>2, MergeKeepsMain, CommitKeepsMain
<1>3. CASE Next /\ ~Merge /\ ~CommitEdit
  <2>1. /\ main' = main /\ used.edits \in Nat /\ NJobs \in Nat
        /\ \A n \in DOMAIN main : main[n] \in Nat
    <3>1. main' = main
      BY <1>3 DEF Next, Advance, world, AdoptIdleRunner, Signal, EnsureServices, Nothing,
         Concluded, BeginRelease, Freeze, Frozen, Build, ReadHead, CheckClean, Merged,
         StopApi, LaunchApi, SwitchedBefore, WaitApi, GiveUpApi, RestoreApi, PublishJobs,
         Drain, Asked, WaitRunner, StartRunner, RunnerStarted, VerifyRunner,
         PushSucceeds, PushFails, JobPublished, DeployFailed, JobFailed, Ended,
         StartRepair, Restart, Crash, Edit, ApiRecords, ApiHealthy, ApiDies,
         RunnerLeaves, RunnerDies, RepairReadsHead, Repaired
    <3> QED
      BY <3>1, Bounds DEF SInv, UsedInv, SelfReleaseTypeOK
  <2>2. \/ edited' = edited /\ used'.edits = used.edits
        \/ used'.edits = used.edits + 1
    BY <1>3 DEF SInv, UsedInv, Next, Advance, world, AdoptIdleRunner, Signal,
       EnsureServices, Nothing,
       Concluded, BeginRelease, Freeze, Frozen, Build, ReadHead, CheckClean, Merged,
       StopApi, LaunchApi, SwitchedBefore, WaitApi, GiveUpApi, RestoreApi, PublishJobs,
       Drain, Asked, WaitRunner, StartRunner, RunnerStarted, VerifyRunner,
       PushSucceeds, PushFails, JobPublished, DeployFailed, JobFailed, Ended,
       StartRepair, Restart, Crash, Edit, ApiRecords, ApiHealthy, ApiDies,
       RunnerLeaves, RunnerDies, RepairReadsHead, Repaired
  <2>3. \A n \in DOMAIN main : main[n] \in Jobs =>
          /\ repair'[main[n]].base = repair[main[n]].base
          /\ repair'[main[n]].state # "none"
    BY <1>3, BasesStay DEF MainInv
  <2>4. AppliedToItsBase'
    BY <2>1, <2>3 DEF MainInv, AppliedToItsBase
  <2>5. \A n \in DOMAIN main : /\ main[n] <= NJobs + used'.edits
                               /\ edited' => main[n] # NJobs + used'.edits
    BY <2>1, <2>2 DEF MainInv
  <2> QED
    BY <1>3, <2>1, <2>3, <2>4, <2>5, ReleaseStarted DEF MainInv
<1> QED
  BY <1>1, <1>2, <1>3

(* Each repair on the main branch lies on the commit it was made and       *)
(* validated on, and is there once: a person's commits between git's       *)
(* commands and deaths of the controller between the merge and its record  *)
(* do not change this (self-heal-release.mjs:197-206).                     *)
THEOREM MergedOntoItsBase == Spec => []AppliedToItsBase
<1>1. Init => MainInv
  <2> SUFFICES ASSUME Init PROVE MainInv
    OBVIOUS
  <2>1. DOMAIN main = {1} /\ main[1] = 0 /\ 0 \notin Jobs /\ deploy.job = 0
        /\ used.edits = 0 /\ ~edited /\ NJobs \in Nat
    BY Bounds DEF Init
  <2> QED
    BY <2>1 DEF MainInv, AppliedToItsBase
<1>2. MainInv => AppliedToItsBase
  BY DEF MainInv
<1> QED
  BY <1>1, <1>2, ReleaseInductive, MainKeeps, PTL DEF Spec
=============================================================================
